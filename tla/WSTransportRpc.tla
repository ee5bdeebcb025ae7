--------------------------- MODULE WSTransportRpc ---------------------------
(***************************************************************************)
(* Request/response over the Node.js WebSocket transport                   *)
(* (src/src/transports/node/WSTransport.ts): the table of pending RPCs of  *)
(* one node, with the timer, the send and the answer of every call, the    *)
(* backpressure loop of send() and the draining done by disconnect().      *)
(*                                                                         *)
(* One action is one run-to-completion turn of the event loop.  Only the   *)
(* sleeps of the code (the 50 ms backpressure poll, the 100 ms drain poll, *)
(* the 10 s RPC timer) separate two actions of the same call.  Time is not *)
(* counted: a timer fires at any moment after it is armed.                 *)
(*                                                                         *)
(* The remote node is external: it may answer a request MaxAnswers times,  *)
(* with packets of the kinds in AnswerKinds.                               *)
(***************************************************************************)
EXTENDS Naturals, FiniteSets

CONSTANTS Calls,        \* the calls the node makes, named by their random id
          Peers,        \* remote nodes
          Dest,         \* Dest[c]: the node call c is addressed to
          AnswerKinds,  \* what the remote node puts on the wire
          MaxAnswers    \* bound: packets a remote node sends for one request

\* RESPONSE     type RESPONSE: resolves the call
\* ERROR_DATA   type RESPONSE_ERROR with the message under data
\* ERROR_TYPED  type RESPONSE_ERROR as RPCErrorResponse declares it: the
\*              message under error, no data
\* OTHER        any other type (NetworkPlugin answers with an EVENT), or an
\*              incompatible protocol version
AllKinds == {"RESPONSE", "ERROR_DATA", "ERROR_TYPED", "OTHER"}

ASSUME RpcAssumption == /\ Dest \in [Calls -> Peers]
                        /\ AnswerKinds \subseteq AllKinds
                        /\ MaxAnswers \in Nat

VARIABLES
    promise,    \* state of the promise returned by call()
    pending,    \* keys of pendingRPCs
    timer,      \* calls whose 10 s timeout is armed
    sendPc,     \* progress of the send() of each call
    link,       \* socket registered in peers[p], by its readyState
    choked,     \* peers whose socket has bufferedAmount above 1 MB
    draining,   \* isDraining
    connected,  \* connected
    disconnecting, \* disconnect() is in its drain loop
    requests,   \* requests in flight
    answers,    \* answers in flight
    answered,   \* packets the remote node has sent for each request
    served,     \* history: requests that reached their remote node
    late        \* history: calls made once isDraining was set

callVars == <<promise, pending, timer>>
wireVars == <<requests, answers, answered, served>>
lifeVars == <<draining, connected, disconnecting>>
vars == <<promise, pending, timer, sendPc, link, choked, draining, connected,
          disconnecting, requests, answers, answered, served, late>>

LinkStates == {"down", "open", "closing"}
SendStates == {"none", "waiting", "stale", "done"}
AnswerSet == [call : Calls, kind : AnswerKinds]

Init == /\ promise = [c \in Calls |-> "idle"]
        /\ pending = {}
        /\ timer = {}
        /\ sendPc = [c \in Calls |-> "none"]
        /\ link = [p \in Peers |-> "down"]
        /\ choked = {}
        /\ draining = FALSE
        /\ connected = TRUE
        /\ disconnecting = FALSE
        /\ requests = {}
        /\ answers = {}
        /\ answered = [c \in Calls |-> 0]
        /\ served = {}
        /\ late = {}

-----------------------------------------------------------------------------
(* call() and send() *)

\* Mutant: send() forgets isDraining.
Sendable_Draining(p) == link[p] = "open"

\* What send() checks before its first await.
Sendable(p) == ~draining /\ link[p] = "open"

\* Ghost: remember the calls made after disconnect() began.
Stamp(c) == late' = IF draining THEN late \cup {c} ELSE late

\* call() arms the timer and registers the call, then send() throws in the
\* same turn and the catch handler undoes both and rejects.
CallRefused(c) ==
    /\ promise[c] = "idle"
    /\ ~Sendable(Dest[c])
    /\ promise' = [promise EXCEPT ![c] = "refused"]
    /\ sendPc' = [sendPc EXCEPT ![c] = "done"]
    /\ Stamp(c)
    /\ UNCHANGED <<pending, timer, link, choked, wireVars, lifeVars>>

\* Mutant: call() registers without arming the timer.
Register_NoTimer(c) == /\ promise' = [promise EXCEPT ![c] = "open"]
                       /\ pending' = pending \cup {c}
                       /\ UNCHANGED timer

\* call() accepted: registered with an armed timer.
Register(c) == /\ promise' = [promise EXCEPT ![c] = "open"]
               /\ pending' = pending \cup {c}
               /\ timer' = timer \cup {c}

\* The socket has room: the request is written in the same turn.
CallSent(c) ==
    /\ promise[c] = "idle"
    /\ Sendable(Dest[c])
    /\ Dest[c] \notin choked
    /\ Register(c)
    /\ sendPc' = [sendPc EXCEPT ![c] = "done"]
    /\ requests' = requests \cup {c}
    /\ Stamp(c)
    /\ UNCHANGED <<link, choked, answers, answered, served, lifeVars>>

\* The socket is congested: send() sleeps holding on to that socket.
CallQueued(c) ==
    /\ promise[c] = "idle"
    /\ Sendable(Dest[c])
    /\ Dest[c] \in choked
    /\ Register(c)
    /\ sendPc' = [sendPc EXCEPT ![c] = "waiting"]
    /\ Stamp(c)
    /\ UNCHANGED <<link, choked, wireVars, lifeVars>>

\* A backpressure poll finds room.  Neither isDraining nor the pending entry
\* is looked at again: a call that has timed out is still sent.
ResumeSend(c) ==
    /\ sendPc[c] = "waiting"
    /\ Dest[c] \notin choked
    /\ sendPc' = [sendPc EXCEPT ![c] = "done"]
    /\ requests' = requests \cup {c}
    /\ UNCHANGED <<callVars, link, choked, answers, answered, served, lifeVars,
                   late>>

\* The socket held by send() has been closed meanwhile: ws drops the write
\* without an error, even if peers[p] names a new socket by now.
ResumeStale(c) ==
    /\ sendPc[c] = "stale"
    /\ sendPc' = [sendPc EXCEPT ![c] = "done"]
    /\ UNCHANGED <<callVars, link, choked, wireVars, lifeVars, late>>

\* Mutant: the send of a call whose timer fires is started over.
Timeout_Retries(c) ==
    /\ c \in timer
    /\ timer' = timer \ {c}
    /\ pending' = pending \ {c}
    /\ promise' = IF c \in pending
                  THEN [promise EXCEPT ![c] = "idle"] ELSE promise
    /\ UNCHANGED <<sendPc, link, choked, wireVars, lifeVars, late>>

\* The 10 s timer of call().
Timeout(c) ==
    /\ c \in timer
    /\ timer' = timer \ {c}
    /\ pending' = pending \ {c}
    /\ promise' = IF c \in pending
                  THEN [promise EXCEPT ![c] = "rejected"] ELSE promise
    /\ UNCHANGED <<sendPc, link, choked, wireVars, lifeVars, late>>

-----------------------------------------------------------------------------
(* The remote node and the answers *)

\* The request is received by the remote node and enters its mesh.
Deliver(c) ==
    /\ c \in requests
    /\ requests' = requests \ {c}
    /\ served' = served \cup {c}
    /\ UNCHANGED <<callVars, sendPc, link, choked, answers, answered, lifeVars,
                   late>>

\* The remote node answers on a socket of its own choice: peers[p] may have
\* lost track of it, or it may be a later one.
Answer(c, k) ==
    /\ c \in served
    /\ answered[c] < MaxAnswers
    /\ answered' = [answered EXCEPT ![c] = @ + 1]
    /\ answers' = answers \cup {[call |-> c, kind |-> k]}
    /\ UNCHANGED <<callVars, sendPc, link, choked, requests, served, lifeVars,
                   late>>

\* The promise after an answer that found its entry.  With ERROR_TYPED the
\* expression data.message throws before reject() is called; the handler of
\* the message swallows the TypeError.
Outcome(k, s) == IF k = "RESPONSE" THEN "resolved"
                 ELSE IF k = "ERROR_DATA" THEN "rejected" ELSE s

\* Mutant: the timer of an answered call is left armed.
Receive_KeepsTimer(m) ==
    /\ m \in answers
    /\ answers' = answers \ {m}
    /\ UNCHANGED timer
    /\ IF m.kind # "OTHER" /\ m.call \in pending
       THEN /\ pending' = pending \ {m.call}
            /\ promise' = [promise EXCEPT ![m.call] = Outcome(m.kind, @)]
       ELSE UNCHANGED <<pending, promise>>
    /\ UNCHANGED <<sendPc, link, choked, requests, answered, served, lifeVars,
                   late>>

\* Mutant: the answer settles the call although its entry is gone.
Receive_Unchecked(m) ==
    /\ m \in answers
    /\ answers' = answers \ {m}
    /\ IF m.kind # "OTHER"
       THEN /\ timer' = timer \ {m.call}
            /\ pending' = pending \ {m.call}
            /\ promise' = [promise EXCEPT ![m.call] = Outcome(m.kind, @)]
       ELSE UNCHANGED callVars
    /\ UNCHANGED <<sendPc, link, choked, requests, answered, served, lifeVars,
                   late>>

\* handleIncomingMessage: a RESPONSE or RESPONSE_ERROR clears the timer and
\* the entry first and settles the promise next; an answer to a call that is
\* not pending and a packet of another type leave the table alone.
Receive(m) ==
    /\ m \in answers
    /\ answers' = answers \ {m}
    /\ IF m.kind # "OTHER" /\ m.call \in pending
       THEN /\ timer' = timer \ {m.call}
            /\ pending' = pending \ {m.call}
            /\ promise' = [promise EXCEPT ![m.call] = Outcome(m.kind, @)]
       ELSE UNCHANGED callVars
    /\ UNCHANGED <<sendPc, link, choked, requests, answered, served, lifeVars,
                   late>>

-----------------------------------------------------------------------------
(* Sockets *)

\* The sends of the calls in C that sleep hold a socket that is gone.
LoseSocket(C) ==
    sendPc' = [c \in Calls |-> IF sendPc[c] = "waiting" /\ c \in C
                               THEN "stale" ELSE sendPc[c]]

\* Mutant: an outbound socket is registered before its open event.
LinkUp_Early(p) ==
    /\ link[p] = "down"
    /\ link' = [link EXCEPT ![p] = "connecting"]
    /\ UNCHANGED <<callVars, sendPc, choked, wireVars, lifeVars, late>>

\* peers[p] is set: an outbound socket opened or an inbound one identified
\* itself.
LinkUp(p) ==
    /\ link[p] = "down"
    /\ link' = [link EXCEPT ![p] = "open"]
    /\ UNCHANGED <<callVars, sendPc, choked, wireVars, lifeVars, late>>

\* The close event deletes peers[p].  The calls in C used that socket: what
\* they had in flight is lost.  The others use a second socket to the same
\* node, which stays open without an entry.
LinkDown(p, C) ==
    /\ link[p] # "down"
    /\ link' = [link EXCEPT ![p] = "down"]
    /\ choked' = choked \ {p}
    /\ LoseSocket(C)
    /\ requests' = requests \ C
    /\ answers' = {m \in answers : m.call \notin C}
    /\ UNCHANGED <<callVars, answered, served, lifeVars, late>>

\* bufferedAmount crosses 1 MB, in either direction.
Choke(p) == /\ link[p] = "open"
            /\ p \notin choked
            /\ choked' = choked \cup {p}
            /\ UNCHANGED <<callVars, sendPc, link, wireVars, lifeVars, late>>

Unchoke(p) == /\ p \in choked
              /\ choked' = choked \ {p}
              /\ UNCHANGED <<callVars, sendPc, link, wireVars, lifeVars, late>>

-----------------------------------------------------------------------------
(* connect() and disconnect() *)

\* disconnect() stops new sends and enters its drain loop.
BeginDisconnect ==
    /\ connected
    /\ ~disconnecting
    /\ draining' = TRUE
    /\ disconnecting' = TRUE
    /\ UNCHANGED <<callVars, sendPc, link, choked, wireVars, connected, late>>

\* The table is empty or 5 s have passed: every socket of peers is closed,
\* the map is cleared and the server stops.  Timers, entries and sleeping
\* sends are left as they are.
FinishDisconnect ==
    /\ disconnecting
    /\ disconnecting' = FALSE
    /\ connected' = FALSE
    /\ link' = [p \in Peers |-> IF link[p] = "open" THEN "closing" ELSE link[p]]
    /\ choked' = {}
    /\ LoseSocket(Calls)
    /\ UNCHANGED <<callVars, wireVars, draining, late>>

\* connect() once more: isDraining keeps its value.
Connect ==
    /\ ~connected
    /\ connected' = TRUE
    /\ UNCHANGED <<callVars, sendPc, link, choked, wireVars, draining,
                   disconnecting, late>>

-----------------------------------------------------------------------------
CallStep(c) == CallRefused(c) \/ CallSent(c) \/ CallQueued(c)

SendStep(c) == ResumeSend(c) \/ ResumeStale(c)

RemoteStep == \/ \E c \in Calls : Deliver(c)
              \/ \E c \in Calls, k \in AnswerKinds : Answer(c, k)
              \/ \E m \in answers : Receive(m)

CallsTo(p) == {c \in Calls : Dest[c] = p}

SocketStep == \/ \E p \in Peers : LinkUp(p) \/ Choke(p) \/ Unchoke(p)
              \/ \E p \in Peers : \E C \in SUBSET CallsTo(p) : LinkDown(p, C)

LifeStep == BeginDisconnect \/ FinishDisconnect \/ Connect

Next == \/ \E c \in Calls : CallStep(c) \/ SendStep(c) \/ Timeout(c)
        \/ RemoteStep
        \/ SocketStep
        \/ LifeStep

\* An armed timer fires: setTimeout needs nothing but the event loop.
\* Nothing is assumed of the network, of the remote node or of the callers.
Fairness == \A c \in Calls : WF_vars(Timeout(c))

Safe == Init /\ [][Next]_vars

Spec == Safe /\ Fairness

-----------------------------------------------------------------------------
(* Properties *)

\* The variables take the values the code gives them.
TypeOK == /\ promise \in [Calls -> {"idle", "open", "refused", "resolved", "rejected"}]
          /\ pending \subseteq Calls
          /\ timer \subseteq Calls
          /\ sendPc \in [Calls -> SendStates]
          /\ link \in [Peers -> LinkStates]
          /\ choked \subseteq Peers
          /\ draining \in BOOLEAN
          /\ connected \in BOOLEAN
          /\ disconnecting \in BOOLEAN
          /\ requests \subseteq Calls
          /\ answers \subseteq AnswerSet
          /\ answered \in [Calls -> 0..MaxAnswers]
          /\ served \subseteq Calls
          /\ late \subseteq Calls

\* The table, the timers and the promises agree in every state: a promise
\* that waits has an entry and an armed timer, and nothing else has either
\* (WSTransport.ts:144-156 and 235-256 each update the three of them).
TableMatchesPromises == /\ pending = timer
                        /\ pending = {c \in Calls : promise[c] = "open"}

\* Draining is final for the transport: a call made after disconnect() began
\* never reaches a remote node, neither while the drain loop waits, nor over
\* a socket that reconnects, nor after a later connect()
\* (WSTransport.ts:177-178 and 210-212).
NothingSentOnceDraining == late \cap (requests \cup served) = {}

\* What ties the wire to the promises: whatever a send() holds, the network
\* carries or the remote node got belongs to a call that was accepted, an
\* answer belongs to a request that arrived, a call made while draining was
\* refused and an entry of the table is a call that waits
\* (WSTransport.ts:209-256).
InFlightAccepted ==
    \A c \in Calls :
        (sendPc[c] \in {"waiting", "stale"} \/ c \in requests \cup served)
        => promise[c] \notin {"idle", "refused"}
AnswersServed == \A m \in answers : m.call \in served
LateRefused == \A c \in late : promise[c] = "refused"
PendingOpen == \A c \in pending : promise[c] = "open"
WireMatchesPromises == /\ InFlightAccepted
                       /\ AnswersServed
                       /\ LateRefused
                       /\ PendingOpen

\* Every call settles, by its answer or by its timer, whatever the network,
\* the remote node, a congested socket or disconnect() do
\* (WSTransport.ts:181: in-flight RPCs finish or time out).
EveryCallSettles == \A c \in Calls : promise[c] = "open" ~> promise[c] # "open"

\* The transport keeps the promise of RpcPromise: one settlement per call, a
\* resolution only after the remote node got the request, and a settlement
\* of every call that was accepted (WSTransport.ts:232-257).
Promise == INSTANCE RpcPromise
ImplementsPromise == Promise!Spec

=============================================================================
