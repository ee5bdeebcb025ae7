---------------------------- MODULE OfflineQueue ----------------------------
(***************************************************************************)
(* The browser WebSocket transport (src/src/transports/browser/            *)
(* WSTransport.ts) with the store it keeps requests in while a node cannot *)
(* be reached (src/src/utils/OfflineStorageEngine.ts).                     *)
(*                                                                         *)
(* A line is what one connectToPeer() starts: a socket, then after its     *)
(* close event a timer that opens the next one, until the transport gives  *)
(* up.  A line has at most one socket at a time.                           *)
(*                                                                         *)
(* The store is an IndexedDB object store, external: its transactions run  *)
(* one after the other in the order they were created, each may fail, and  *)
(* the callback of a transaction runs before the next one starts.  A page  *)
(* that goes away takes everything but the store with it.                  *)
(***************************************************************************)
EXTENDS Naturals, Sequences, FiniteSets

CONSTANTS Calls,        \* the calls made, named by their random id
          Peers,        \* remote nodes
          Dest,         \* Dest[c]: the node call c is addressed to
          Lines,        \* connectToPeer() calls of one page (bound)
          To,           \* To[l]: the node line l connects to
          AnswerKinds,  \* what the remote nodes answer with
          MaxAttempts,  \* MAX_RECONNECT_ATTEMPTS
          MaxOps,       \* bound: transactions queued when a socket opens
          MaxReloads    \* bound: times the page is loaded again

\* RESPONSE     type RESPONSE: resolves the call
\* ERROR_DATA   type RESPONSE_ERROR with data
\* ERROR_TYPED  type RESPONSE_ERROR as RPCErrorResponse declares it: the
\*              message under error, no data
AllKinds == {"RESPONSE", "ERROR_DATA", "ERROR_TYPED"}

ASSUME OfflineAssumption == /\ IsFiniteSet(Calls)
                            /\ Dest \in [Calls -> Peers]
                            /\ To \in [Lines -> Peers]
                            /\ AnswerKinds \subseteq AllKinds
                            /\ MaxAttempts \in Nat
                            /\ MaxOps \in Nat
                            /\ MaxReloads \in Nat

NoLine == "none"

ASSUME NoLineAssumption == NoLine \notin Lines

VARIABLES
    promise,   \* the promise returned by call()
    pending,   \* keys of pendingRPCs
    timer,     \* calls whose 10 s timeout is armed
    line,      \* state of each line: its socket or its timer
    entry,     \* entry[p]: the line whose socket is in peers[p]
    attempts,  \* reconnectAttempts, shared by all lines
    db,        \* the database handle: unset until connect(), then open or none
    ops,       \* transactions in the order they will run
    store,     \* calls in the object store
    wire,      \* history: what was written to a socket, and to whom
    orphaned,  \* history: entries whose replay or removal failed or was cut off
    reloads    \* page loads so far

callVars == <<promise, pending, timer>>
lineVars == <<line, entry, attempts>>
storeVars == <<db, ops, store>>
vars == <<promise, pending, timer, line, entry, attempts, db, ops, store, wire,
          orphaned, reloads>>

LineStates == {"unused", "connecting", "open", "closing", "waiting", "ended"}

\* queue    add() of a call that found no open socket
\* requeue  add() of an entry whose replay found no open socket
\* remove   delete() of an entry that has been replayed
\* replay   getAll() of replayQueuedRPCs(p)
CallOps == [op : {"queue", "requeue", "remove"}, on : Calls]
PeerOps == [op : {"replay"}, on : Peers]

Packets == [call : Calls, to : Peers]

Init == /\ promise = [c \in Calls |-> "idle"]
        /\ pending = {}
        /\ timer = {}
        /\ line = [l \in Lines |-> "unused"]
        /\ entry = [p \in Peers |-> NoLine]
        /\ attempts = 0
        /\ db = "unset"
        /\ ops = <<>>
        /\ store = {}
        /\ wire = {}
        /\ orphaned = {}
        /\ reloads = 0

-----------------------------------------------------------------------------
(* call() and send() *)

\* send() finds an open socket for p.
Up(p) == entry[p] # NoLine /\ line[entry[p]] = "open"

\* Mutant: the call is registered without a timer.
Register_NoTimer(c) == /\ promise' = [promise EXCEPT ![c] = "open"]
                       /\ pending' = pending \cup {c}
                       /\ UNCHANGED timer

Register(c) == /\ promise' = [promise EXCEPT ![c] = "open"]
               /\ pending' = pending \cup {c}
               /\ timer' = timer \cup {c}

\* call() writes its request to the socket.
CallSent(c) == /\ promise[c] = "idle"
               /\ Up(Dest[c])
               /\ Register(c)
               /\ wire' = wire \cup {[call |-> c, to |-> Dest[c]]}
               /\ UNCHANGED <<lineVars, storeVars, orphaned, reloads>>

\* call() finds no open socket: queue() starts a transaction, or returns as
\* if it had stored the request when there is no database.
CallQueued(c) == /\ promise[c] = "idle"
                 /\ ~Up(Dest[c])
                 /\ Register(c)
                 /\ ops' = IF db = "open"
                           THEN Append(ops, [op |-> "queue", on |-> c])
                           ELSE ops
                 /\ UNCHANGED <<lineVars, db, store, wire, orphaned, reloads>>

\* The timer, or the catch handler of the send: the entry and the timer go
\* and the promise, if it still waits, is rejected.
Reject(c) == /\ timer' = timer \ {c}
             /\ pending' = pending \ {c}
             /\ promise' = IF promise[c] = "open"
                           THEN [promise EXCEPT ![c] = "rejected"] ELSE promise

\* The 10 s timer.  The request stays where it is: a queued one is sent later.
Timeout(c) == /\ c \in timer
              /\ Reject(c)
              /\ UNCHANGED <<lineVars, storeVars, wire, orphaned, reloads>>

\* The promise after an answer that found its entry.  With ERROR_TYPED the
\* expression data.message throws before reject() is called, and the handler
\* of the message swallows the TypeError.
Outcome(k, s) == CASE k = "RESPONSE"    -> "resolved"
                   [] k = "ERROR_DATA"  -> "rejected"
                   [] k = "ERROR_TYPED" -> s

\* An answer of kind k to a request that was sent arrives on a socket of its
\* node: the timer and the entry go first.  An answer to a call that has no
\* entry changes nothing.
Receive(c, k) ==
    /\ [call |-> c, to |-> Dest[c]] \in wire
    /\ \E l \in Lines : To[l] = Dest[c] /\ line[l] \in {"open", "closing"}
    /\ c \in pending
    /\ timer' = timer \ {c}
    /\ pending' = pending \ {c}
    /\ promise' = [promise EXCEPT ![c] = Outcome(k, @)]
    /\ UNCHANGED <<lineVars, storeVars, wire, orphaned, reloads>>

-----------------------------------------------------------------------------
(* The object store *)

Sent(c) == [call |-> c, to |-> Dest[c]] \in wire

\* The removal of c's entry waits for its turn.
Removing(c) == \E i \in DOMAIN ops : ops[i] = [op |-> "remove", on |-> c]

\* The next transaction is o.
Runs(o) == ops # <<>> /\ Head(ops) = o

\* add() of a call's request commits.
Stored(c) == /\ Runs([op |-> "queue", on |-> c])
             /\ c \notin store
             /\ store' = store \cup {c}
             /\ ops' = Tail(ops)
             /\ UNCHANGED <<callVars, lineVars, db, wire, orphaned, reloads>>

\* Mutant: the handler of a failed send leaves the entry and the timer.
StoreRefused_KeepsEntry(c) ==
    /\ Runs([op |-> "queue", on |-> c])
    /\ ops' = Tail(ops)
    /\ promise' = IF promise[c] = "open"
                  THEN [promise EXCEPT ![c] = "rejected"] ELSE promise
    /\ UNCHANGED <<pending, timer, lineVars, db, store, wire, orphaned, reloads>>

\* add() of a call's request fails: the send is rejected and so is the call.
StoreRefused(c) == /\ Runs([op |-> "queue", on |-> c])
                   /\ ops' = Tail(ops)
                   /\ Reject(c)
                   /\ UNCHANGED <<lineVars, db, store, wire, orphaned, reloads>>

\* The transactions ks[1], ks[2], ... of kind k, one for each call of C in
\* some order.
Batches(k, C) ==
    {b \in [1..Cardinality(C) -> [op : {k}, on : C]] :
        \A c \in C : \E i \in DOMAIN b : b[i].on = c}

\* Entries replayed when a socket to p opens.
Queued(p) == {c \in store : Dest[c] = p}

\* Mutant: entries that were replayed are not removed.
Replay_Keeps(p) ==
    /\ Runs([op |-> "replay", on |-> p])
    /\ IF Up(p)
       THEN /\ wire' = wire \cup [call : Queued(p), to : {p}]
            /\ ops' = Tail(ops)
       ELSE /\ \E b \in Batches("requeue", Queued(p)) : ops' = Tail(ops) \o b
            /\ UNCHANGED wire
    /\ UNCHANGED <<callVars, lineVars, db, store, orphaned, reloads>>

\* Mutant: an entry is removed whether or not its replay was sent.
Replay_AlwaysRemoves(p) ==
    /\ Runs([op |-> "replay", on |-> p])
    /\ wire' = IF Up(p) THEN wire \cup [call : Queued(p), to : {p}] ELSE wire
    /\ \E b \in Batches("remove", Queued(p)) : ops' = Tail(ops) \o b
    /\ UNCHANGED <<callVars, lineVars, db, store, orphaned, reloads>>

\* getAll() of replayQueuedRPCs(p) returns: every entry for p goes through
\* send() in one turn.  With an open socket each is written and its removal
\* started; without one each is queued once more.
Replay(p) ==
    /\ Runs([op |-> "replay", on |-> p])
    /\ IF Up(p)
       THEN /\ wire' = wire \cup [call : Queued(p), to : {p}]
            /\ \E b \in Batches("remove", Queued(p)) : ops' = Tail(ops) \o b
       ELSE /\ \E b \in Batches("requeue", Queued(p)) : ops' = Tail(ops) \o b
            /\ UNCHANGED wire
    /\ UNCHANGED <<callVars, lineVars, db, store, orphaned, reloads>>

\* getAll() fails: nothing is replayed until the next open.
ReplayFails(p) ==
    /\ Runs([op |-> "replay", on |-> p])
    /\ ops' = Tail(ops)
    /\ orphaned' = orphaned \cup Queued(p)
    /\ UNCHANGED <<callVars, lineVars, db, store, wire, reloads>>

\* Another replay has removed the entry meanwhile: it is stored once more,
\* the send counts as done and the entry is removed again.
Requeued(c) == /\ Runs([op |-> "requeue", on |-> c])
               /\ c \notin store
               /\ store' = store \cup {c}
               /\ ops' = Append(Tail(ops), [op |-> "remove", on |-> c])
               /\ UNCHANGED <<callVars, lineVars, db, wire, orphaned, reloads>>

\* The entry is still there (add() does not overwrite) or the store fails:
\* the error is swallowed and the entry is not removed.
RequeueRefused(c) == /\ Runs([op |-> "requeue", on |-> c])
                     /\ ops' = Tail(ops)
                     /\ UNCHANGED <<callVars, lineVars, db, store, wire,
                                    orphaned, reloads>>

Removed(c) == /\ Runs([op |-> "remove", on |-> c])
              /\ store' = store \ {c}
              /\ ops' = Tail(ops)
              /\ UNCHANGED <<callVars, lineVars, db, wire, orphaned, reloads>>

\* delete() fails: nobody looks at the promise of remove().
RemoveFails(c) == /\ Runs([op |-> "remove", on |-> c])
                  /\ ops' = Tail(ops)
                  /\ orphaned' = orphaned \cup {c}
                  /\ UNCHANGED <<callVars, lineVars, db, store, wire, reloads>>

-----------------------------------------------------------------------------
(* Sockets *)

\* connectToPeer(), once connect() is done.
Dial(l) == /\ line[l] = "unused"
           /\ db # "unset"
           /\ line' = [line EXCEPT ![l] = "connecting"]
           /\ UNCHANGED <<callVars, entry, attempts, storeVars, wire, orphaned,
                          reloads>>

\* Mutant: onopen registers the socket and does not replay.
Open_NoReplay(l) ==
    /\ line[l] = "connecting"
    /\ Len(ops) < MaxOps
    /\ line' = [line EXCEPT ![l] = "open"]
    /\ entry' = [entry EXCEPT ![To[l]] = l]
    /\ attempts' = 0
    /\ UNCHANGED <<callVars, storeVars, wire, orphaned, reloads>>

\* onopen: the socket takes the place of an earlier one to the same node and
\* the queue is read.  getAll() returns at once without a database.
Open(l) ==
    /\ line[l] = "connecting"
    /\ Len(ops) < MaxOps
    /\ line' = [line EXCEPT ![l] = "open"]
    /\ entry' = [entry EXCEPT ![To[l]] = l]
    /\ attempts' = 0
    /\ ops' = IF db = "open" THEN Append(ops, [op |-> "replay", on |-> To[l]])
                             ELSE ops
    /\ UNCHANGED <<callVars, db, store, wire, orphaned, reloads>>

\* The other side starts to close, or the network does.
Closing(l) == /\ line[l] = "open"
              /\ line' = [line EXCEPT ![l] = "closing"]
              /\ UNCHANGED <<callVars, entry, attempts, storeVars, wire,
                             orphaned, reloads>>

\* Mutant: the limit is compared with > instead of >=.
HandleReconnection_OffByOne(l) ==
    IF attempts > MaxAttempts
    THEN /\ line' = [line EXCEPT ![l] = "ended"]
         /\ UNCHANGED attempts
    ELSE /\ line' = [line EXCEPT ![l] = "waiting"]
         /\ attempts' = attempts + 1

\* handleReconnection(): a timer, or nothing more.
HandleReconnection(l) ==
    IF attempts >= MaxAttempts
    THEN /\ line' = [line EXCEPT ![l] = "ended"]
         /\ UNCHANGED attempts
    ELSE /\ line' = [line EXCEPT ![l] = "waiting"]
         /\ attempts' = attempts + 1

\* onclose, of a socket that was open or of an attempt that failed: peers[p]
\* goes, even when it names the socket of another line.
CloseEvent(l) ==
    /\ line[l] \in {"connecting", "open", "closing"}
    /\ entry' = [entry EXCEPT ![To[l]] = NoLine]
    /\ HandleReconnection(l)
    /\ UNCHANGED <<callVars, storeVars, wire, orphaned, reloads>>

\* The reconnection timer opens the next socket of the line.
Retry(l) == /\ line[l] = "waiting"
            /\ line' = [line EXCEPT ![l] = "connecting"]
            /\ UNCHANGED <<callVars, entry, attempts, storeVars, wire, orphaned,
                           reloads>>

\* disconnect(): the registered sockets are closed and forgotten; their close
\* events, the reconnections, the calls and the store are left to themselves.
Disconnect ==
    /\ \E p \in Peers : entry[p] # NoLine
    /\ line' = [l \in Lines |-> IF entry[To[l]] = l THEN "closing" ELSE line[l]]
    /\ entry' = [p \in Peers |-> NoLine]
    /\ UNCHANGED <<callVars, attempts, storeVars, wire, orphaned, reloads>>

-----------------------------------------------------------------------------
(* The page *)

\* connect(): the database is opened, or the environment has none.
Connect(d) == /\ db = "unset"
              /\ db' = d
              /\ UNCHANGED <<callVars, lineVars, ops, store, wire, orphaned,
                             reloads>>

\* The page is closed or reloaded: transactions that have not run are
\* dropped.  Nobody is left to see the promises that were open.
Reload ==
    /\ reloads < MaxReloads
    /\ reloads' = reloads + 1
    /\ promise' = [c \in Calls |-> IF promise[c] = "open" THEN "gone"
                                   ELSE promise[c]]
    /\ pending' = {}
    /\ timer' = {}
    /\ line' = [l \in Lines |-> "unused"]
    /\ entry' = [p \in Peers |-> NoLine]
    /\ attempts' = 0
    /\ db' = "unset"
    /\ ops' = <<>>
    /\ orphaned' = orphaned \cup {c \in Calls : Removing(c)}
    /\ UNCHANGED <<store, wire>>

-----------------------------------------------------------------------------
CallStep(c) == \/ CallSent(c) \/ CallQueued(c) \/ Timeout(c)
               \/ \E k \in AnswerKinds : Receive(c, k)

StoreStep == \/ \E c \in Calls : \/ Stored(c) \/ StoreRefused(c)
                                 \/ Requeued(c) \/ RequeueRefused(c)
                                 \/ Removed(c) \/ RemoveFails(c)
             \/ \E p \in Peers : Replay(p) \/ ReplayFails(p)

LineStep(l) == Dial(l) \/ Open(l) \/ Closing(l) \/ CloseEvent(l) \/ Retry(l)

Next == \/ \E c \in Calls : CallStep(c)
        \/ StoreStep
        \/ \E l \in Lines : LineStep(l)
        \/ \E d \in {"open", "none"} : Connect(d)
        \/ Disconnect
        \/ Reload

\* Timers fire, transactions run, and a socket that is opening or closing
\* comes to the end of it.  Nothing is assumed of the callers, of the remote
\* node, or of how long a connection lasts.
Fairness == /\ \A c \in Calls : WF_vars(Timeout(c))
            /\ WF_vars(StoreStep)
            /\ \A l \in Lines : /\ WF_vars(Retry(l))
                                /\ WF_vars(line[l] = "connecting"
                                           /\ (Open(l) \/ CloseEvent(l)))
                                /\ WF_vars(line[l] = "closing" /\ CloseEvent(l))

Safe == Init /\ [][Next]_vars

Spec == Safe /\ Fairness

-----------------------------------------------------------------------------
(* Properties *)

\* The variables take the values the code gives them.
TypeOK == /\ promise \in [Calls -> {"idle", "open", "resolved", "rejected", "gone"}]
          /\ pending \subseteq Calls
          /\ timer \subseteq Calls
          /\ line \in [Lines -> LineStates]
          /\ entry \in [Peers -> Lines \cup {NoLine}]
          /\ attempts \in 0..MaxAttempts
          /\ db \in {"unset", "none", "open"}
          /\ ops \in Seq(CallOps \cup PeerOps)
          /\ store \subseteq Calls
          /\ wire \subseteq Packets
          /\ orphaned \subseteq Calls
          /\ reloads \in 0..MaxReloads

\* The table, the timers and the promises agree, whichever of the answer, the
\* timer and the failing store comes first (WSTransport.ts:84-99, 152-163).
\* With ERROR_TYPED in AnswerKinds it does not hold: such an answer takes the
\* entry and the timer and leaves the promise open.
TableMatchesPromises == /\ pending = timer
                        /\ pending = {c \in Calls : promise[c] = "open"}

\* An entry that has been sent is on its way out of the store: a second copy
\* can only come from a replay that was already waiting, unless the removal
\* fails or the page goes away before it runs (WSTransport.ts:176-192).
SentIsBeingRemoved ==
    \A c \in store : Sent(c) => Removing(c) \/ c \in orphaned

\* The store and the sockets keep the promise of AtLeastOnceQueue: an entry
\* leaves the store only after it was sent to its own node, across replays
\* that overlap, sockets that close under them, failing transactions and
\* reloads of the page (WSTransport.ts:60-80 and 176-192,
\* OfflineStorageEngine.ts:43-80).
Queue == INSTANCE AtLeastOnceQueue
             WITH held <- store, sent <- {c \in Calls : Sent(c)}
ImplementsQueue == Queue!Spec

\* Every call settles or its page goes away, also when its request was
\* dropped for want of a database (WSTransport.ts:85-90 and 152-163,
\* OfflineStorageEngine.ts:44), unless its answer is of kind ERROR_TYPED.
EveryCallSettles == \A c \in Calls : promise[c] = "open" ~> promise[c] # "open"

\* An established connection goes down.
Drops == \/ \E l \in Lines : line[l] \in {"open", "closing"}
                             /\ line'[l] \notin {"open", "closing"}
         \/ \E l \in Lines : line[l] = "open" /\ line'[l] = "closing"

\* Nothing will open for node p again: a line to it has given up, or none was
\* ever started.
GivenUp(p) == \/ \E l \in Lines : To[l] = p /\ line[l] = "ended"
              \/ \A l \in Lines : To[l] = p => line[l] = "unused"

\* Once connections stay up, what is in the store is sent, unless the
\* transport gave up reconnecting, reading the store failed or there is no
\* database.  A page that is loaded again sends what an earlier one stored
\* (WSTransport.ts:123-129, 139-143, 194-206).
QueuedIsSent ==
    <>[][~Drops]_vars =>
        \A c \in Calls : c \in store ~> \/ Sent(c)
                                        \/ GivenUp(Dest[c])
                                        \/ db # "open"
                                        \/ c \in orphaned

=============================================================================
