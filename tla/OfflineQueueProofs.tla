------------------------- MODULE OfflineQueueProofs -------------------------
(***************************************************************************)
(* For any calls, nodes, lines, limits and number of page loads: the types *)
(* of OfflineQueue, that the table matches the promises, that a sent entry *)
(* is on its way out of the store, and that no step lets go of an entry    *)
(* that was not sent.                                                      *)
(***************************************************************************)
EXTENDS OfflineQueue, FiniteSetTheorems, SequenceTheorems, TLAPS

OpType == CallOps \cup PeerOps

\* The transactions of a sequence.
Elems(s) == {s[i] : i \in DOMAIN s}

-----------------------------------------------------------------------------
(* Lemmas about sequences of transactions *)

\* Append adds one transaction.
LEMMA ElemsAppend ==
    ASSUME NEW s \in Seq(OpType), NEW o \in OpType
    PROVE  /\ Append(s, o) \in Seq(OpType)
           /\ Elems(Append(s, o)) = Elems(s) \cup {o}
<1>1. /\ DOMAIN Append(s, o) = 1..(Len(s) + 1)
      /\ DOMAIN s = 1..Len(s)
      /\ Len(s) \in Nat
  OBVIOUS
<1>2. /\ \A i \in 1..Len(s) : Append(s, o)[i] = s[i]
      /\ Append(s, o)[Len(s) + 1] = o
  OBVIOUS
<1>3. 1..(Len(s) + 1) = 1..Len(s) \cup {Len(s) + 1}
  BY <1>1
<1> QED BY <1>1, <1>2, <1>3 DEF Elems

\* A sequence holds its head and what its tail holds.
LEMMA ElemsTail ==
    ASSUME NEW s \in Seq(OpType), s # <<>>
    PROVE  /\ Tail(s) \in Seq(OpType)
           /\ Elems(s) = {Head(s)} \cup Elems(Tail(s))
<1>1. /\ Tail(s) \in Seq(OpType)
      /\ Len(Tail(s)) = Len(s) - 1
      /\ \A i \in 1..Len(Tail(s)) : Tail(s)[i] = s[i + 1]
  BY HeadTailProperties
<1>2. Len(s) \in Nat \ {0} /\ DOMAIN s = 1..Len(s) /\ Head(s) = s[1]
  OBVIOUS
<1>3. DOMAIN Tail(s) = 1..(Len(s) - 1)
  BY <1>1
<1>4. Elems(s) \subseteq {Head(s)} \cup Elems(Tail(s))
  <2> SUFFICES ASSUME NEW i \in 1..Len(s), i # 1 PROVE s[i] \in Elems(Tail(s))
    BY <1>2 DEF Elems
  <2>1. i - 1 \in 1..(Len(s) - 1) /\ (i - 1) + 1 = i
    BY <1>2
  <2>2. Tail(s)[i - 1] = s[i]
    BY <1>1, <2>1
  <2> QED BY <1>3, <2>1, <2>2 DEF Elems
<1>5. {Head(s)} \cup Elems(Tail(s)) \subseteq Elems(s)
  <2> SUFFICES ASSUME NEW i \in 1..(Len(s) - 1) PROVE Tail(s)[i] \in Elems(s)
    BY <1>2, <1>3 DEF Elems
  <2> QED BY <1>1, <1>2 DEF Elems
<1> QED BY <1>1, <1>4, <1>5

\* A concatenation holds what its parts hold.
LEMMA ElemsConcat ==
    ASSUME NEW s \in Seq(OpType), NEW t \in Seq(OpType)
    PROVE  /\ s \o t \in Seq(OpType)
           /\ Elems(s \o t) = Elems(s) \cup Elems(t)
<1>1. /\ s \o t \in Seq(OpType)
      /\ Len(s \o t) = Len(s) + Len(t)
      /\ \A i \in 1..(Len(s) + Len(t)) :
             (s \o t)[i] = IF i <= Len(s) THEN s[i] ELSE t[i - Len(s)]
  BY ConcatProperties
<1>2. /\ Len(s) \in Nat /\ DOMAIN s = 1..Len(s)
      /\ Len(t) \in Nat /\ DOMAIN t = 1..Len(t)
      /\ DOMAIN (s \o t) = 1..(Len(s) + Len(t))
  BY <1>1
<1>3. Elems(s \o t) \subseteq Elems(s) \cup Elems(t)
  <2> SUFFICES ASSUME NEW i \in 1..(Len(s) + Len(t))
               PROVE  (s \o t)[i] \in Elems(s) \cup Elems(t)
    BY <1>2 DEF Elems
  <2>1. CASE i <= Len(s)
    BY <1>1, <1>2, <2>1 DEF Elems
  <2>2. CASE i > Len(s)
    <3>1. i - Len(s) \in 1..Len(t)
      BY <1>2, <2>2
    <3> QED BY <1>1, <1>2, <2>2, <3>1 DEF Elems
  <2> QED BY <1>2, <2>1, <2>2
<1>4. Elems(s) \subseteq Elems(s \o t)
  <2> SUFFICES ASSUME NEW i \in 1..Len(s) PROVE s[i] \in Elems(s \o t)
    BY <1>2 DEF Elems
  <2> QED BY <1>1, <1>2 DEF Elems
<1>5. Elems(t) \subseteq Elems(s \o t)
  <2> SUFFICES ASSUME NEW i \in 1..Len(t) PROVE t[i] \in Elems(s \o t)
    BY <1>2 DEF Elems
  <2>1. /\ Len(s) + i \in 1..(Len(s) + Len(t))
        /\ ~(Len(s) + i <= Len(s))
        /\ (Len(s) + i) - Len(s) = i
    BY <1>2
  <2>2. (s \o t)[Len(s) + i] = t[i]
    BY <1>1, <2>1
  <2> QED BY <1>2, <2>1, <2>2 DEF Elems
<1> QED BY <1>1, <1>3, <1>4, <1>5

\* A batch holds one transaction for each call and no other.
LEMMA BatchElems ==
    ASSUME NEW C \in SUBSET Calls, NEW k \in {"requeue", "remove"},
           NEW b \in Batches(k, C)
    PROVE  b \in Seq(OpType) /\ Elems(b) = [op : {k}, on : C]
<1>1. Cardinality(C) \in Nat
  BY OfflineAssumption, FS_Subset, FS_CardinalityType
<1>2. b \in [1..Cardinality(C) -> [op : {k}, on : C]]
  BY DEF Batches
<1>3. b \in Seq([op : {k}, on : C])
  <2> DEFINE S == [op : {k}, on : C]
             n == Cardinality(C)
  <2>1. n \in Nat /\ b \in [1..n -> S]
    BY <1>1, <1>2
  <2> HIDE DEF S, n
  <2>2. b \in Seq(S)
    BY <2>1
  <2> QED BY <2>2 DEF S
<1>4. b \in Seq(OpType)
  <2>1. [op : {k}, on : C] \subseteq OpType
    BY DEF OpType, CallOps
  <2> QED BY <1>3, <2>1, SeqMonotonic
<1>5. Elems(b) \subseteq [op : {k}, on : C]
  BY <1>2 DEF Elems
<1>6. [op : {k}, on : C] \subseteq Elems(b)
  <2> SUFFICES ASSUME NEW o \in [op : {k}, on : C] PROVE o \in Elems(b)
    OBVIOUS
  <2>1. PICK i \in DOMAIN b : b[i].on = o.on
    BY DEF Batches
  <2>2. b[i] \in [op : {k}, on : C]
    BY <1>2, <2>1
  <2>3. b[i] = o
    BY <2>1, <2>2
  <2> QED BY <2>1, <2>3 DEF Elems
<1> QED BY <1>4, <1>5, <1>6

-----------------------------------------------------------------------------
(* The variables keep their types. *)

\* Every step keeps ops a sequence of transactions: what one of the actions
\* that touch it does to its elements.
LEMMA OpsType == TypeOK /\ [Next]_vars => ops' \in Seq(OpType)
<1> SUFFICES ASSUME TypeOK, [Next]_vars PROVE ops' \in Seq(OpType)
  OBVIOUS
<1>1. ops \in Seq(OpType)
  BY DEF TypeOK, OpType
<1>2. ASSUME ops # <<>>, ops' = Tail(ops) PROVE ops' \in Seq(OpType)
  BY <1>1, <1>2, ElemsTail
<1>3. ASSUME NEW o \in OpType, ops' = Append(ops, o) PROVE ops' \in Seq(OpType)
  BY <1>1, <1>3, ElemsAppend
<1>4. ASSUME UNCHANGED ops PROVE ops' \in Seq(OpType)
  BY <1>1, <1>4
<1>5. ASSUME NEW c \in Calls, CallStep(c) PROVE ops' \in Seq(OpType)
  <2>1. CASE CallQueued(c)
    <3>1. [op |-> "queue", on |-> c] \in OpType
      BY DEF OpType, CallOps
    <3> QED BY <1>3, <1>4, <2>1, <3>1 DEF CallQueued
  <2> QED BY <1>4, <1>5, <2>1 DEF CallStep, CallSent, Timeout, Receive, storeVars
<1>6. ASSUME NEW c \in Calls, Stored(c) \/ StoreRefused(c) \/ RequeueRefused(c)
                              \/ Removed(c) \/ RemoveFails(c)
      PROVE  ops' \in Seq(OpType)
  BY <1>2, <1>6 DEF Stored, StoreRefused, RequeueRefused, Removed, RemoveFails, Runs
<1>7. ASSUME NEW c \in Calls, Requeued(c) PROVE ops' \in Seq(OpType)
  <2>1. Tail(ops) \in Seq(OpType)
    BY <1>1, <1>7, ElemsTail DEF Requeued, Runs
  <2>2. [op |-> "remove", on |-> c] \in OpType
    BY DEF OpType, CallOps
  <2> QED BY <1>7, <2>1, <2>2, ElemsAppend DEF Requeued
<1>8. ASSUME NEW p \in Peers, Replay(p) PROVE ops' \in Seq(OpType)
  <2>1. Tail(ops) \in Seq(OpType)
    BY <1>1, <1>8, ElemsTail DEF Replay, Runs
  <2>2. Queued(p) \in SUBSET Calls
    BY DEF Queued, TypeOK
  <2>3. PICK k \in {"requeue", "remove"} :
            \E b \in Batches(k, Queued(p)) : ops' = Tail(ops) \o b
    BY <1>8 DEF Replay
  <2> QED BY <2>1, <2>2, <2>3, BatchElems, ElemsConcat
<1>9. ASSUME NEW p \in Peers, ReplayFails(p) PROVE ops' \in Seq(OpType)
  BY <1>2, <1>9 DEF ReplayFails, Runs
<1>10. ASSUME NEW l \in Lines, LineStep(l) PROVE ops' \in Seq(OpType)
  <2>1. CASE Open(l)
    <3>1. [op |-> "replay", on |-> To[l]] \in OpType
      BY OfflineAssumption DEF OpType, PeerOps
    <3> QED BY <1>3, <1>4, <2>1, <3>1 DEF Open
  <2> QED BY <1>4, <1>10, <2>1 DEF LineStep, Dial, Closing, CloseEvent, Retry, storeVars
<1>11. ASSUME NEW d \in {"open", "none"}, Connect(d) PROVE ops' \in Seq(OpType)
  BY <1>4, <1>11 DEF Connect
<1>12. ASSUME Disconnect PROVE ops' \in Seq(OpType)
  BY <1>4, <1>12 DEF Disconnect, storeVars
<1>13. ASSUME Reload PROVE ops' \in Seq(OpType)
  BY <1>13 DEF Reload
<1>14. ASSUME UNCHANGED vars PROVE ops' \in Seq(OpType)
  BY <1>4, <1>14 DEF vars
<1> QED BY <1>5, <1>6, <1>7, <1>8, <1>9, <1>10, <1>11, <1>12, <1>13, <1>14
        DEF Next, StoreStep

\* The variables keep their types: no step stores a value the code does not,
\* and reconnectAttempts stays within its limit.
THEOREM TypeCorrect == Spec => []TypeOK
<1>1. Init => TypeOK
  BY OfflineAssumption DEF Init, TypeOK, LineStates, NoLine
<1>2. TypeOK /\ [Next]_vars => TypeOK'
  <2> SUFFICES ASSUME TypeOK, [Next]_vars PROVE TypeOK'
    OBVIOUS
  <2>1. ops' \in Seq(CallOps \cup PeerOps)
    BY OpsType DEF OpType
  <2> HIDE DEF OpType
  <2> USE OfflineAssumption, <2>1 DEF TypeOK, LineStates, Packets
  <2>2. ASSUME NEW c \in Calls, CallSent(c) \/ CallQueued(c) PROVE TypeOK'
    <3>1. /\ promise' \in [Calls -> {"idle", "open", "resolved", "rejected", "gone"}]
          /\ pending' \subseteq Calls /\ timer' \subseteq Calls
      BY <2>2 DEF CallSent, CallQueued, Register
    <3>2. wire' \subseteq [call : Calls, to : Peers]
      BY <2>2 DEF CallSent, CallQueued
    <3>3. UNCHANGED <<lineVars, db, store, orphaned, reloads>>
      BY <2>2 DEF CallSent, CallQueued, storeVars
    <3> QED BY <3>1, <3>2, <3>3 DEF lineVars
  <2>3. ASSUME NEW c \in Calls, Timeout(c) \/ StoreRefused(c) PROVE TypeOK'
    BY <2>3 DEF Timeout, StoreRefused, Reject, lineVars, storeVars
  <2>4. ASSUME NEW c \in Calls, NEW k \in AnswerKinds, Receive(c, k)
        PROVE TypeOK'
    <3>1. Outcome(k, promise[c]) \in {"resolved", "rejected", promise[c]}
      BY <2>4, OfflineAssumption DEF Outcome, AllKinds
    <3> QED BY <2>4, <3>1 DEF Receive, lineVars, storeVars
  <2>5. ASSUME NEW c \in Calls, Stored(c) \/ Requeued(c) \/ RequeueRefused(c)
                                \/ Removed(c) \/ RemoveFails(c)
        PROVE TypeOK'
    BY <2>5 DEF Stored, Requeued, RequeueRefused, Removed, RemoveFails, callVars,
                lineVars
  <2>6. ASSUME NEW p \in Peers, Replay(p) \/ ReplayFails(p) PROVE TypeOK'
    <3>1. Queued(p) \subseteq Calls
      BY DEF Queued
    <3>2. wire' \subseteq [call : Calls, to : Peers]
      BY <2>6, <3>1 DEF Replay, ReplayFails
    <3>3. orphaned' \subseteq Calls
      BY <2>6, <3>1 DEF Replay, ReplayFails
    <3> QED BY <2>6, <3>2, <3>3 DEF Replay, ReplayFails, callVars, lineVars
  <2>7. ASSUME NEW l \in Lines, Dial(l) \/ Open(l) \/ Closing(l) \/ Retry(l)
        PROVE TypeOK'
    BY <2>7 DEF Dial, Open, Closing, Retry, callVars, storeVars
  <2>8. ASSUME NEW l \in Lines, CloseEvent(l) PROVE TypeOK'
    BY <2>8 DEF CloseEvent, HandleReconnection, callVars, storeVars
  <2>9. ASSUME Disconnect PROVE TypeOK'
    BY <2>9 DEF Disconnect, callVars, storeVars
  <2>10. ASSUME NEW d \in {"open", "none"}, Connect(d) PROVE TypeOK'
    BY <2>10 DEF Connect, callVars, lineVars
  <2>11. ASSUME Reload PROVE TypeOK'
    BY <2>11 DEF Reload
  <2>12. ASSUME UNCHANGED vars PROVE TypeOK'
    BY <2>12 DEF vars
  <2> QED BY <2>2, <2>3, <2>4, <2>5, <2>6, <2>7, <2>8, <2>9, <2>10, <2>11, <2>12
          DEF Next, CallStep, StoreStep, LineStep
<1> QED BY <1>1, <1>2, PTL DEF Spec, Safe

-----------------------------------------------------------------------------
(* The pending table, the armed timers and the open promises are the same    *)
(* set of calls (WSTransport.ts:84-99 and 152-163), as long as no node       *)
(* answers with a RESPONSE_ERROR that has no data: such an answer breaks it. *)
THEOREM TableCorrect ==
    ASSUME "ERROR_TYPED" \notin AnswerKinds
    PROVE  Spec => []TableMatchesPromises
<1>1. Init => TableMatchesPromises
  BY DEF Init, TableMatchesPromises
<1>2. TypeOK /\ TableMatchesPromises /\ [Next]_vars => TableMatchesPromises'
  <2> SUFFICES ASSUME TypeOK, TableMatchesPromises, [Next]_vars
               PROVE  TableMatchesPromises'
    OBVIOUS
  <2> USE DEF TypeOK, TableMatchesPromises
  <2>1. ASSUME UNCHANGED callVars PROVE TableMatchesPromises'
    BY <2>1 DEF callVars
  <2>2. ASSUME NEW c \in Calls, CallSent(c) \/ CallQueued(c)
        PROVE  TableMatchesPromises'
    <3>1. Register(c)
      BY <2>2 DEF CallSent, CallQueued
    <3>2. \A d \in Calls : promise'[d] = "open" <=> d \in pending \cup {c}
      BY <3>1 DEF Register
    <3> QED BY <3>1, <3>2 DEF Register
  <2>3. ASSUME NEW c \in Calls, Timeout(c) \/ StoreRefused(c)
        PROVE  TableMatchesPromises'
    <3>1. Reject(c)
      BY <2>3 DEF Timeout, StoreRefused
    <3>2. \A d \in Calls : promise'[d] = "open" <=> d \in pending \ {c}
      BY <3>1 DEF Reject
    <3> QED BY <3>1, <3>2 DEF Reject
  <2>4. ASSUME NEW c \in Calls, NEW k \in AnswerKinds, Receive(c, k)
        PROVE  TableMatchesPromises'
    <3>1. Outcome(k, promise[c]) \in {"resolved", "rejected"}
      BY OfflineAssumption DEF Outcome, AllKinds
    <3>2. \A d \in Calls : promise'[d] = "open" <=> d \in pending \ {c}
      BY <2>4, <3>1 DEF Receive
    <3> QED BY <2>4, <3>2 DEF Receive
  <2>5. ASSUME StoreStep PROVE TableMatchesPromises'
    BY <2>1, <2>3, <2>5 DEF StoreStep, Stored, Requeued, RequeueRefused, Removed,
                            RemoveFails, Replay, ReplayFails
  <2>6. ASSUME NEW l \in Lines, LineStep(l) PROVE TableMatchesPromises'
    BY <2>1, <2>6 DEF LineStep, Dial, Open, Closing, CloseEvent, Retry
  <2>7. ASSUME NEW d \in {"open", "none"}, Connect(d) \/ Disconnect
        PROVE  TableMatchesPromises'
    BY <2>1, <2>7 DEF Connect, Disconnect
  <2>8. ASSUME Reload PROVE TableMatchesPromises'
    BY <2>8 DEF Reload
  <2>9. ASSUME UNCHANGED vars PROVE TableMatchesPromises'
    BY <2>1, <2>9 DEF vars, callVars
  <2> QED BY <2>2, <2>3, <2>4, <2>5, <2>6, <2>7, <2>8, <2>9 DEF Next, CallStep
<1> QED BY <1>1, <1>2, TypeCorrect, PTL DEF Spec, Safe

-----------------------------------------------------------------------------
(* The store *)

Enqueued(k, c) == [op |-> k, on |-> c] \in Elems(ops)

\* Removing is a matter of the transactions that wait.
LEMMA RemovingEnqueued == \A c : Removing(c) <=> Enqueued("remove", c)
  BY DEF Removing, Enqueued, Elems

\* No two transactions of s add the same call.
Distinct(s) == \A i, j \in DOMAIN s : s[i].op = "queue" /\ s[i] = s[j] => i = j

\* What the transactions that wait say of the store and the wire: an entry is
\* removed or queued again on behalf of a request that was sent, or is still
\* there; a request that waits to be stored for the first time has not been
\* sent; and a call not made yet has left no trace.
Traces == \A c \in Calls :
    /\ Enqueued("remove", c) => Sent(c)
    /\ Enqueued("requeue", c) => c \in store \/ Sent(c)
    /\ Enqueued("queue", c) => c \notin store /\ ~Sent(c)
    /\ promise[c] = "idle" => c \notin store /\ ~Sent(c) /\ ~Enqueued("queue", c)

\* SentIsBeingRemoved, in terms of Enqueued.
OnTheWayOut == \A c \in store : Sent(c) => Enqueued("remove", c) \/ c \in orphaned

QueueInv == Traces /\ Distinct(ops) /\ OnTheWayOut

\* A transaction that is not there yet, or adds nothing, may be appended.
LEMMA DistinctAppend ==
    ASSUME NEW s \in Seq(OpType), Distinct(s), NEW o \in OpType,
           o.op = "queue" => o \notin Elems(s)
    PROVE  Distinct(Append(s, o))
<1>1. /\ DOMAIN Append(s, o) = 1..(Len(s) + 1)
      /\ DOMAIN s = 1..Len(s)
      /\ Len(s) \in Nat
  OBVIOUS
<1>2. /\ \A i \in 1..Len(s) : Append(s, o)[i] = s[i]
      /\ Append(s, o)[Len(s) + 1] = o
  OBVIOUS
<1>3. \A i \in 1..(Len(s) + 1) : i \in 1..Len(s) \/ i = Len(s) + 1
  BY <1>1
<1>4. \A i \in 1..Len(s) : s[i] \in Elems(s)
  BY <1>1 DEF Elems
<1> QED BY <1>1, <1>2, <1>3, <1>4 DEF Distinct

\* The transaction that runs has no twin behind it.
LEMMA DistinctTail ==
    ASSUME NEW s \in Seq(OpType), Distinct(s), s # <<>>
    PROVE  /\ Distinct(Tail(s))
           /\ Head(s).op = "queue" => Head(s) \notin Elems(Tail(s))
<1>1. /\ Len(Tail(s)) = Len(s) - 1
      /\ \A i \in 1..Len(Tail(s)) : Tail(s)[i] = s[i + 1]
  BY HeadTailProperties
<1>2. Len(s) \in Nat \ {0} /\ DOMAIN s = 1..Len(s) /\ Head(s) = s[1]
  OBVIOUS
<1>3. DOMAIN Tail(s) = 1..(Len(s) - 1)
  BY <1>1
<1>4. \A i \in 1..(Len(s) - 1) : i + 1 \in 1..Len(s) /\ i + 1 # 1 /\ Tail(s)[i] = s[i + 1]
  BY <1>1, <1>2
<1>5. Distinct(Tail(s))
  <2> SUFFICES ASSUME NEW i \in 1..(Len(s) - 1), NEW j \in 1..(Len(s) - 1),
                      Tail(s)[i].op = "queue", Tail(s)[i] = Tail(s)[j]
               PROVE  i = j
    BY <1>3 DEF Distinct
  <2>1. i + 1 = j + 1
    BY <1>2, <1>4 DEF Distinct
  <2> QED BY <2>1
<1>6. ASSUME Head(s).op = "queue", Head(s) \in Elems(Tail(s)) PROVE FALSE
  <2>1. PICK i \in 1..(Len(s) - 1) : Tail(s)[i] = Head(s)
    BY <1>3, <1>6 DEF Elems
  <2>2. s[i + 1] = s[1] /\ s[1].op = "queue"
    BY <1>2, <1>4, <1>6, <2>1
  <2>3. 1 \in 1..Len(s) /\ i + 1 \in 1..Len(s)
    BY <1>2, <1>4
  <2>4. 1 = i + 1
    BY <1>2, <2>2, <2>3 DEF Distinct
  <2> QED BY <2>4
<1> QED BY <1>5, <1>6

\* A batch that adds no call keeps the sequence free of twins.
LEMMA DistinctConcat ==
    ASSUME NEW s \in Seq(OpType), Distinct(s), NEW t \in Seq(OpType),
           \A o \in Elems(t) : o.op # "queue"
    PROVE  Distinct(s \o t)
<1>1. /\ s \o t \in Seq(OpType)
      /\ Len(s \o t) = Len(s) + Len(t)
      /\ \A i \in 1..(Len(s) + Len(t)) :
             (s \o t)[i] = IF i <= Len(s) THEN s[i] ELSE t[i - Len(s)]
  BY ConcatProperties
<1>2. /\ Len(s) \in Nat /\ DOMAIN s = 1..Len(s)
      /\ Len(t) \in Nat /\ DOMAIN t = 1..Len(t)
      /\ DOMAIN (s \o t) = 1..(Len(s) + Len(t))
  BY <1>1
<1>3. \A i \in 1..(Len(s) + Len(t)) :
          (s \o t)[i].op = "queue" => i \in 1..Len(s) /\ (s \o t)[i] = s[i]
  <2> SUFFICES ASSUME NEW i \in 1..(Len(s) + Len(t)), (s \o t)[i].op = "queue"
               PROVE  i \in 1..Len(s) /\ (s \o t)[i] = s[i]
    OBVIOUS
  <2>1. CASE i > Len(s)
    <3>1. i - Len(s) \in 1..Len(t)
      BY <1>2, <2>1
    <3>2. (s \o t)[i] = t[i - Len(s)]
      BY <1>1, <1>2, <2>1
    <3> QED BY <1>2, <3>1, <3>2 DEF Elems
  <2> QED BY <1>1, <1>2, <2>1
<1> QED BY <1>2, <1>3 DEF Distinct

-----------------------------------------------------------------------------
(* What the steps of the store do to the transactions that wait *)

\* The head transaction goes, no other.
LEMMA Popped ==
    ASSUME TypeOK, Distinct(ops), NEW o, Runs(o), ops' = Tail(ops)
    PROVE  /\ Elems(ops) = {o} \cup Elems(ops)'
           /\ Distinct(ops)'
           /\ o.op = "queue" => o \notin Elems(ops)'
<1>1. ops \in Seq(OpType) /\ ops # <<>> /\ Head(ops) = o
  BY DEF TypeOK, OpType, Runs
<1> QED BY <1>1, ElemsTail, DistinctTail

\* The head transaction goes and a batch takes its place at the end.
LEMMA PoppedBatch ==
    ASSUME TypeOK, Distinct(ops), NEW o, Runs(o), NEW C \in SUBSET Calls,
           NEW k \in {"requeue", "remove"}, NEW b \in Batches(k, C),
           ops' = Tail(ops) \o b
    PROVE  /\ {o} \cup Elems(ops)' = Elems(ops) \cup {o} \cup [op : {k}, on : C]
           /\ [op : {k}, on : C] \subseteq Elems(ops)'
           /\ Distinct(ops)'
<1>1. ops \in Seq(OpType) /\ ops # <<>> /\ Head(ops) = o
  BY DEF TypeOK, OpType, Runs
<1>2. /\ Tail(ops) \in Seq(OpType)
      /\ Elems(ops) = {o} \cup Elems(Tail(ops))
      /\ Distinct(Tail(ops))
  BY <1>1, ElemsTail, DistinctTail
<1>3. b \in Seq(OpType) /\ Elems(b) = [op : {k}, on : C]
  BY BatchElems
<1>4. \A x \in Elems(b) : x.op # "queue"
  BY <1>3
<1>5. Elems(ops)' = Elems(Tail(ops)) \cup [op : {k}, on : C]
  BY <1>2, <1>3, ElemsConcat
<1>6. Distinct(ops)'
  BY <1>2, <1>3, <1>4, DistinctConcat
<1> QED BY <1>2, <1>5, <1>6

\* A transaction is started.
LEMMA Pushed ==
    ASSUME TypeOK, Distinct(ops), NEW o \in OpType, ops' = Append(ops, o),
           o.op = "queue" => o \notin Elems(ops)
    PROVE  Elems(ops)' = Elems(ops) \cup {o} /\ Distinct(ops)'
<1>1. ops \in Seq(OpType)
  BY DEF TypeOK, OpType
<1> QED BY <1>1, ElemsAppend, DistinctAppend

\* A step that writes nothing, stores nothing, makes no call and starts no
\* transaction of a call, and lets go of a removal only with a record of it.
LEMMA QueueFrame ==
    ASSUME QueueInv, Distinct(ops)', UNCHANGED <<store, wire>>,
           \A c \in Calls : promise'[c] = "idle" => promise[c] = "idle",
           orphaned \subseteq orphaned',
           \A c \in Calls : \A k \in {"queue", "requeue", "remove"} :
               Enqueued(k, c)' => Enqueued(k, c),
           \A c \in Calls : Enqueued("remove", c)
                            => Enqueued("remove", c)' \/ c \in orphaned',
           TypeOK
    PROVE  QueueInv'
<1>1. \A c : Sent(c)' <=> Sent(c)
  BY DEF Sent
<1>2. Traces'
  BY <1>1 DEF QueueInv, Traces
<1>3. OnTheWayOut'
  BY <1>1 DEF QueueInv, OnTheWayOut, TypeOK
<1> QED BY <1>2, <1>3 DEF QueueInv

\* The step of each action keeps QueueInv.
LEMMA QueueStep == TypeOK /\ QueueInv /\ [Next]_vars => QueueInv'
<1> SUFFICES ASSUME TypeOK, QueueInv, [Next]_vars PROVE QueueInv'
  OBVIOUS
<1>0. /\ Distinct(ops) /\ Traces /\ OnTheWayOut
      /\ \A c : Sent(c)' <=> [call |-> c, to |-> Dest[c]] \in wire'
  BY DEF QueueInv, Sent
<1>1. ASSUME UNCHANGED <<ops, store, wire, orphaned>>,
             \A c \in Calls : promise'[c] = "idle" => promise[c] = "idle"
      PROVE  QueueInv'
  BY <1>0, <1>1, QueueFrame DEF Enqueued
<1>2. ASSUME NEW c \in Calls, CallSent(c) PROVE QueueInv'
  <2>1. /\ UNCHANGED <<ops, store, orphaned>>
        /\ wire' = wire \cup {[call |-> c, to |-> Dest[c]]}
        /\ promise' = [promise EXCEPT ![c] = "open"]
    BY <1>2 DEF CallSent, Register, storeVars
  <2>2. \A d \in Calls : Sent(d)' <=> Sent(d) \/ d = c
    BY <2>1 DEF Sent
  <2>3. c \notin store /\ ~Enqueued("queue", c)
    BY <1>0, <1>2 DEF CallSent, Traces
  <2> QED BY <1>0, <2>1, <2>2, <2>3 DEF QueueInv, Traces, OnTheWayOut, Enqueued, TypeOK
<1>3. ASSUME NEW c \in Calls, CallQueued(c) PROVE QueueInv'
  <2>1. /\ UNCHANGED <<store, wire, orphaned>>
        /\ promise' = [promise EXCEPT ![c] = "open"]
    BY <1>3 DEF CallQueued, Register
  <2>2. c \notin store /\ ~Sent(c) /\ ~Enqueued("queue", c)
    BY <1>0, <1>3 DEF CallQueued, Traces
  <2>3. CASE UNCHANGED ops
    BY <1>1, <2>1, <2>3 DEF TypeOK
  <2>4. CASE ops' = Append(ops, [op |-> "queue", on |-> c])
    <3>1. [op |-> "queue", on |-> c] \in OpType
      BY DEF OpType, CallOps
    <3>2. Elems(ops)' = Elems(ops) \cup {[op |-> "queue", on |-> c]} /\ Distinct(ops)'
      BY <1>0, <2>2, <2>4, <3>1, Pushed DEF Enqueued
    <3>3. \A d \in Calls : /\ Enqueued("remove", d)' <=> Enqueued("remove", d)
                           /\ Enqueued("requeue", d)' <=> Enqueued("requeue", d)
                           /\ Enqueued("queue", d)' <=> Enqueued("queue", d) \/ d = c
      BY <3>2 DEF Enqueued
    <3>4. \A d \in Calls : Sent(d)' <=> Sent(d)
      BY <2>1 DEF Sent
    <3> QED BY <1>0, <2>1, <2>2, <3>2, <3>3, <3>4
            DEF QueueInv, Traces, OnTheWayOut, TypeOK
  <2> QED BY <1>3, <2>3, <2>4 DEF CallQueued
<1>4. ASSUME NEW c \in Calls, Timeout(c) PROVE QueueInv'
  BY <1>1, <1>4 DEF Timeout, Reject, storeVars, TypeOK
<1>5. ASSUME NEW c \in Calls, NEW k \in AnswerKinds, Receive(c, k)
      PROVE  QueueInv'
  <2>1. Outcome(k, promise[c]) \in {"resolved", "rejected", promise[c]}
    BY OfflineAssumption DEF Outcome, AllKinds
  <2> QED BY <1>1, <1>5, <2>1 DEF Receive, storeVars, TypeOK
<1>6. ASSUME NEW c \in Calls, Stored(c) PROVE QueueInv'
  <2> DEFINE o == [op |-> "queue", on |-> c]
  <2>1. /\ Elems(ops) = {o} \cup Elems(ops)'
        /\ Distinct(ops)'
        /\ o \notin Elems(ops)'
    BY <1>0, <1>6, Popped DEF Stored
  <2>2. \A d \in Calls : /\ Enqueued("remove", d)' <=> Enqueued("remove", d)
                         /\ Enqueued("requeue", d)' <=> Enqueued("requeue", d)
                         /\ Enqueued("queue", d)' <=> Enqueued("queue", d) /\ d # c
    BY <2>1 DEF Enqueued
  <2>3. Enqueued("queue", c)
    BY <2>1 DEF Enqueued
  <2>4. store' = store \cup {c} /\ UNCHANGED <<promise, wire, orphaned>>
    BY <1>6 DEF Stored, callVars
  <2>5. \A d \in Calls : Sent(d)' <=> Sent(d)
    BY <2>4 DEF Sent
  <2> QED BY <1>0, <2>1, <2>2, <2>3, <2>4, <2>5
          DEF QueueInv, Traces, OnTheWayOut, TypeOK
<1>7. ASSUME NEW c \in Calls, StoreRefused(c) \/ RequeueRefused(c)
      PROVE  QueueInv'
  <2>0. PICK k \in {"queue", "requeue"} : Runs([op |-> k, on |-> c])
    BY <1>7 DEF StoreRefused, RequeueRefused
  <2> DEFINE o == [op |-> k, on |-> c]
  <2>1. Elems(ops) = {o} \cup Elems(ops)' /\ Distinct(ops)'
    BY <1>0, <1>7, <2>0, Popped DEF StoreRefused, RequeueRefused
  <2>2. \A d \in Calls : /\ Enqueued("remove", d)' <=> Enqueued("remove", d)
                         /\ Enqueued("requeue", d)' => Enqueued("requeue", d)
                         /\ Enqueued("queue", d)' => Enqueued("queue", d)
    BY <2>1 DEF Enqueued
  <2>3. /\ UNCHANGED <<store, wire, orphaned>>
        /\ \A d \in Calls : promise'[d] = "idle" => promise[d] = "idle"
    BY <1>7 DEF StoreRefused, RequeueRefused, Reject, callVars, TypeOK
  <2> QED BY <2>1, <2>2, <2>3, QueueFrame
<1>8. ASSUME NEW c \in Calls, Requeued(c) PROVE QueueInv'
  <2> DEFINE o == [op |-> "requeue", on |-> c]
             r == [op |-> "remove", on |-> c]
             t == Tail(ops)
  <2>1. ops \in Seq(OpType) /\ ops # <<>> /\ Head(ops) = o
    BY <1>8 DEF TypeOK, OpType, Requeued, Runs
  <2>2. /\ t \in Seq(OpType)
        /\ Elems(ops) = {o} \cup Elems(t)
        /\ Distinct(t)
    BY <1>0, <2>1, ElemsTail, DistinctTail
  <2>3. r \in OpType
    BY DEF OpType, CallOps
  <2>4. ops' = Append(t, r) /\ store' = store \cup {c} /\ c \notin store
        /\ UNCHANGED <<promise, wire, orphaned>>
    BY <1>8 DEF Requeued, callVars
  <2>5. Elems(ops)' = Elems(t) \cup {r} /\ Distinct(ops)'
    BY <2>2, <2>3, <2>4, ElemsAppend, DistinctAppend
  <2>6. Sent(c) /\ ~Enqueued("queue", c)
    BY <1>0, <2>2, <2>4 DEF Traces, Enqueued
  <2>7. \A d \in Calls : /\ Enqueued("remove", d)' <=> Enqueued("remove", d) \/ d = c
                         /\ Enqueued("requeue", d)' => Enqueued("requeue", d)
                         /\ Enqueued("queue", d)' <=> Enqueued("queue", d)
    BY <2>2, <2>5 DEF Enqueued
  <2>8. \A d \in Calls : Sent(d)' <=> Sent(d)
    BY <2>4 DEF Sent
  <2> QED BY <1>0, <2>4, <2>5, <2>6, <2>7, <2>8
          DEF QueueInv, Traces, OnTheWayOut, TypeOK
<1>9. ASSUME NEW c \in Calls, Removed(c) \/ RemoveFails(c) PROVE QueueInv'
  <2> DEFINE o == [op |-> "remove", on |-> c]
  <2>1. Elems(ops) = {o} \cup Elems(ops)' /\ Distinct(ops)'
    BY <1>0, <1>9, Popped DEF Removed, RemoveFails
  <2>2. \A d \in Calls : /\ Enqueued("remove", d)' => Enqueued("remove", d)
                         /\ Enqueued("remove", d) => Enqueued("remove", d)' \/ d = c
                         /\ Enqueued("requeue", d)' <=> Enqueued("requeue", d)
                         /\ Enqueued("queue", d)' <=> Enqueued("queue", d)
    BY <2>1 DEF Enqueued
  <2>3. Sent(c)
    BY <1>0, <2>1 DEF Traces, Enqueued
  <2>4. UNCHANGED <<promise, wire>>
    BY <1>9 DEF Removed, RemoveFails, callVars
  <2>5. \A d \in Calls : Sent(d)' <=> Sent(d)
    BY <2>4 DEF Sent
  <2>6. CASE Removed(c)
    <3>1. store' = store \ {c} /\ UNCHANGED orphaned
      BY <2>6 DEF Removed
    <3> QED BY <1>0, <2>1, <2>2, <2>3, <2>4, <2>5, <3>1
            DEF QueueInv, Traces, OnTheWayOut, TypeOK
  <2>7. CASE RemoveFails(c)
    <3>1. UNCHANGED store /\ orphaned' = orphaned \cup {c}
      BY <2>7 DEF RemoveFails
    <3> QED BY <1>0, <2>1, <2>2, <2>3, <2>4, <2>5, <3>1
            DEF QueueInv, Traces, OnTheWayOut, TypeOK
  <2> QED BY <1>9, <2>6, <2>7
<1>10. ASSUME NEW p \in Peers, Replay(p) PROVE QueueInv'
  <2> DEFINE o == [op |-> "replay", on |-> p]
  <2>1. Queued(p) \in SUBSET Calls /\ Queued(p) \subseteq store
    BY DEF Queued, TypeOK
  <2>2. UNCHANGED <<promise, store, orphaned>>
    BY <1>10 DEF Replay, callVars
  <2>3. CASE Up(p)
    <3>1. /\ wire' = wire \cup [call : Queued(p), to : {p}]
          /\ Runs(o)
      BY <1>10, <2>3 DEF Replay
    <3>2. PICK b \in Batches("remove", Queued(p)) : ops' = Tail(ops) \o b
      BY <1>10, <2>3 DEF Replay
    <3>3. /\ {o} \cup Elems(ops)' = Elems(ops) \cup {o} \cup [op : {"remove"}, on : Queued(p)]
          /\ [op : {"remove"}, on : Queued(p)] \subseteq Elems(ops)'
          /\ Distinct(ops)'
      BY <1>0, <2>1, <3>1, <3>2, PoppedBatch
    <3>4. \A d \in Calls :
              /\ Enqueued("remove", d)' <=> Enqueued("remove", d) \/ d \in Queued(p)
              /\ Enqueued("requeue", d)' <=> Enqueued("requeue", d)
              /\ Enqueued("queue", d)' <=> Enqueued("queue", d)
      BY <3>3 DEF Enqueued
    <3>5. \A d \in Calls : Sent(d)' <=> Sent(d) \/ d \in Queued(p)
      BY <3>1 DEF Sent, Queued
    <3> QED BY <1>0, <2>1, <2>2, <3>3, <3>4, <3>5
            DEF QueueInv, Traces, OnTheWayOut, TypeOK
  <2>4. CASE ~Up(p)
    <3>1. UNCHANGED wire /\ Runs(o)
      BY <1>10, <2>4 DEF Replay
    <3>2. PICK b \in Batches("requeue", Queued(p)) : ops' = Tail(ops) \o b
      BY <1>10, <2>4 DEF Replay
    <3>3. /\ {o} \cup Elems(ops)' = Elems(ops) \cup {o} \cup [op : {"requeue"}, on : Queued(p)]
          /\ Distinct(ops)'
      BY <1>0, <2>1, <3>1, <3>2, PoppedBatch
    <3>4. \A d \in Calls :
              /\ Enqueued("remove", d)' <=> Enqueued("remove", d)
              /\ Enqueued("requeue", d)' => Enqueued("requeue", d) \/ d \in Queued(p)
              /\ Enqueued("queue", d)' <=> Enqueued("queue", d)
      BY <3>3 DEF Enqueued
    <3>5. \A d \in Calls : Sent(d)' <=> Sent(d)
      BY <3>1 DEF Sent
    <3> QED BY <1>0, <2>1, <2>2, <3>3, <3>4, <3>5
            DEF QueueInv, Traces, OnTheWayOut, TypeOK
  <2> QED BY <2>3, <2>4
<1>11. ASSUME NEW p \in Peers, ReplayFails(p) PROVE QueueInv'
  <2> DEFINE o == [op |-> "replay", on |-> p]
  <2>1. Elems(ops) = {o} \cup Elems(ops)' /\ Distinct(ops)'
    BY <1>0, <1>11, Popped DEF ReplayFails
  <2>2. \A d \in Calls : \A k \in {"queue", "requeue", "remove"} :
            Enqueued(k, d)' <=> Enqueued(k, d)
    BY <2>1 DEF Enqueued
  <2>3. UNCHANGED <<promise, store, wire>> /\ orphaned \subseteq orphaned'
    BY <1>11 DEF ReplayFails, callVars
  <2> QED BY <2>1, <2>2, <2>3, QueueFrame
<1>12. ASSUME NEW l \in Lines, Open(l) PROVE QueueInv'
  <2> DEFINE o == [op |-> "replay", on |-> To[l]]
  <2>1. UNCHANGED <<promise, store, wire, orphaned>>
    BY <1>12 DEF Open, callVars
  <2>2. CASE UNCHANGED ops
    BY <1>1, <2>1, <2>2
  <2>3. CASE ops' = Append(ops, o)
    <3>1. o \in OpType /\ o.op # "queue"
      BY OfflineAssumption DEF OpType, PeerOps
    <3>2. Elems(ops)' = Elems(ops) \cup {o} /\ Distinct(ops)'
      BY <1>0, <2>3, <3>1, Pushed
    <3>3. \A d \in Calls : \A k \in {"queue", "requeue", "remove"} :
              Enqueued(k, d)' <=> Enqueued(k, d)
      BY <3>2 DEF Enqueued
    <3> QED BY <2>1, <3>2, <3>3, QueueFrame
  <2> QED BY <1>12, <2>2, <2>3 DEF Open
<1>13. ASSUME NEW l \in Lines, Dial(l) \/ Closing(l) \/ CloseEvent(l) \/ Retry(l)
       PROVE  QueueInv'
  BY <1>1, <1>13 DEF Dial, Closing, CloseEvent, Retry, callVars, storeVars
<1>14. ASSUME NEW d \in {"open", "none"}, Connect(d) \/ Disconnect PROVE QueueInv'
  BY <1>1, <1>14 DEF Connect, Disconnect, callVars, storeVars
<1>15. ASSUME Reload PROVE QueueInv'
  <2>1. /\ ops' = <<>>
        /\ UNCHANGED <<store, wire>>
        /\ orphaned' = orphaned \cup {c \in Calls : Removing(c)}
        /\ \A c \in Calls : promise'[c] = "idle" => promise[c] = "idle"
    BY <1>15 DEF Reload
  <2>2. Elems(ops)' = {} /\ Distinct(ops)'
    BY <2>1 DEF Elems, Distinct
  <2>3. \A k, c : ~Enqueued(k, c)'
    BY <2>2 DEF Enqueued
  <2>4. \A c \in Calls : Enqueued("remove", c) => c \in orphaned'
    BY <2>1, RemovingEnqueued
  <2> QED BY <2>1, <2>2, <2>3, <2>4, QueueFrame
<1>16. ASSUME UNCHANGED vars PROVE QueueInv'
  BY <1>1, <1>16 DEF vars
<1>17. ASSUME StoreStep PROVE QueueInv'
  BY <1>6, <1>7, <1>8, <1>9, <1>10, <1>11, <1>17 DEF StoreStep
<1>18. ASSUME NEW c \in Calls, CallStep(c) PROVE QueueInv'
  BY <1>2, <1>3, <1>4, <1>5, <1>18 DEF CallStep
<1>19. ASSUME NEW l \in Lines, LineStep(l) PROVE QueueInv'
  BY <1>12, <1>13, <1>19 DEF LineStep
<1> QED BY <1>14, <1>15, <1>16, <1>17, <1>18, <1>19 DEF Next

\* The transactions that wait, the store and the wire agree.
THEOREM QueueCorrect == Spec => []QueueInv
<1>1. Init => QueueInv
  BY DEF Init, QueueInv, Traces, OnTheWayOut, Distinct, Enqueued, Elems, Sent
<1> QED BY <1>1, QueueStep, TypeCorrect, PTL DEF Spec, Safe

\* An entry that has been sent is on its way out of the store
\* (WSTransport.ts:176-192).
COROLLARY RemovalCorrect == Spec => []SentIsBeingRemoved
<1>1. TypeOK /\ QueueInv => SentIsBeingRemoved
  BY RemovingEnqueued DEF TypeOK, QueueInv, OnTheWayOut, SentIsBeingRemoved
<1> QED BY <1>1, TypeCorrect, QueueCorrect, PTL

-----------------------------------------------------------------------------
(* Every step of the transport is a step of AtLeastOnceQueue or leaves the   *)
(* store and the set of sent calls alone: no entry leaves the store unsent.  *)
THEOREM NothingLost == Spec => ImplementsQueue
<1>1. Init => Queue!Init
  BY DEF Init, Queue!Init, Sent
<1>2. TypeOK /\ QueueInv /\ [Next]_vars => [Queue!Next]_(Queue!qvars)
  <2> DEFINE sent == {c \in Calls : Sent(c)}
  <2> SUFFICES ASSUME TypeOK, QueueInv, [Next]_vars
               PROVE  Queue!Next \/ UNCHANGED <<store, sent>>
    BY DEF Queue!qvars
  <2>1. ASSUME UNCHANGED <<store, wire>> PROVE UNCHANGED <<store, sent>>
    BY <2>1 DEF Sent
  <2>2. ASSUME NEW c \in Calls, CallSent(c) PROVE Queue!Next
    <3>1. sent' = sent \cup {c} /\ UNCHANGED store
      BY <2>2 DEF CallSent, Sent, storeVars
    <3> QED BY <3>1 DEF Queue!Next, Queue!SendNow
  <2>3. ASSUME NEW c \in Calls, Stored(c) \/ Requeued(c) PROVE Queue!Next
    <3>1. sent' = sent /\ store' = store \cup {c}
      BY <2>3 DEF Stored, Requeued, Sent
    <3> QED BY <3>1 DEF Queue!Next, Queue!Hold
  <2>4. ASSUME NEW c \in Calls, Removed(c) PROVE Queue!Next
    <3>1. Enqueued("remove", c)
      <4> DEFINE o == [op |-> "remove", on |-> c]
      <4>1. Distinct(ops) /\ Runs(o) /\ ops' = Tail(ops)
        BY <2>4 DEF Removed, QueueInv
      <4>2. Elems(ops) = {o} \cup Elems(ops)'
        BY <4>1, Popped
      <4> QED BY <4>2 DEF Enqueued
    <3>2. c \in sent
      BY <3>1 DEF QueueInv, Traces
    <3>3. sent' = sent /\ store' = store \ {c}
      BY <2>4 DEF Removed, Sent
    <3> QED BY <3>2, <3>3 DEF Queue!Next, Queue!Release
  <2>5. ASSUME NEW p \in Peers, Replay(p)
        PROVE  Queue!Next \/ UNCHANGED <<store, sent>>
    <3>1. CASE ~Up(p)
      BY <2>1, <2>5, <3>1 DEF Replay
    <3>2. CASE Up(p)
      <4>1. /\ wire' = wire \cup [call : Queued(p), to : {p}]
            /\ UNCHANGED store
        BY <2>5, <3>2 DEF Replay
      <4>2. Queued(p) \subseteq store /\ Queued(p) \in SUBSET Calls
        BY DEF Queued, TypeOK
      <4>3. sent' = sent \cup Queued(p)
        BY <4>1, <4>2 DEF Sent, Queued
      <4> QED BY <4>1, <4>2, <4>3 DEF Queue!Next, Queue!Forward
    <3> QED BY <3>1, <3>2
  <2>6. ASSUME UNCHANGED vars PROVE UNCHANGED <<store, sent>>
    BY <2>1, <2>6 DEF vars
  <2>7. ASSUME NEW c \in Calls,
               \/ CallQueued(c) \/ Timeout(c)
               \/ \E k \in AnswerKinds : Receive(c, k)
        PROVE  UNCHANGED <<store, sent>>
    BY <2>1, <2>7 DEF CallQueued, Timeout, Receive, storeVars
  <2>8. ASSUME NEW c \in Calls, StoreRefused(c) \/ RequeueRefused(c) \/ RemoveFails(c)
        PROVE  UNCHANGED <<store, sent>>
    BY <2>1, <2>8 DEF StoreRefused, RequeueRefused, RemoveFails
  <2>9. ASSUME NEW p \in Peers, ReplayFails(p) PROVE UNCHANGED <<store, sent>>
    BY <2>1, <2>9 DEF ReplayFails
  <2>10. ASSUME NEW l \in Lines, LineStep(l) PROVE UNCHANGED <<store, sent>>
    BY <2>1, <2>10 DEF LineStep, Dial, Open, Closing, CloseEvent, Retry, storeVars
  <2>11. ASSUME NEW d \in {"open", "none"}, Connect(d) \/ Disconnect \/ Reload
         PROVE  UNCHANGED <<store, sent>>
    BY <2>1, <2>11 DEF Connect, Disconnect, Reload, storeVars
  <2> QED BY <2>2, <2>3, <2>4, <2>5, <2>6, <2>7, <2>8, <2>9, <2>10, <2>11
          DEF Next, CallStep, StoreStep
<1> QED BY <1>1, <1>2, TypeCorrect, QueueCorrect, PTL
        DEF Spec, Safe, ImplementsQueue, Queue!Spec

=============================================================================
