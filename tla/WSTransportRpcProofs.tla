------------------------ MODULE WSTransportRpcProofs ------------------------
(***************************************************************************)
(* Proofs about WSTransportRpc for any calls, remote nodes, answers and    *)
(* number of answers.                                                      *)
(***************************************************************************)
EXTENDS WSTransportRpc, TLAPS

(* The variables keep their types: no step stores a value the code does not. *)
THEOREM TypeCorrect == Spec => []TypeOK
<1>1. Init => TypeOK
  <2> SUFFICES ASSUME Init PROVE TypeOK
    OBVIOUS
  <2>1. answered \in [Calls -> 0..MaxAnswers]
    BY RpcAssumption DEF Init
  <2> QED BY <2>1 DEF Init, TypeOK, SendStates, LinkStates
<1>2. TypeOK /\ [Next]_vars => TypeOK'
  <2> SUFFICES ASSUME TypeOK, [Next]_vars PROVE TypeOK'
    OBVIOUS
  <2> USE DEF TypeOK, SendStates, LinkStates, AnswerSet
  <2>1. ASSUME NEW c \in Calls, CallRefused(c) PROVE TypeOK'
    BY <2>1 DEF CallRefused, Stamp, wireVars, lifeVars
  <2>2. ASSUME NEW c \in Calls, CallSent(c) PROVE TypeOK'
    BY <2>2 DEF CallSent, Register, Stamp, lifeVars
  <2>3. ASSUME NEW c \in Calls, CallQueued(c) PROVE TypeOK'
    BY <2>3 DEF CallQueued, Register, Stamp, wireVars, lifeVars
  <2>4. ASSUME NEW c \in Calls, SendStep(c) PROVE TypeOK'
    BY <2>4 DEF SendStep, ResumeSend, ResumeStale, callVars, wireVars, lifeVars
  <2>5. ASSUME NEW c \in Calls, Timeout(c) PROVE TypeOK'
    BY <2>5 DEF Timeout, wireVars, lifeVars
  <2>6. ASSUME NEW c \in Calls, Deliver(c) PROVE TypeOK'
    BY <2>6 DEF Deliver, callVars, lifeVars
  <2>7. ASSUME NEW c \in Calls, NEW k \in AnswerKinds, Answer(c, k) PROVE TypeOK'
    <3>1. answered' \in [Calls -> 0..MaxAnswers]
      BY <2>7, RpcAssumption DEF Answer
    <3>2. answers' \subseteq AnswerSet
      BY <2>7 DEF Answer
    <3> QED BY <2>7, <3>1, <3>2 DEF Answer, callVars, lifeVars
  <2>8. ASSUME NEW m \in answers, Receive(m) PROVE TypeOK'
    <3>1. promise' \in [Calls -> {"idle", "open", "refused", "resolved", "rejected"}]
      BY <2>8 DEF Receive, Outcome, callVars
    <3> QED BY <2>8, <3>1 DEF Receive, callVars, lifeVars
  <2>9. ASSUME NEW p \in Peers, LinkUp(p) \/ Choke(p) \/ Unchoke(p) PROVE TypeOK'
    BY <2>9 DEF LinkUp, Choke, Unchoke, callVars, wireVars, lifeVars
  <2>10. ASSUME NEW p \in Peers, NEW C \in SUBSET CallsTo(p), LinkDown(p, C)
         PROVE TypeOK'
    BY <2>10 DEF LinkDown, LoseSocket, callVars, lifeVars
  <2>11. ASSUME LifeStep PROVE TypeOK'
    BY <2>11 DEF LifeStep, BeginDisconnect, FinishDisconnect, Connect, LoseSocket,
                 callVars, wireVars
  <2>12. ASSUME UNCHANGED vars PROVE TypeOK'
    BY <2>12 DEF vars
  <2> QED BY <2>1, <2>2, <2>3, <2>4, <2>5, <2>6, <2>7, <2>8, <2>9, <2>10, <2>11,
             <2>12 DEF Next, CallStep, RemoteStep, SocketStep
<1> QED BY <1>1, <1>2, PTL DEF Spec, Safe

-----------------------------------------------------------------------------
(* The pending table, the armed timers and the open promises are the same    *)
(* set of calls, as long as no remote node answers with an error that has no *)
(* data: that one answer clears the first two and leaves the promise open.   *)
THEOREM TableCorrect ==
    ASSUME "ERROR_TYPED" \notin AnswerKinds
    PROVE  Spec => []TableMatchesPromises
<1> DEFINE Inv == TypeOK /\ TableMatchesPromises
<1>1. Init => TableMatchesPromises
  BY DEF Init, TableMatchesPromises
<1>2. Inv /\ TypeOK' /\ [Next]_vars => TableMatchesPromises'
  <2> SUFFICES ASSUME Inv, [Next]_vars PROVE TableMatchesPromises'
    OBVIOUS
  <2> USE DEF TypeOK, TableMatchesPromises
  <2>1. ASSUME UNCHANGED callVars PROVE TableMatchesPromises'
    BY <2>1 DEF callVars
  <2>2. ASSUME NEW c \in Calls, CallRefused(c) PROVE TableMatchesPromises'
    BY <2>2 DEF CallRefused
  <2>3. ASSUME NEW c \in Calls, CallSent(c) \/ CallQueued(c)
        PROVE TableMatchesPromises'
    <3>1. \A d \in Calls : promise'[d] = "open" <=> d \in pending \cup {c}
      BY <2>3 DEF CallSent, CallQueued, Register
    <3>2. pending' = pending \cup {c} /\ timer' = timer \cup {c}
      BY <2>3 DEF CallSent, CallQueued, Register
    <3> QED BY <3>1, <3>2
  <2>4. ASSUME NEW c \in Calls, Timeout(c) PROVE TableMatchesPromises'
    BY <2>4 DEF Timeout
  <2>5. ASSUME NEW m \in answers, Receive(m) PROVE TableMatchesPromises'
    <3>1. m.call \in Calls /\ m.kind \in {"RESPONSE", "ERROR_DATA", "OTHER"}
      BY RpcAssumption DEF AnswerSet, AllKinds
    <3>2. CASE m.kind # "OTHER" /\ m.call \in pending
      <4>1. promise'[m.call] # "open"
        BY <2>5, <3>1, <3>2 DEF Receive, Outcome
      <4>2. \A c \in Calls \ {m.call} : promise'[c] = promise[c]
        BY <2>5, <3>1, <3>2 DEF Receive
      <4>3. pending' = pending \ {m.call} /\ timer' = timer \ {m.call}
        BY <2>5, <3>2 DEF Receive
      <4> QED BY <3>1, <4>1, <4>2, <4>3
    <3>3. CASE ~(m.kind # "OTHER" /\ m.call \in pending)
      BY <2>1, <2>5, <3>3 DEF Receive
    <3> QED BY <3>2, <3>3
  <2>6. ASSUME NEW c \in Calls, SendStep(c) PROVE TableMatchesPromises'
    BY <2>1, <2>6 DEF SendStep, ResumeSend, ResumeStale
  <2>7. ASSUME NEW c \in Calls, Deliver(c) PROVE TableMatchesPromises'
    BY <2>1, <2>7 DEF Deliver
  <2>8. ASSUME NEW c \in Calls, NEW k \in AnswerKinds, Answer(c, k)
        PROVE TableMatchesPromises'
    BY <2>1, <2>8 DEF Answer
  <2>9. ASSUME SocketStep PROVE TableMatchesPromises'
    BY <2>1, <2>9 DEF SocketStep, LinkUp, LinkDown, Choke, Unchoke
  <2>10. ASSUME LifeStep PROVE TableMatchesPromises'
    BY <2>1, <2>10 DEF LifeStep, BeginDisconnect, FinishDisconnect, Connect
  <2>11. ASSUME UNCHANGED vars PROVE TableMatchesPromises'
    BY <2>1, <2>11 DEF vars, callVars
  <2> QED BY <2>2, <2>3, <2>4, <2>5, <2>6, <2>7, <2>8, <2>9, <2>10, <2>11
          DEF Next, CallStep, RemoteStep
<1> QED BY <1>1, <1>2, TypeCorrect, PTL DEF Spec, Safe

-----------------------------------------------------------------------------
(* What travels belongs to accepted calls, whatever the answers look like.   *)
THEOREM WireCorrect == Spec => []WireMatchesPromises
<1> DEFINE Inv == TypeOK /\ WireMatchesPromises
<1>1. Init => WireMatchesPromises
  BY DEF Init, WireMatchesPromises, InFlightAccepted, AnswersServed, LateRefused,
         PendingOpen
<1>2. Inv /\ TypeOK' /\ [Next]_vars => WireMatchesPromises'
  <2> SUFFICES ASSUME Inv, [Next]_vars PROVE WireMatchesPromises'
    OBVIOUS
  <2> USE DEF TypeOK, WireMatchesPromises, InFlightAccepted, AnswersServed,
              LateRefused, PendingOpen
  <2>1. ASSUME NEW c \in Calls, CallStep(c) PROVE WireMatchesPromises'
    <3>1. c \notin late
      BY <2>1 DEF CallStep, CallRefused, CallSent, CallQueued
    <3>2. CASE CallRefused(c)
      <4>1. c \notin requests \cup served
        BY <3>2 DEF CallRefused
      <4>2. \A d \in Calls \ {c} : promise'[d] = promise[d] /\ sendPc'[d] = sendPc[d]
        BY <3>2 DEF CallRefused
      <4>3. promise'[c] = "refused" /\ sendPc'[c] = "done"
        BY <3>2 DEF CallRefused
      <4>4. late' \subseteq late \cup {c} /\ UNCHANGED wireVars
        BY <3>2 DEF CallRefused, Stamp
      <4>5. pending' = pending /\ c \notin pending
        BY <3>2 DEF CallRefused
      <4> QED BY <3>1, <4>1, <4>2, <4>3, <4>4, <4>5 DEF wireVars
    <3>3. CASE CallSent(c)
      <4>1. promise' = [promise EXCEPT ![c] = "open"]
            /\ sendPc' = [sendPc EXCEPT ![c] = "done"]
        BY <3>3 DEF CallSent, Register
      <4>2. late' = late /\ requests' = requests \cup {c} /\ UNCHANGED <<answers, served>>
        BY <3>3 DEF CallSent, Stamp, Sendable
      <4>3. InFlightAccepted' /\ LateRefused'
        BY <3>1, <4>1, <4>2
      <4>4. PendingOpen'
        BY <4>1, <3>3 DEF CallSent, Register
      <4> QED BY <4>2, <4>3, <4>4
    <3>4. CASE CallQueued(c)
      <4>1. promise' = [promise EXCEPT ![c] = "open"]
            /\ sendPc' = [sendPc EXCEPT ![c] = "waiting"]
        BY <3>4 DEF CallQueued, Register
      <4>2. late' = late /\ UNCHANGED <<requests, answers, served>>
        BY <3>4 DEF CallQueued, Stamp, Sendable, wireVars
      <4>3. InFlightAccepted' /\ LateRefused'
        BY <3>1, <4>1, <4>2
      <4>4. PendingOpen'
        BY <4>1, <3>4 DEF CallQueued, Register
      <4> QED BY <4>2, <4>3, <4>4
    <3> QED BY <2>1, <3>2, <3>3, <3>4 DEF CallStep
  <2>2. ASSUME NEW c \in Calls, SendStep(c) PROVE WireMatchesPromises'
    BY <2>2 DEF SendStep, ResumeSend, ResumeStale, callVars, wireVars
  <2>3. ASSUME NEW c \in Calls, Timeout(c) PROVE WireMatchesPromises'
    BY <2>3 DEF Timeout, wireVars
  <2>4. ASSUME NEW c \in Calls, Deliver(c) PROVE WireMatchesPromises'
    BY <2>4 DEF Deliver, callVars
  <2>5. ASSUME NEW c \in Calls, NEW k \in AnswerKinds, Answer(c, k)
        PROVE WireMatchesPromises'
    BY <2>5 DEF Answer, callVars
  <2>6. ASSUME NEW m \in answers, Receive(m) PROVE WireMatchesPromises'
    <3>1. m.call \in served
      BY <2>6
    <3>2. \A c \in Calls : promise'[c] \in {"idle", "refused"}
                          <=> promise[c] \in {"idle", "refused"}
      BY <2>6, <3>1 DEF Receive, Outcome, callVars
    <3>3. \A c \in Calls : promise[c] = "refused" => promise'[c] = "refused"
      BY <2>6, <3>1 DEF Receive, callVars
    <3>4. PendingOpen'
      <4>1. CASE m.kind # "OTHER" /\ m.call \in pending
        <5>1. pending' = pending \ {m.call}
          BY <2>6, <4>1 DEF Receive
        <5>2. \A c \in Calls \ {m.call} : promise'[c] = promise[c]
          BY <2>6, <4>1 DEF Receive
        <5> QED BY <5>1, <5>2
      <4>2. CASE ~(m.kind # "OTHER" /\ m.call \in pending)
        BY <2>6, <4>2 DEF Receive, callVars
      <4> QED BY <4>1, <4>2
    <3>5. UNCHANGED <<sendPc, requests, served, late>> /\ answers' \subseteq answers
      BY <2>6 DEF Receive
    <3> QED BY <3>2, <3>3, <3>4, <3>5
  <2>7. ASSUME NEW p \in Peers, LinkUp(p) \/ Choke(p) \/ Unchoke(p)
        PROVE WireMatchesPromises'
    BY <2>7 DEF LinkUp, Choke, Unchoke, callVars, wireVars
  <2>8. ASSUME NEW p \in Peers, NEW C \in SUBSET CallsTo(p), LinkDown(p, C)
        PROVE WireMatchesPromises'
    BY <2>8 DEF LinkDown, LoseSocket, callVars
  <2>9. ASSUME LifeStep PROVE WireMatchesPromises'
    BY <2>9 DEF LifeStep, BeginDisconnect, FinishDisconnect, Connect, LoseSocket,
                callVars, wireVars
  <2>10. ASSUME UNCHANGED vars PROVE WireMatchesPromises'
    BY <2>10 DEF vars
  <2> QED BY <2>1, <2>2, <2>3, <2>4, <2>5, <2>6, <2>7, <2>8, <2>9, <2>10
          DEF Next, RemoteStep, SocketStep
<1> QED BY <1>1, <1>2, TypeCorrect, PTL DEF Spec, Safe

(* Once disconnect() has begun no later call reaches a remote node.          *)
COROLLARY DrainingCorrect == Spec => []NothingSentOnceDraining
<1>1. TypeOK /\ WireMatchesPromises => NothingSentOnceDraining
  BY DEF TypeOK, WireMatchesPromises, InFlightAccepted, LateRefused,
         NothingSentOnceDraining
<1> QED BY <1>1, TypeCorrect, WireCorrect, PTL

-----------------------------------------------------------------------------
(* Every step of the transport is a step of RpcPromise or leaves the promise *)
(* and the set of served calls alone: a settled call never settles again, a  *)
(* refused one is never served, and only a served one is resolved.           *)
THEOREM PromiseKept ==
    ASSUME "ERROR_TYPED" \notin AnswerKinds
    PROVE  Spec => Promise!Safe
<1> DEFINE Inv == TypeOK /\ TableMatchesPromises /\ WireMatchesPromises
<1>1. Init => Promise!Init
  BY DEF Init, Promise!Init
<1>2. Inv /\ [Next]_vars => [Promise!Next]_(Promise!pvars)
  <2> SUFFICES ASSUME Inv, [Next]_vars
               PROVE  Promise!Next \/ UNCHANGED <<promise, served>>
    BY DEF Promise!pvars
  <2> USE DEF TypeOK
  <2>1. ASSUME NEW c \in Calls, CallStep(c) PROVE Promise!Next
    <3>1. Promise!Make(c)
      BY <2>1 DEF CallStep, CallRefused, CallSent, CallQueued, Register, wireVars,
                  Promise!Make
    <3> QED BY <3>1 DEF Promise!Next
  <2>2. ASSUME NEW c \in Calls, SendStep(c) PROVE UNCHANGED <<promise, served>>
    BY <2>2 DEF SendStep, ResumeSend, ResumeStale, callVars, wireVars
  <2>3. ASSUME NEW c \in Calls, Timeout(c) PROVE Promise!Next
    <3>1. promise[c] = "open" /\ c \in pending
      BY <2>3 DEF Timeout, TableMatchesPromises
    <3>2. Promise!Reject(c)
      BY <2>3, <3>1 DEF Timeout, wireVars, Promise!Reject
    <3> QED BY <3>2 DEF Promise!Next, Promise!Settle
  <2>4. ASSUME NEW c \in Calls, Deliver(c)
        PROVE Promise!Next \/ UNCHANGED <<promise, served>>
    <3>1. CASE c \in served
      BY <2>4, <3>1 DEF Deliver, callVars
    <3>2. CASE c \notin served
      <4>1. promise[c] \notin {"idle", "refused"}
        BY <2>4 DEF Deliver, WireMatchesPromises, InFlightAccepted
      <4>2. Promise!Serve(c)
        BY <2>4, <3>2, <4>1 DEF Deliver, callVars, Promise!Serve
      <4> QED BY <4>2 DEF Promise!Next
    <3> QED BY <3>1, <3>2
  <2>5. ASSUME NEW c \in Calls, NEW k \in AnswerKinds, Answer(c, k)
        PROVE UNCHANGED <<promise, served>>
    BY <2>5 DEF Answer, callVars
  <2>6. ASSUME NEW m \in answers, Receive(m)
        PROVE Promise!Next \/ UNCHANGED <<promise, served>>
    <3>1. m.call \in Calls /\ m.kind \in {"RESPONSE", "ERROR_DATA", "OTHER"}
      BY RpcAssumption DEF AnswerSet, AllKinds
    <3>2. CASE m.kind # "OTHER" /\ m.call \in pending
      <4>1. promise[m.call] = "open" /\ m.call \in served
        BY <3>2, <2>6 DEF TableMatchesPromises, WireMatchesPromises, AnswersServed
      <4>2. CASE m.kind = "RESPONSE"
        <5>1. Promise!Resolve(m.call)
          BY <2>6, <3>2, <4>1, <4>2 DEF Receive, Outcome, Promise!Resolve
        <5> QED BY <3>1, <5>1 DEF Promise!Next, Promise!Settle
      <4>3. CASE m.kind = "ERROR_DATA"
        <5>1. Promise!Reject(m.call)
          BY <2>6, <3>2, <4>1, <4>3 DEF Receive, Outcome, Promise!Reject
        <5> QED BY <3>1, <5>1 DEF Promise!Next, Promise!Settle
      <4> QED BY <3>1, <3>2, <4>2, <4>3
    <3>3. CASE ~(m.kind # "OTHER" /\ m.call \in pending)
      BY <2>6, <3>3 DEF Receive, callVars
    <3> QED BY <3>2, <3>3
  <2>7. ASSUME SocketStep PROVE UNCHANGED <<promise, served>>
    BY <2>7 DEF SocketStep, LinkUp, LinkDown, Choke, Unchoke, callVars, wireVars
  <2>8. ASSUME LifeStep PROVE UNCHANGED <<promise, served>>
    BY <2>8 DEF LifeStep, BeginDisconnect, FinishDisconnect, Connect, callVars,
                wireVars
  <2>9. ASSUME UNCHANGED vars PROVE UNCHANGED <<promise, served>>
    BY <2>9 DEF vars
  <2> QED BY <2>1, <2>2, <2>3, <2>4, <2>5, <2>6, <2>7, <2>8, <2>9
          DEF Next, RemoteStep
<1> QED BY <1>1, <1>2, TypeCorrect, TableCorrect, WireCorrect, PTL
        DEF Spec, Safe, Promise!Safe

=============================================================================
