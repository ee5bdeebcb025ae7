------------------------ MODULE CircuitBreakerProofs ------------------------
(***************************************************************************)
(* Proofs about CircuitBreaker for any set of nodes, thresholds and table  *)
(* size.  Every action writes the table through Store, so each proof first *)
(* says what Store does to one entry and then asks it of the entry that    *)
(* the action writes.                                                      *)
(***************************************************************************)
EXTENDS CircuitBreaker, FiniteSetTheorems, TLAPS

(* What Capped returns: a number that does not exceed max and grows by at    *)
(* most one (it stands for the counters of CircuitBreakerInterceptor.ts).    *)
LEMMA CappedRange ==
    ASSUME NEW max \in Nat, NEW i \in 0..max
    PROVE  /\ Capped(i, max) \in 0..max
           /\ Capped(i, max) >= i
           /\ Capped(i, max) = max \/ Capped(i, max) = i + 1
BY DEF Capped

(* A lookup of a known or a new node returns a well-formed breaker.          *)
LEMMA GetBreakerType ==
    ASSUME TypeOK, NEW n \in Nodes
    PROVE  GetBreaker(n) \in Info
BY BreakerAssumption DEF GetBreaker, TypeOK, Info, Fresh, Expired

(* The entries of the table after a lookup of n: n itself and some of those  *)
(* that were there.                                                          *)
LEMMA StoreEntries ==
    ASSUME NEW n \in Nodes, NEW info \in Info
    PROVE  /\ DOMAIN Store(n, info) = Kept(n) \cup {n}
           /\ Kept(n) \subseteq Known
           /\ Store(n, info)[n] = info
           /\ \A m \in Kept(n) \ {n} : Store(n, info)[m] = breakers[m]
BY DEF Store, Kept

(* Every field keeps its range.                                              *)
THEOREM TypeCorrect == Spec => []TypeOK
<1>1. Init => TypeOK
  BY BreakerAssumption DEF Init, TypeOK, Known
<1>2. TypeOK /\ [Next]_vars => TypeOK'
  <2> SUFFICES ASSUME TypeOK, [Next]_vars PROVE TypeOK'
    OBVIOUS
  <2>1. ASSUME NEW n \in Nodes, NEW info \in Info, breakers' = Store(n, info)
        PROVE  Known' \subseteq Nodes /\ breakers' \in [Known' -> Info]
    BY <2>1 DEF TypeOK, Store, Kept, Known
  <2>2. \A n \in Nodes : GetBreaker(n) \in Info
    BY GetBreakerType
  <2>3. ASSUME NEW n \in Nodes, Admit(n) PROVE TypeOK'
    <3>1. Known' \subseteq Nodes /\ breakers' \in [Known' -> Info]
      BY <2>1, <2>2, <2>3 DEF Admit
    <3> QED BY <2>3, <3>1, BreakerAssumption DEF Admit, TypeOK
  <2>4. ASSUME NEW n \in Nodes, Probe(n) PROVE TypeOK'
    <3>1. [GetBreaker(n) EXCEPT !.state = "HALF_OPEN"] \in Info
      BY <2>2 DEF Info
    <3>2. Known' \subseteq Nodes /\ breakers' \in [Known' -> Info]
      BY <2>1, <2>4, <3>1 DEF Probe
    <3> QED BY <2>4, <3>2, BreakerAssumption DEF Probe, TypeOK
  <2>5. ASSUME NEW n \in Nodes, RecordFailure(n) PROVE TypeOK'
    <3>1. Capped(GetBreaker(n).failures, FailureThreshold) \in 0..FailureThreshold
      BY <2>2, CappedRange, BreakerAssumption DEF Info
    <3>2. Tripped(GetBreaker(n)) \in Info
      BY <2>2, <3>1, BreakerAssumption DEF Tripped, Info, Expired
    <3>3. Known' \subseteq Nodes /\ breakers' \in [Known' -> Info]
      BY <2>1, <2>5, <3>2 DEF RecordFailure
    <3>4. Capped(streak[n], FailureThreshold) \in 0..FailureThreshold
      BY CappedRange, BreakerAssumption DEF TypeOK
    <3> QED BY <2>5, <3>3, <3>4, BreakerAssumption DEF RecordFailure, TypeOK
  <2>6. ASSUME NEW n \in Nodes, RecordSuccess(n) PROVE TypeOK'
    <3>1. Reset(GetBreaker(n)) \in Info
      BY <2>2, BreakerAssumption DEF Reset, Info
    <3>2. Known' \subseteq Nodes /\ breakers' \in [Known' -> Info]
      BY <2>1, <2>6, <3>1 DEF RecordSuccess
    <3> QED BY <2>6, <3>2, BreakerAssumption DEF RecordSuccess, TypeOK
  <2>7. ASSUME NEW n \in Nodes, NoAnswer(n) PROVE TypeOK'
    BY <2>7, BreakerAssumption DEF NoAnswer, TypeOK, Known
  <2>8. ASSUME Tick PROVE TypeOK'
    <3>1. \A n \in Known : Capped(breakers[n].age, Expired) \in 0..Expired
      BY CappedRange, BreakerAssumption DEF TypeOK, Info, Expired
    <3>2. \A n \in Known : [breakers[n] EXCEPT !.age = Capped(@, Expired)] \in Info
      BY <3>1 DEF TypeOK, Info
    <3>3. Known' = Known /\ breakers' \in [Known -> Info]
      BY <2>8, <3>2 DEF Tick, Known
    <3> QED BY <2>8, <3>3 DEF Tick, TypeOK
  <2>9. ASSUME UNCHANGED vars PROVE TypeOK'
    BY <2>9 DEF vars, TypeOK, Known
  <2> QED BY <2>3, <2>4, <2>5, <2>6, <2>7, <2>8, <2>9 DEF Next, Answered
<1> QED BY <1>1, <1>2, PTL DEF Spec, Safe

-----------------------------------------------------------------------------
(* Two facts about single breakers, of which the invariants speak entry by   *)
(* entry: which state goes with which count, and which count goes with which *)
(* history of answers.                                                       *)
Consistent(info) == info.state = "CLOSED" <=> info.failures < FailureThreshold

Inv == ClosedIffBelow /\ NoFalseTrip

LEMMA InvEntries == Inv <=> \A m \in Known : /\ Consistent(breakers[m])
                                           /\ breakers[m].failures <= streak[m]
BY DEF Inv, ClosedIffBelow, NoFalseTrip, Consistent

(* A table written through Store keeps Inv when the new entry satisfies it   *)
(* and no history but that of its node changes.                              *)
LEMMA StoreKeepsInv ==
    ASSUME TypeOK, Inv, NEW n \in Nodes, NEW info \in Info,
           breakers' = Store(n, info),
           Consistent(info), info.failures <= streak'[n],
           \A m \in Nodes \ {n} : streak'[m] = streak[m]
    PROVE  Inv'
<1>1. \A m \in Kept(n) \ {n} : breakers'[m] = breakers[m] /\ m \in Known /\ m \in Nodes
  <2>1. Kept(n) \subseteq Known /\ Known \subseteq Nodes
    BY StoreEntries DEF TypeOK
  <2>2. \A m \in Kept(n) \ {n} : Store(n, info)[m] = breakers[m]
    BY DEF Store
  <2> QED BY <2>1, <2>2
<1>2. Known' = Kept(n) \cup {n} /\ breakers'[n] = info
  BY StoreEntries DEF Known
<1>3. \A m \in Kept(n) \ {n} : /\ Consistent(breakers[m])
                              /\ breakers[m].failures <= streak[m]
  BY <1>1, InvEntries
<1>4. \A m \in Known' : /\ breakers'[m].state = "CLOSED"
                              <=> breakers'[m].failures < FailureThreshold
                      /\ breakers'[m].failures <= streak'[m]
  BY <1>1, <1>2, <1>3 DEF Consistent
<1> QED BY <1>4 DEF Inv, ClosedIffBelow, NoFalseTrip

(* What a lookup returns satisfies both facts, for a new breaker too.        *)
LEMMA LookupConsistent ==
    ASSUME TypeOK, Inv, NEW n \in Nodes
    PROVE  Consistent(GetBreaker(n)) /\ GetBreaker(n).failures <= streak[n]
<1>1. CASE n \in Known
  BY <1>1, InvEntries DEF GetBreaker
<1>2. CASE n \notin Known
  BY <1>2, BreakerAssumption DEF GetBreaker, Fresh, Consistent, TypeOK
<1> QED BY <1>1, <1>2

(* State and count never disagree, and no count exceeds the failures of its  *)
(* node since its last success.                                              *)
THEOREM BreakerCorrect == Spec => [](ClosedIffBelow /\ NoFalseTrip)
<1>1. Init => Inv
  BY DEF Init, Inv, ClosedIffBelow, NoFalseTrip, Known
<1>2. TypeOK /\ Inv /\ [Next]_vars => Inv'
  <2> SUFFICES ASSUME TypeOK, Inv, [Next]_vars PROVE Inv'
    OBVIOUS
  <2>1. ASSUME NEW n \in Nodes
        PROVE  /\ GetBreaker(n) \in Info
               /\ Consistent(GetBreaker(n))
               /\ GetBreaker(n).failures <= streak[n]
               /\ streak[n] \in 0..FailureThreshold
    BY GetBreakerType, LookupConsistent DEF TypeOK
  <2>2. ASSUME NEW n \in Nodes, Admit(n) PROVE Inv'
    BY <2>1, <2>2, StoreKeepsInv DEF Admit
  <2>3. ASSUME NEW n \in Nodes, Probe(n) PROVE Inv'
    <3> DEFINE info == [GetBreaker(n) EXCEPT !.state = "HALF_OPEN"]
    <3>1. info \in Info /\ info.failures = GetBreaker(n).failures /\ info.state = "HALF_OPEN"
      BY <2>1 DEF Info
    <3>2. Consistent(info)
      BY <2>1, <2>3, <3>1 DEF Probe, Consistent
    <3>3. breakers' = Store(n, info) /\ UNCHANGED streak
      BY <2>3 DEF Probe
    <3> QED BY <2>1, <3>1, <3>2, <3>3, StoreKeepsInv
  <2>4. ASSUME NEW n \in Nodes, RecordFailure(n) PROVE Inv'
    <3> DEFINE info == Tripped(GetBreaker(n))
               old == GetBreaker(n)
    <3>1. /\ old.failures \in 0..FailureThreshold
          /\ old.state \in {"CLOSED", "OPEN", "HALF_OPEN"}
          /\ FailureThreshold \in Nat \ {0}
      BY <2>1, BreakerAssumption DEF Info
    <3>2. /\ info.failures = Capped(old.failures, FailureThreshold)
          /\ info.state = IF info.failures >= FailureThreshold THEN "OPEN" ELSE old.state
          /\ info \in Info
      BY <3>1, CappedRange, BreakerAssumption DEF Tripped, Info, Expired
    <3>3. Consistent(info)
      BY <2>1, <3>1, <3>2, CappedRange DEF Consistent
    <3>4. streak'[n] = Capped(streak[n], FailureThreshold)
          /\ \A m \in Nodes \ {n} : streak'[m] = streak[m]
      BY <2>4 DEF RecordFailure, TypeOK
    <3>5. info.failures <= streak'[n]
      BY <2>1, <3>1, <3>2, <3>4 DEF Capped
    <3> QED BY <2>4, <3>2, <3>3, <3>4, <3>5, StoreKeepsInv DEF RecordFailure
  <2>5. ASSUME NEW n \in Nodes, RecordSuccess(n) PROVE Inv'
    <3> DEFINE info == Reset(GetBreaker(n))
    <3>1. info \in Info /\ info.failures = 0 /\ info.state = "CLOSED"
      BY <2>1, BreakerAssumption DEF Reset, Info
    <3>2. Consistent(info)
      BY <3>1, BreakerAssumption DEF Consistent
    <3>3. streak'[n] = 0 /\ \A m \in Nodes \ {n} : streak'[m] = streak[m]
      BY <2>5 DEF RecordSuccess, TypeOK
    <3> QED BY <2>5, <3>1, <3>2, <3>3, StoreKeepsInv DEF RecordSuccess
  <2>6. ASSUME Tick PROVE Inv'
    <3>1. Known' = Known /\ UNCHANGED streak
      BY <2>6 DEF Tick, Known
    <3>2. \A m \in Known : /\ breakers'[m].state = breakers[m].state
                         /\ breakers'[m].failures = breakers[m].failures
      BY <2>6 DEF Tick, TypeOK, Info
    <3> QED BY <3>1, <3>2 DEF Inv, ClosedIffBelow, NoFalseTrip
  <2>7. ASSUME UNCHANGED <<breakers, streak>> PROVE Inv'
    BY <2>7 DEF Inv, ClosedIffBelow, NoFalseTrip, Known
  <2> QED BY <2>2, <2>3, <2>4, <2>5, <2>6, <2>7 DEF Next, Answered, NoAnswer, vars
<1> QED BY <1>1, <1>2, TypeCorrect, PTL DEF Spec, Safe, Inv

(* A breaker is CLOSED exactly while it has counted fewer failures than the  *)
(* threshold (CircuitBreakerInterceptor.ts:52-74).                           *)
COROLLARY ClosedCorrect == Spec => []ClosedIffBelow
BY BreakerCorrect, PTL

-----------------------------------------------------------------------------
(* The table never holds more than MaxBreakers entries.                      *)
THEOREM TableCorrect == Spec => []TableBounded
<1> DEFINE Bounded == IsFiniteSet(Known) /\ TableBounded
<1>1. Init => Bounded
  BY FS_EmptySet, BreakerAssumption DEF Init, TableBounded, Known
<1>2. TypeOK /\ Bounded /\ [Next]_vars => Bounded'
  <2> SUFFICES ASSUME TypeOK, Bounded, [Next]_vars PROVE Bounded'
    OBVIOUS
  <2>1. ASSUME NEW n \in Nodes, NEW info, breakers' = Store(n, info) PROVE Bounded'
    <3>1. Known' = Kept(n) \cup {n}
      BY <2>1 DEF Store, Known
    <3>2. CASE n \in Known
      <4>1. Kept(n) \cup {n} = Known
        BY <3>2 DEF Kept
      <4> QED BY <3>1, <4>1 DEF TableBounded
    <3>3. CASE n \notin Known
      <4>1. IsFiniteSet(Kept(n)) /\ n \notin Kept(n)
        BY <3>3, FS_EmptySet DEF Kept
      <4>2. Cardinality(Kept(n)) \in Nat /\ Cardinality(Kept(n)) < MaxBreakers
        <5>1. Cardinality(Known) \in Nat /\ Cardinality({}) = 0
          BY FS_CardinalityType, FS_EmptySet
        <5> QED BY <3>3, <5>1, BreakerAssumption DEF Kept
      <4>3. IsFiniteSet(Kept(n) \cup {n})
            /\ Cardinality(Kept(n) \cup {n}) = Cardinality(Kept(n)) + 1
        BY <4>1, FS_AddElement
      <4>4. Cardinality(Kept(n) \cup {n}) <= MaxBreakers
        BY <4>2, <4>3, BreakerAssumption
      <4> QED BY <3>1, <4>3, <4>4 DEF TableBounded
    <3> QED BY <3>2, <3>3
  <2>2. ASSUME NEW n \in Nodes, Admit(n) \/ Probe(n) PROVE Bounded'
    BY <2>1, <2>2 DEF Admit, Probe
  <2>3. ASSUME NEW n \in Nodes, RecordFailure(n) \/ RecordSuccess(n) PROVE Bounded'
    BY <2>1, <2>3 DEF RecordFailure, RecordSuccess
  <2>4. ASSUME Known' = Known PROVE Bounded'
    BY <2>4 DEF TableBounded
  <2>5. CASE Tick
    BY <2>4, <2>5 DEF Tick, Known
  <2>6. ASSUME NEW n \in Nodes, NoAnswer(n) PROVE Bounded'
    BY <2>4, <2>6 DEF NoAnswer, Known
  <2>7. CASE UNCHANGED vars
    BY <2>4, <2>7 DEF vars, Known
  <2> QED BY <2>2, <2>3, <2>5, <2>6, <2>7 DEF Next, Answered
<1> QED BY <1>1, <1>2, TypeCorrect, PTL DEF Spec, Safe

-----------------------------------------------------------------------------
(* An OPEN breaker is left only when its timeout has passed, by an answer of *)
(* its own node, or with the whole table.                                    *)
THEOREM OpenCorrect == Spec => OpenStaysOpen
<1> DEFINE Step == \A n \in Known :
          breakers[n].state = "OPEN" /\ Reopened(n) =>
             \/ breakers[n].age > ResetTimeout
             \/ inFlight'[n] < inFlight[n]
             \/ Cardinality(Known) >= MaxBreakers /\ Cardinality(Known') = 1
<1>1. TypeOK /\ [Next]_vars => [Step]_vars
  <2> SUFFICES ASSUME TypeOK, Next, NEW n \in Known, breakers[n].state = "OPEN",
                      Reopened(n)
               PROVE  \/ breakers[n].age > ResetTimeout
                      \/ inFlight'[n] < inFlight[n]
                      \/ Cardinality(Known) >= MaxBreakers /\ Cardinality(Known') = 1
    OBVIOUS
  <2>0. n \in Nodes
    BY DEF TypeOK
  <2>1. ASSUME NEW m \in Nodes, NEW info, breakers' = Store(m, info), m # n
        PROVE  Cardinality(Known) >= MaxBreakers /\ Cardinality(Known') = 1
    <3>1. n \in Kept(m) => n \in Known' /\ breakers'[n] = breakers[n]
      BY <2>1 DEF Store, Known
    <3>2. Kept(m) = {} /\ Cardinality(Known) >= MaxBreakers
      BY <3>1 DEF Reopened, Kept
    <3>3. Known' = {m}
      BY <2>1, <3>2 DEF Store, Known
    <3> QED BY <3>2, <3>3, FS_Singleton
  <2>2. ASSUME NEW m \in Nodes, RecordFailure(m) \/ RecordSuccess(m), m = n
        PROVE  inFlight'[n] < inFlight[n]
    BY <2>0, <2>2 DEF RecordFailure, RecordSuccess, TypeOK
  <2>3. ASSUME NEW m \in Nodes, Probe(m), m = n PROVE breakers[n].age > ResetTimeout
    BY <2>3 DEF Probe, GetBreaker
  <2>4. ASSUME NEW m \in Nodes, Admit(m), m = n PROVE FALSE
    BY <2>4 DEF Admit, GetBreaker
  <2>5. ASSUME Known' = Known, breakers'[n].state = breakers[n].state PROVE FALSE
    BY <2>5 DEF Reopened
  <2>6. ASSUME NEW m \in Nodes, NoAnswer(m) PROVE FALSE
    BY <2>5, <2>6 DEF NoAnswer, Known
  <2>7. ASSUME Tick PROVE FALSE
    <3>1. Known' = Known /\ breakers'[n].state = breakers[n].state
      BY <2>7 DEF Tick, Known, TypeOK, Info
    <3> QED BY <2>5, <3>1
  <2>8. ASSUME NEW m \in Nodes, Admit(m) \/ Probe(m) \/ RecordFailure(m) \/ RecordSuccess(m),
               m # n
        PROVE  Cardinality(Known) >= MaxBreakers /\ Cardinality(Known') = 1
    BY <2>1, <2>8 DEF Admit, Probe, RecordFailure, RecordSuccess
  <2> QED BY <2>2, <2>3, <2>4, <2>6, <2>7, <2>8 DEF Next, Answered
<1> QED BY <1>1, TypeCorrect, PTL DEF Spec, Safe, OpenStaysOpen

=============================================================================
