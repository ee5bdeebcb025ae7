--------------------------- MODULE CircuitBreaker ---------------------------
(***************************************************************************)
(* The table of circuit breakers of one node                               *)
(* (src/src/interceptors/CircuitBreakerInterceptor.ts), driven as          *)
(* MeshNetwork drives it: onOutbound for a packet that carries a           *)
(* targetNodeID, recordFailure and recordSuccess for the RESPONSE_ERROR    *)
(* and RESPONSE packets that come back (src/src/core/MeshNetwork.ts).      *)
(*                                                                         *)
(* lastFailureTime is kept as the age of the last failure, which no test   *)
(* tells apart beyond ResetTimeout + 1; failures is only compared with the *)
(* threshold and stops counting there.                                     *)
(***************************************************************************)
EXTENDS Naturals, FiniteSets

CONSTANTS Nodes,             \* remote nodes
          FailureThreshold,  \* FAILURE_THRESHOLD
          ResetTimeout,      \* RESET_TIMEOUT, in clock ticks
          MaxBreakers,       \* MAX_BREAKERS
          MaxInFlight        \* bound: unanswered requests to one node

ASSUME BreakerAssumption == /\ FailureThreshold \in Nat \ {0}
                            /\ ResetTimeout \in Nat
                            /\ MaxBreakers \in Nat \ {0}
                            /\ MaxInFlight \in Nat

VARIABLES breakers,  \* the Map from node id to breaker
          inFlight,  \* requests sent to each node and not answered yet
          streak     \* history: failures of a node since its last success

vars == <<breakers, inFlight, streak>>

Known == DOMAIN breakers

Capped(i, max) == IF i < max THEN i + 1 ELSE max

Expired == ResetTimeout + 1

Info == [state : {"CLOSED", "OPEN", "HALF_OPEN"},
         failures : 0..FailureThreshold,
         age : 0..Expired]

\* lastFailureTime is 0: long ago.
Fresh == [state |-> "CLOSED", failures |-> 0, age |-> Expired]

Init == /\ breakers = [n \in {} |-> Fresh]
        /\ inFlight = [n \in Nodes |-> 0]
        /\ streak = [n \in Nodes |-> 0]

-----------------------------------------------------------------------------
\* Mutant: the size of the table is not looked at.
Kept_Unbounded(n) == Known

\* The breakers that survive a lookup of n: a new entry in a full table
\* drops all the others.
Kept(n) == IF n \notin Known /\ Cardinality(Known) >= MaxBreakers
           THEN {} ELSE Known

GetBreaker(n) == IF n \in Known THEN breakers[n] ELSE Fresh

\* The table after the breaker of n, looked up or created, becomes info.
Store(n, info) == [m \in Kept(n) \cup {n} |-> IF m = n THEN info ELSE breakers[m]]

\* onOutbound lets the packet through: the breaker is not OPEN.
Admit(n) ==
    /\ inFlight[n] < MaxInFlight
    /\ GetBreaker(n).state # "OPEN"
    /\ breakers' = Store(n, GetBreaker(n))
    /\ inFlight' = [inFlight EXCEPT ![n] = @ + 1]
    /\ UNCHANGED streak

\* Mutant: the age of the last failure is not looked at.
Probe_Early(n) ==
    /\ inFlight[n] < MaxInFlight
    /\ GetBreaker(n).state = "OPEN"
    /\ breakers' = Store(n, [GetBreaker(n) EXCEPT !.state = "HALF_OPEN"])
    /\ inFlight' = [inFlight EXCEPT ![n] = @ + 1]
    /\ UNCHANGED streak

\* Mutant: the timeout is never found to have passed.
Probe_Never(n) ==
    /\ inFlight[n] < MaxInFlight
    /\ GetBreaker(n).state = "OPEN"
    /\ GetBreaker(n).age > Expired
    /\ breakers' = Store(n, [GetBreaker(n) EXCEPT !.state = "HALF_OPEN"])
    /\ inFlight' = [inFlight EXCEPT ![n] = @ + 1]
    /\ UNCHANGED streak

\* onOutbound finds an OPEN breaker whose last failure is old enough.  Up to
\* then the packet is replaced by __circuit_open, send() throws and no state
\* changes.
Probe(n) ==
    /\ inFlight[n] < MaxInFlight
    /\ GetBreaker(n).state = "OPEN"
    /\ GetBreaker(n).age > ResetTimeout
    /\ breakers' = Store(n, [GetBreaker(n) EXCEPT !.state = "HALF_OPEN"])
    /\ inFlight' = [inFlight EXCEPT ![n] = @ + 1]
    /\ UNCHANGED streak

\* Mutant: one failure more than the threshold is needed.
Tripped_OffByOne(info) ==
    LET f == Capped(info.failures, FailureThreshold)
    IN  [state |-> IF f > FailureThreshold THEN "OPEN" ELSE info.state,
         failures |-> f, age |-> 0]

\* A breaker after one more failure.
Tripped(info) ==
    LET f == Capped(info.failures, FailureThreshold)
    IN  [state |-> IF f >= FailureThreshold THEN "OPEN" ELSE info.state,
         failures |-> f, age |-> 0]

RecordFailure(n) ==
    /\ inFlight[n] > 0
    /\ breakers' = Store(n, Tripped(GetBreaker(n)))
    /\ inFlight' = [inFlight EXCEPT ![n] = @ - 1]
    /\ streak' = [streak EXCEPT ![n] = Capped(@, FailureThreshold)]

\* Mutant: a success closes the breaker and keeps its count.
Reset_KeepsCount(info) == [info EXCEPT !.state = "CLOSED"]

\* Mutant: a success takes one failure back instead of all of them.
Reset_TakesOneBack(info) == [info EXCEPT !.state = "CLOSED", !.failures = @ - 1]

\* A breaker after a success; lastFailureTime is left alone.
Reset(info) == [state |-> "CLOSED", failures |-> 0, age |-> info.age]

RecordSuccess(n) ==
    /\ inFlight[n] > 0
    /\ breakers' = Store(n, Reset(GetBreaker(n)))
    /\ inFlight' = [inFlight EXCEPT ![n] = @ - 1]
    /\ streak' = [streak EXCEPT ![n] = 0]

\* No answer comes: the breaker is not told of timeouts and lost packets.
NoAnswer(n) ==
    /\ inFlight[n] > 0
    /\ inFlight' = [inFlight EXCEPT ![n] = @ - 1]
    /\ UNCHANGED <<breakers, streak>>

\* Date.now() advances.
Tick ==
    /\ \E n \in Known : breakers[n].age < Expired
    /\ breakers' = [n \in Known |-> [breakers[n] EXCEPT !.age = Capped(@, Expired)]]
    /\ UNCHANGED <<inFlight, streak>>

Answered(n) == RecordFailure(n) \/ RecordSuccess(n) \/ NoAnswer(n)

Next == \/ \E n \in Nodes : Admit(n) \/ Probe(n) \/ Answered(n)
        \/ Tick

\* The clock runs, a request is answered or lost at some time, and somebody
\* keeps sending to each node: without traffic no breaker is looked at.
Fairness == /\ WF_vars(Tick)
            /\ \A n \in Nodes : WF_vars(Answered(n)) /\ WF_vars(Probe(n))

Safe == Init /\ [][Next]_vars

Spec == Safe /\ Fairness

-----------------------------------------------------------------------------
(* Properties *)

\* The variables take the values the code gives them.
TypeOK == /\ Known \subseteq Nodes
          /\ breakers \in [Known -> Info]
          /\ inFlight \in [Nodes -> 0..MaxInFlight]
          /\ streak \in [Nodes -> 0..FailureThreshold]

\* A breaker sheds or probes exactly while its count is at the threshold:
\* recordFailure, recordSuccess and the expiry in onOutbound write the state
\* and the count in different places (CircuitBreakerInterceptor.ts:33-34,
\* 52-64 and 70-74) and none of them may leave the two apart.
ClosedIffBelow == \A n \in Known : breakers[n].state = "CLOSED"
                                   <=> breakers[n].failures < FailureThreshold

\* No false alarm: the count of a breaker never exceeds the failures of its
\* own node since that node last answered well, however the answers of other
\* nodes interleave and whenever the full table was dropped
\* (CircuitBreakerInterceptor.ts:52-55, 70-74 and 76-85).
NoFalseTrip == \A n \in Known : breakers[n].failures <= streak[n]

\* The table is bounded, whichever of the three entry points adds to it
\* (CircuitBreakerInterceptor.ts:76-86).
TableBounded == Cardinality(Known) <= MaxBreakers

\* A tripped breaker stays OPEN until its timeout has passed, unless its own
\* node answers well or a full table is dropped; what happens to other nodes
\* does not close it (CircuitBreakerInterceptor.ts:31-34 and 70-86).
Reopened(n) == n \notin Known' \/ breakers'[n].state # "OPEN"
OpenStaysOpen ==
    [][\A n \in Known :
          breakers[n].state = "OPEN" /\ Reopened(n) =>
             \/ breakers[n].age > ResetTimeout
             \/ inFlight'[n] < inFlight[n]
             \/ Cardinality(Known) >= MaxBreakers /\ Cardinality(Known') = 1]_vars

\* No node is cut off for ever: an OPEN breaker is left again even though
\* late failures keep pushing its expiry back, because an OPEN breaker lets
\* no new request out (CircuitBreakerInterceptor.ts:31-44 and 52-55).
IsOpen(n) == n \in Known /\ breakers[n].state = "OPEN"
OpenIsLeft == \A n \in Nodes : IsOpen(n) ~> ~IsOpen(n)

=============================================================================
