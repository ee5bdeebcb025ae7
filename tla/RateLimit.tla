----------------------------- MODULE RateLimit -----------------------------
(***************************************************************************)
(* The inbound rate limiter (src/src/interceptors/RateLimitInterceptor.ts):*)
(* its table of windows, one entry per tenant and sender, and the periodic *)
(* cleanup of the table.                                                   *)
(*                                                                         *)
(* resetAt is kept as the time left until it, negative once Date.now() is  *)
(* beyond it; count stops at MaxPackets + 1, beyond which no test tells    *)
(* two counts apart.                                                       *)
(***************************************************************************)
EXTENDS Integers

CONSTANTS Keys,        \* tenantID:senderNodeID
          MaxPackets,  \* MAX_PACKETS_PER_WINDOW
          Window       \* WINDOW_MS, in clock ticks

ASSUME RateAssumption == MaxPackets \in Nat \ {0} /\ Window \in Nat

VARIABLES rateLimits,  \* the Map from key to window
          cleaning,    \* the cleanup interval is set
          recent       \* history: recent[k][a], packets accepted from k in
                       \* the last a ticks

vars == <<rateLimits, cleaning, recent>>

Known == DOMAIN rateLimits

Ages == 0..Window

Info == [count : 1..(MaxPackets + 1), left : -1..Window]

Init == /\ rateLimits = [k \in {} |-> [count |-> 1, left |-> Window]]
        /\ cleaning = TRUE
        /\ recent = [k \in Keys |-> [a \in Ages |-> 0]]

-----------------------------------------------------------------------------
(* checkRateLimit *)

\* now > info.resetAt
Passed(k) == rateLimits[k].left < 0

NeedsWindow(k) == k \in Known => Passed(k)

Put(k, info) ==
    [j \in Known \cup {k} |-> IF j = k THEN info ELSE rateLimits[j]]

Accepted(k) == recent' = [recent EXCEPT ![k] = [a \in Ages |-> @[a] + 1]]

\* Mutant: the packet that starts a window is not counted.
Arrive_First_Zero(k) ==
    /\ NeedsWindow(k)
    /\ rateLimits' = Put(k, [count |-> 0, left |-> Window])
    /\ Accepted(k)
    /\ UNCHANGED cleaning

\* Mutant: a window that follows another one keeps its count.
Arrive_First_KeepsCount(k) ==
    /\ NeedsWindow(k)
    /\ rateLimits' = Put(k, [count |-> IF k \in Known THEN rateLimits[k].count ELSE 1,
                             left |-> Window])
    /\ Accepted(k)
    /\ UNCHANGED cleaning

\* A sender that is unknown, or whose window has passed, starts a window.
Arrive_First(k) ==
    /\ NeedsWindow(k)
    /\ rateLimits' = Put(k, [count |-> 1, left |-> Window])
    /\ Accepted(k)
    /\ UNCHANGED cleaning

Counted(k) == [count |-> IF rateLimits[k].count <= MaxPackets
                         THEN rateLimits[k].count + 1 ELSE rateLimits[k].count,
               left |-> rateLimits[k].left]

\* Mutant: the window may take one packet too many.
WithinLimit_OffByOne(k) == rateLimits[k].count <= MaxPackets

\* The count after this packet does not exceed the maximum.
WithinLimit(k) == rateLimits[k].count < MaxPackets

Arrive_Within(k) ==
    /\ ~NeedsWindow(k)
    /\ WithinLimit(k)
    /\ rateLimits' = Put(k, Counted(k))
    /\ Accepted(k)
    /\ UNCHANGED cleaning

\* Mutant: a packet in excess prolongs the window.
Arrive_Excess_Prolongs(k) ==
    /\ ~NeedsWindow(k)
    /\ ~WithinLimit(k)
    /\ rateLimits' = Put(k, [Counted(k) EXCEPT !.left = Window])
    /\ UNCHANGED <<cleaning, recent>>

\* The packet becomes __dropped.
Arrive_Excess(k) ==
    /\ ~NeedsWindow(k)
    /\ ~WithinLimit(k)
    /\ rateLimits' = Put(k, Counted(k))
    /\ UNCHANGED <<cleaning, recent>>

-----------------------------------------------------------------------------
\* Mutant: cleanup forgets the windows that are about to pass as well.
Stale_Early == {k \in Known : rateLimits[k].left <= 0}

Stale == {k \in Known : Passed(k)}

\* The interval of five minutes, at any time relative to the windows.
Cleanup ==
    /\ cleaning
    /\ Stale # {}
    /\ rateLimits' = [k \in Known \ Stale |-> rateLimits[k]]
    /\ UNCHANGED <<cleaning, recent>>

\* stop() clears the interval; nothing sets it again, and packets may still
\* arrive.
Stop ==
    /\ cleaning
    /\ cleaning' = FALSE
    /\ UNCHANGED <<rateLimits, recent>>

Aged(k) == [count |-> rateLimits[k].count,
            left |-> IF Passed(k) THEN rateLimits[k].left ELSE rateLimits[k].left - 1]

\* Date.now() advances.
Tick ==
    /\ rateLimits' = [k \in Known |-> Aged(k)]
    /\ recent' = [k \in Keys |->
                    [a \in Ages |-> IF a = 0 THEN 0 ELSE recent[k][a - 1]]]
    /\ UNCHANGED cleaning

Arrive(k) == Arrive_First(k) \/ Arrive_Within(k) \/ Arrive_Excess(k)

Next == \/ \E k \in Keys : Arrive(k)
        \/ Cleanup
        \/ Stop
        \/ Tick

\* The clock runs and the interval fires while it is set.
Spec == Init /\ [][Next]_vars /\ WF_vars(Tick) /\ WF_vars(Cleanup)

-----------------------------------------------------------------------------
(* Properties *)

\* The variables take the values the code gives them.
TypeOK == /\ Known \subseteq Keys
          /\ rateLimits \in [Known -> Info]
          /\ cleaning \in BOOLEAN
          /\ recent \in [Keys -> [Ages -> Nat]]

\* Whatever moment one looks at, the packets accepted from a sender during
\* one window length before it are at most twice the maximum: two adjacent
\* windows can be full (RateLimitInterceptor.ts:46-62).
AtMostTwice == \A k \in Keys : recent[k][Window] <= 2 * MaxPackets

\* Nobody is cut off early: a sender whose packets are being dropped has had
\* MaxPackets of them accepted within the last window length, although
\* cleanup and other senders change the table (RateLimitInterceptor.ts:46-74).
Blocked(k) == ~NeedsWindow(k) /\ ~WithinLimit(k)
DropsAreEarned == \A k \in Keys : Blocked(k) => recent[k][Window] >= MaxPackets

\* A sender that keeps sending is let in again: excess packets do not push
\* the end of its window back (RateLimitInterceptor.ts:50-59).
BlockedIsLetIn == \A k \in Keys : Blocked(k) ~> ~Blocked(k)

\* cleanup() is invisible: the limiter with its table, from which entries are
\* deleted at any time, accepts exactly the packets that FixedWindow accepts
\* (RateLimitInterceptor.ts:46-74).
Live(k) == k \in Known /\ ~Passed(k)
QuotaOf(k) == IF ~Live(k) THEN MaxPackets
              ELSE IF WithinLimit(k) THEN MaxPackets - rateLimits[k].count ELSE 0
LeftOf(k) == IF Live(k) THEN rateLimits[k].left ELSE -1
Windows == INSTANCE FixedWindow WITH quota <- [k \in Keys |-> QuotaOf(k)],
                                     left <- [k \in Keys |-> LeftOf(k)]
ImplementsFixedWindow == Windows!Spec

=============================================================================
