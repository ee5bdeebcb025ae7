---------------------------- MODULE FixedWindow ----------------------------
(***************************************************************************)
(* What the rate limiter decides, without its table: every sender has a    *)
(* quota that is granted anew when its window has passed.                  *)
(***************************************************************************)
EXTENDS Integers

CONSTANTS Keys, MaxPackets, Window

VARIABLES quota,    \* packets each sender may still send in its window
          left,     \* time left in that window, negative once it has passed
          recent    \* recent[k][a], packets accepted from k in the last a ticks

fvars == <<quota, left, recent>>

Ages == 0..Window

Init == /\ quota = [k \in Keys |-> MaxPackets]
        /\ left = [k \in Keys |-> -1]
        /\ recent = [k \in Keys |-> [a \in Ages |-> 0]]

Accept(k, q) == /\ q > 0
                /\ quota' = [quota EXCEPT ![k] = q - 1]
                /\ recent' = [recent EXCEPT ![k] = [a \in Ages |-> @[a] + 1]]

\* The first packet after a window opens the next one.
Open(k) == /\ left[k] < 0
           /\ left' = [left EXCEPT ![k] = Window]
           /\ Accept(k, MaxPackets)

\* A packet within the window: a packet in excess changes nothing.
Use(k) == /\ left[k] >= 0
          /\ UNCHANGED left
          /\ Accept(k, quota[k])

\* Time passes; the quota of a window that has passed is of no use.
Advance ==
    /\ left' = [k \in Keys |-> IF left[k] >= 0 THEN left[k] - 1 ELSE -1]
    /\ quota' = [k \in Keys |-> IF left[k] <= 0 THEN MaxPackets ELSE quota[k]]
    /\ recent' = [k \in Keys |-> [a \in Ages |-> IF a = 0 THEN 0 ELSE recent[k][a - 1]]]

Next == Advance \/ \E k \in Keys : Open(k) \/ Use(k)

Spec == Init /\ [][Next]_fvars
=============================================================================
