-------------------------- MODULE AtLeastOnceQueue --------------------------
(***************************************************************************)
(* What an offline queue promises of the requests it has taken: a request  *)
(* is let go of only once it has been sent to the node it is meant for.    *)
(* It may be sent any number of times.                                     *)
(***************************************************************************)
CONSTANT Calls

VARIABLES held,   \* requests in durable storage
          sent    \* requests that have been sent to their target

qvars == <<held, sent>>

Init == /\ held = {}
        /\ sent = {}

Hold(c) == /\ held' = held \cup {c}
           /\ UNCHANGED sent

\* Held requests are sent, several at once when a connection opens.
Forward(C) == /\ C \subseteq held
              /\ sent' = sent \cup C
              /\ UNCHANGED held

\* A request that needs no queue.
SendNow(c) == /\ sent' = sent \cup {c}
              /\ UNCHANGED held

Release(c) == /\ c \in held => c \in sent
              /\ held' = held \ {c}
              /\ UNCHANGED sent

Next == \/ \E c \in Calls : Hold(c) \/ SendNow(c) \/ Release(c)
        \/ \E C \in SUBSET Calls : Forward(C)

Spec == Init /\ [][Next]_qvars
=============================================================================
