----------------------------- MODULE RpcPromise -----------------------------
(***************************************************************************)
(* What a caller of WSTransport.call() is promised: a promise that settles *)
(* exactly once, that is resolved only by a peer that received the request *)
(* and that never stays open for ever.  It knows nothing of sockets,       *)
(* timers, correlation tables or draining.                                 *)
(***************************************************************************)
EXTENDS FiniteSets

CONSTANT Calls

VARIABLES promise,   \* the promise call() returned to its caller
          served     \* the calls whose request reached the remote node

pvars == <<promise, served>>

PromiseStates == {"idle", "open", "refused", "resolved", "rejected"}

Init == /\ promise = [c \in Calls |-> "idle"]
        /\ served = {}

Settled(c) == promise[c] \in {"refused", "resolved", "rejected"}

\* The call is accepted, or its send fails and it is refused at once.
Make(c) == /\ promise[c] = "idle"
           /\ \E s \in {"open", "refused"} : promise' = [promise EXCEPT ![c] = s]
           /\ UNCHANGED served

\* The request arrives.  The caller may have given up waiting by then, but
\* a call that was refused is never served.
Serve(c) == /\ promise[c] \notin {"idle", "refused"}
            /\ c \notin served
            /\ served' = served \cup {c}
            /\ UNCHANGED promise

Resolve(c) == /\ promise[c] = "open"
              /\ c \in served
              /\ promise' = [promise EXCEPT ![c] = "resolved"]
              /\ UNCHANGED served

Reject(c) == /\ promise[c] = "open"
             /\ promise' = [promise EXCEPT ![c] = "rejected"]
             /\ UNCHANGED served

Settle(c) == Resolve(c) \/ Reject(c)

Next == \E c \in Calls : Make(c) \/ Serve(c) \/ Settle(c)

Fairness == \A c \in Calls : WF_pvars(Settle(c))

Safe == Init /\ [][Next]_pvars

Spec == Safe /\ Fairness
=============================================================================
