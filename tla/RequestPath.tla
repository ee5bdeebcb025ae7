---------------------------- MODULE RequestPath ----------------------------
(***************************************************************************)
(* One request after the other on its way across the mesh, without its     *)
(* packets: sent to its first hop, handed on once if it is meant for       *)
(* another node, and then executed there or lost.  A request that is over  *)
(* stays over: nothing that was lost is executed later, and nothing that   *)
(* was executed is under way again.                                        *)
(***************************************************************************)
EXTENDS Naturals

CONSTANTS Requests, Nodes, NoNode, Routes, NoRoute

VARIABLES route,  \* the route of each request that was sent
          stage,  \* new, to the first hop, to the final node, executed, lost
          runs    \* runs[r][n]: how often node n has executed request r

pvars == <<route, stage, runs>>

Init == /\ route = [r \in Requests |-> NoRoute]
        /\ stage = [r \in Requests |-> "new"]
        /\ runs = [r \in Requests |-> [n \in Nodes |-> 0]]

\* The request is meant for the node it is sent to.
IsDirect(r) == route[r].final \in {NoNode, route[r].to}

Send(r, e) == /\ stage[r] = "new"
              /\ route' = [route EXCEPT ![r] = e]
              /\ stage' = [stage EXCEPT ![r] = "hop"]
              /\ UNCHANGED runs

Forward(r) == /\ stage[r] = "hop"
              /\ ~IsDirect(r)
              /\ stage' = [stage EXCEPT ![r] = "final"]
              /\ UNCHANGED <<route, runs>>

\* Only where it has arrived.
ExecuteAt(r, n) == /\ \/ stage[r] = "hop" /\ IsDirect(r) /\ n = route[r].to
                      \/ stage[r] = "final" /\ n = route[r].final
                   /\ stage' = [stage EXCEPT ![r] = "executed"]
                   /\ runs' = [runs EXCEPT ![r][n] = @ + 1]
                   /\ UNCHANGED route

\* Packets are dropped one by one, or with the connection they travel on.
Lose(lost) == /\ \A r \in lost : stage[r] \in {"hop", "final"}
              /\ stage' = [r \in Requests |-> IF r \in lost THEN "lost" ELSE stage[r]]
              /\ UNCHANGED <<route, runs>>

Next == \/ \E r \in Requests : \/ \E e \in Routes : Send(r, e)
                               \/ Forward(r)
                               \/ \E n \in Nodes : ExecuteAt(r, n)
        \/ \E lost \in SUBSET Requests : Lose(lost)

Spec == Init /\ [][Next]_pvars
=============================================================================
