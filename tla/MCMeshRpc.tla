----------------------------- MODULE MCMeshRpc -----------------------------
(* An origin, a hub and a worker.  The origin addresses the hub, and the     *)
(* worker through the hub with several values of ttl, and itself.            *)
EXTENDS MeshRpc, TLC

CONSTANTS o, h, w, r1, r2

To(final, ttl) == [origin |-> o, to |-> h, final |-> final, ttl |-> ttl]

MCNodes == {o, h, w}
MCRequests == {r1, r2}
Symmetry == Permutations(MCRequests)
Direct == {To(NoNode, 0)}
Ends == {o, w}
MCRoutes == {To(NoNode, 0), To(w, 0), To(w, 1), To(o, 0)}
HubWorker == [n \in MCNodes |-> IF n = h THEN w ELSE NoNode]
=============================================================================
