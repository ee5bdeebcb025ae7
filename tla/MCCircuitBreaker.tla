-------------------------- MODULE MCCircuitBreaker --------------------------
(* Three remote nodes and a table with room for two. *)
EXTENDS CircuitBreaker

CONSTANTS n1, n2, n3

MCNodes == {n1, n2, n3}
=============================================================================
