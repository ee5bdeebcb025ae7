-------------------------- MODULE MCWSTransportRpc --------------------------
(* Two calls to the same remote node, so that they share its socket. *)
EXTENDS WSTransportRpc, TLC

CONSTANTS c1, c2, p1

MCCalls == {c1, c2}
MCPeers == {p1}
MCDest == c1 :> p1 @@ c2 :> p1
=============================================================================
