------------------------- MODULE MCWSTransportPeers -------------------------
(* Two nodes: one with two outbound lines, one with a line of its own, and   *)
(* two inbound sockets that may give the id of either, so that four sockets  *)
(* compete for an entry and a socket may hold two.                           *)
EXTENDS WSTransportPeers, TLC

CONSTANTS p1, p2, l1, l2, l3, i1, i2

MCPeers == {p1, p2}
MCLines == {l1, l2, l3}
MCInbound == {i1, i2}
MCRemote == l1 :> p1 @@ l2 :> p1 @@ l3 :> p2
=============================================================================
