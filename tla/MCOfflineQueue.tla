--------------------------- MODULE MCOfflineQueue ---------------------------
(* Two lines to the node one call goes to, so that their sockets overlap and *)
(* their replays meet; the other call is for a node nobody connects to, so   *)
(* that a replay finds an entry that is not its own.                         *)
EXTENDS OfflineQueue, TLC

CONSTANTS c1, c2, p1, p2, l1, l2

MCCalls == {c1, c2}
MCPeers == {p1, p2}
MCDest == c1 :> p1 @@ c2 :> p2
MCLines == {l1, l2}
MCTo == l1 :> p1 @@ l2 :> p1
=============================================================================
