----------------------------- MODULE MCMeshNode -----------------------------
(* A TCP and another transport, two callers of stop(), one TCP client, a     *)
(* node, that sends a response and a challenge, or a ping and a response.    *)
EXTENDS MeshNode, TLC

CONSTANTS c1, self, n1, module, plugin

MCResponse == <<Text, Text>>
Challenge == <<Text, Text, Text>>
MCIgnored == {Challenge}
Handshake == <<AUTH, 2>> \o MCResponse
MCStreams == {Handshake \o <<AUTH, 3>> \o Challenge, <<PING, 0>> \o Handshake}

ASSUME NodeStreams == ClientsAreNodes

MCInbound == {[kind |-> "announce", from |-> n1],
              [kind |-> "ping", from |-> n1],
              [kind |-> "pex", list |-> {n1, self}]}
=============================================================================
