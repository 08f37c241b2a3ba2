-------------------------- MODULE MCPeerHeartbeat ---------------------------
(* PeerHeartbeat on small sets, with the two hostfile formats in use.      *)
EXTENDS PeerHeartbeat

CONSTANTS p1, p2

OneHostfile  == {[format |-> "array", hosts |-> <<p1>>]}
TwoHostfiles == {[format |-> "array", hosts |-> <<p1>>], [format |-> "array", hosts |-> <<p1, p2>>]}
=============================================================================
