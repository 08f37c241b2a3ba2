--------------------------- MODULE MCShareSession ---------------------------
(* ShareSession with two machines: the hub has rank 0, or the other one.   *)
EXTENDS ShareSession, TLC

CONSTANTS hub, n1

HubFirst  == {<<hub, n1>>}
EitherWay == {<<hub, n1>>, <<n1, hub>>}

Symmetry == Permutations(Pid) \cup Permutations(Session)
=============================================================================
