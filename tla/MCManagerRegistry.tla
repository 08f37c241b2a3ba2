-------------------------- MODULE MCManagerRegistry --------------------------
EXTENDS ManagerRegistry, TLC

CONSTANTS p1, p2, h1, h2

(* One slot for every request, those for one port for the port that has no *)
(* manager yet; and one that keeps a load of that port in its way.         *)
MCAsks == h1 :> {a \in Requests : a[2] # p1} @@ h2 :> {<<"load", p2>>}
=============================================================================
