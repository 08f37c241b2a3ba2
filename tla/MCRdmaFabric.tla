----------------------------- MODULE MCRdmaFabric -----------------------------
(* Three machines, all cabled to each other. One cable may be put elsewhere.*)
EXTENDS RdmaFabric

Nodes    == 1..3
Ports    == {<<1, 3>>, <<1, 4>>, <<2, 3>>, <<2, 4>>, <<3, 3>>, <<3, 4>>}
InPlace  == {<<<<1, 3>>, <<2, 3>>>>, <<<<1, 4>>, <<3, 3>>>>, <<<<2, 4>>, <<3, 4>>>>}
Cables   == InPlace \cup {<<<<1, 4>>, <<3, 4>>>>}
NodeList == [n \in Nodes |-> IF n = 1 THEN <<1, 2, 3>> ELSE <<3, 1, 2>>]
Fixed    == [p \in Ports |-> CASE p = <<1, 3>> -> 1 [] p = <<2, 3>> -> 2
                               [] p = <<1, 4>> -> 5 [] p = <<3, 3>> -> 6
                               [] p = <<2, 4>> -> 9 [] p = <<3, 4>> -> 10]
PowerCut == SUBSET Nodes
Updates  == {{1}, {3}, {2, 3}}
NoList   == {<<>>}
FromTui  == {<<<<1, 3>>, 2>>}
IpsKnown == [n \in Nodes |-> {<<2, 2>>}]

ASSUME Kept == WellKept

(* A bound: what follows a scan of the topology by the hub is looked at as *)
(* long as no machine is at its setup.                                     *)
OneAtATime == hash = None \/ \A n \in Node : setup[n].at = "idle"
=============================================================================
