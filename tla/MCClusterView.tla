----------------------------- MODULE MCClusterView -----------------------------
EXTENDS ClusterView, TLC

CONSTANTS h, w, hub1, work1, work2, ip

MCParent  == [n \in Name |-> IF n = work2 THEN work1 ELSE None]
MCCalled  == h :> <<hub1>> @@ w :> <<work1, work2>>
MCAddress == h :> None @@ w :> ip
=============================================================================
