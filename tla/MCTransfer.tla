------------------------------ MODULE MCTransfer ------------------------------
(* One model, which one machine has and the other is to get.               *)
EXTENDS Transfer

CONSTANTS n1, n2, m1

Ask(from, to, model, dir) == [from |-> from, to |-> to, model |-> model, direction |-> dir]
MCAsks == {Ask(n1, n2, m1, "send"), Ask(n1, n2, m1, "recv")}
MCStored == {<<n1, m1>>}
=============================================================================
