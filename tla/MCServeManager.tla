--------------------------- MODULE MCServeManager ---------------------------
(* ServeManager on small sets of model values. Process ids and load tasks  *)
(* are interchangeable; the safety runs use that, the liveness run cannot. *)
EXTENDS ServeManager, TLC

Symmetry == Permutations(Pid) \cup Permutations(Task)
=============================================================================
