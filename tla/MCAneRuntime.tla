----------------------------- MODULE MCAneRuntime -----------------------------
(* The graph builder on two shapes, one of them too narrow for the ANE,    *)
(* and sessions of four layers on a cache of eleven columns.               *)
EXTENDS AneRuntime

SmallShapes == {<<1, 2, 1, 2>>, <<1, 1, 2, 1>>}
Lengths == 0 .. 12

(* A bound: tensors are declared before they are used, placeholders before *)
(* constants, large constants before small ones.  The order matters to the *)
(* names of tensors only.                                                  *)
DeclaredFirst ==
  given # <<>> \/ LET declared == ToSet(graph.inputs) \cup graph.constants
                      size(t) == Elements(ShapeOf(graph, t))
                  IN /\ \A i \in ToSet(graph.inputs), c \in graph.constants : i < c
                     /\ \A c, d \in graph.constants : c < d => size(c) >= size(d)
                     /\ \A op \in TopsOf(graph.ops), t \in declared : t < op
=============================================================================
