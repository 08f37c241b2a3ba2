------------------------------ MODULE MilProgram ------------------------------
(***************************************************************************)
(* A user of the ANE runtime builds a graph, compiles it, runs it and      *)
(* drops it (graph/compile.rs, client.rs, executable.rs).  The graph is    *)
(* any small one, or a kernel of the two example programs.                 *)
(***************************************************************************)
EXTENDS AneKernels

CONSTANTS GivenShapes,                      \* the shapes placeholders and constants are given
          MinWidth,                         \* MIN_SPATIAL_WIDTH
          MaxInputs, MaxConstants, MaxOps   \* bounds of the graphs built

ASSUME MilAssumption ==
  /\ GivenShapes \subseteq [1 .. 4 -> Nat \ {0}]
  /\ {MinWidth, MaxInputs, MaxConstants, MaxOps} \subseteq Nat

VARIABLES graph,     \* what has been built
          status,    \* of the executable
          program,   \* what compile made of the graph
          given,     \* the surfaces of a run: the placeholders they are for, and their shapes
          taken      \* the shapes of the surfaces for its results

vars == <<graph, status, program, given, taken>>

NoProgram == [signature |-> <<>>, results |-> <<>>, text |-> <<>>, weights |-> <<>>]
InOrder(g) == [i \in DOMAIN g.inputs |-> [for |-> g.inputs[i], shape |-> ShapeOf(g, g.inputs[i])]]

Init ==
  /\ graph = Empty
  /\ status = "building"
  /\ program = NoProgram
  /\ given = <<>>
  /\ taken = <<>>

Declare(g) ==
  {Placeholder(g, s) : s \in IF Len(g.inputs) < MaxInputs THEN GivenShapes ELSE {}}
    \cup {Constant(g, s) : s \in IF Cardinality(g.constants) < MaxConstants THEN GivenShapes ELSE {}}

WithWeights(g) ==
  LET biases == {<<>>} \cup {<<b>> : b \in g.constants}
  IN (UNION {{Convolution(g, x, w, bias, "valid"), Convolution(g, x, w, bias, "same"), Deconvolution(g, x, w, bias, 2)}
               : x \in Tensors(g), w \in g.constants, bias \in biases})
       \cup {InstanceNorm(g, x, w) : x \in Tensors(g), w \in g.constants}

OfOne(g) ==
  UNION {{Activation(g, x, "activation"), Activation(g, x, "hard_sigmoid"), Unary(g, x), SoftMax(g, x), Flatten(g, x),
          Pool(g, x, 2, 2, "valid"), Pool(g, x, 2, 2, "same"), GlobalPool(g, x), Pad(g, x, 1), Reduce(g, x, 2),
          Transpose(g, x, <<1, 3, 4, 2>>), Slice(g, x, Scalar)}
           \cup {Reshape(g, x, s) : s \in GivenShapes} : x \in Tensors(g)}

OfTwo(g) ==
  UNION {{Binary(g, x, y), Concat(g, <<x, y>>, 2), Against(g, x, y)} : x \in Tensors(g), y \in Tensors(g)}

\* What builds a kernel compiles it: nothing is added to one.
Builds ==
  /\ status = "building" /\ given = <<>>
  /\ graph' \in Declare(graph) \cup (IF Len(graph.ops) < MaxOps THEN WithWeights(graph) \cup OfOne(graph) \cup OfTwo(graph) ELSE {})
  /\ UNCHANGED <<status, program, given, taken>>

(* A program builds one of its kernels; what it will pass to it is known.  *)
BuildsKernel ==
  /\ status = "building" /\ graph = Empty
  /\ \E k \in Kernels :
       /\ graph' = k.graph
       /\ given' = [i \in DOMAIN k.given |-> [for |-> k.graph.inputs[i], shape |-> k.given[i]]]
       /\ taken' = k.taken
  /\ UNCHANGED <<status, program>>

TooNarrow(g) == \E i \in DOMAIN g.inputs : ShapeOf(g, g.inputs[i])[4] < MinWidth

Refuses ==
  /\ status = "building" /\ TooNarrow(graph)
  /\ status' = "refused"
  /\ UNCHANGED <<graph, program, given, taken>>

(* The order of the constants is that of a hash map: all orders of a few,  *)
(* one of many.                                                            *)
Orders(set) == IF Cardinality(set) <= MaxConstants THEN SetToSeqs(set) ELSE {Ascending(set)}

Compiles ==
  /\ status = "building" /\ ~TooNarrow(graph) /\ graph.ops # <<>>
  /\ \E order \in Orders(UsedConstants(graph)) : program' = Emitted(graph, OpList(graph, order))
  /\ status' = "loaded"
  /\ UNCHANGED <<graph, given, taken>>

(* The framework is missing, or it rejects the program or cannot load it.  *)
CompileFails ==
  /\ status = "building" /\ ~TooNarrow(graph) /\ graph.ops # <<>>
  /\ status' = "failed"
  /\ UNCHANGED <<graph, program, given, taken>>

(* A user passes a surface for every placeholder in the order of the calls *)
(* and one for every result; the request numbers the surfaces and the      *)
(* program takes them by number.                                           *)
Runs ==
  /\ status = "loaded"
  /\ status' = "run"
  /\ IF given = <<>>
     THEN /\ given' = InOrder(graph)
          /\ taken' = [i \in DOMAIN program.results |-> ShapeOf(graph, program.results[i])]
     ELSE UNCHANGED <<given, taken>>
  /\ UNCHANGED <<graph, program>>

Unloads ==
  /\ status \in {"loaded", "run"}
  /\ status' = "unloaded"
  /\ UNCHANGED <<graph, program, given, taken>>

Next == Builds \/ BuildsKernel \/ Refuses \/ Compiles \/ CompileFails \/ Runs \/ Unloads

Spec == Init /\ [][Next]_vars

-----------------------------------------------------------------------------
(* Types: every dimension the builder computes is at least one, operations *)
(* read tensors made before them, constants are never placeholders.        *)
TypeOK ==
  /\ \A t \in Tensors(graph) : ShapeOf(graph, t) \in [1 .. 4 -> Nat \ {0}]
  /\ ToSet(graph.inputs) \cup graph.constants \cup TopsOf(graph.ops) = Tensors(graph)
  /\ ToSet(graph.inputs) \cap graph.constants = {}
  /\ \A op \in ToSet(graph.ops) : \A x \in ToSet(op.bottoms) \cup ToSet(op.blobs) : x < op.top
  /\ status \in {"building", "refused", "failed", "loaded", "run", "unloaded"}

(* What a line of the text refers to in the file of weights is the chunk   *)
(* of the very constant the builder was given for it, whatever operations  *)
(* with and without weights and biases come before and in whatever order   *)
(* the hash map yields the constants; and no two chunks overlap.           *)
GivenFor(name) ==
  IF name[1] = "f16" THEN name[2]
  ELSE LET op == CHOOSE op \in ToSet(graph.ops) : op.top = name[2] IN IF name[1] = "b" THEN op.blobs[2] ELSE op.blobs[1]
WeightsAreTheirOwn ==
  /\ \A l \in ToSet(program.text) : l.offset # 0 =>
        \E c \in ToSet(program.weights) : c.at = l.offset /\ c.of = GivenFor(l.defines)
  /\ \A c, d \in ToSet(program.weights) : c.at < d.at => c.data + c.size <= d.at

(* A program defines each name once and reads it only below, apart from    *)
(* its parameters; it gives every result it names.                         *)
DefinedBeforeUse ==
  LET text == program.text
      parameters == {F32(program.signature[i]) : i \in DOMAIN program.signature}
      above(i) == parameters \cup {text[j].defines : j \in 1 .. i - 1}
  IN /\ \A i \in DOMAIN text : text[i].defines \notin above(i) /\ text[i].reads \subseteq above(i)
     /\ \A i \in DOMAIN program.results : F32(program.results[i]) \in {text[j].defines : j \in DOMAIN text}
     /\ text # <<>> => program.results # <<>>

(* A run of a kernel passes as many surfaces as its program has parameters *)
(* and results: one for each parameter, each as large as the tensor.  Those *)
(* of GPT-2 and the projections and dense feed-forward parts of Qwen come  *)
(* in the order of the program's signature too.                            *)
Fits ==
  LET in == program.signature
      out == program.results
  IN /\ Len(given) = Len(in) /\ {given[i].for : i \in DOMAIN given} = ToSet(in)
     /\ \A i \in DOMAIN given : Elements(given[i].shape) = Elements(ShapeOf(graph, given[i].for))
     /\ Len(taken) = Len(out)
     /\ \A i \in DOMAIN out : Elements(taken[i]) = Elements(ShapeOf(graph, out[i]))
KernelsFit ==
  status = "run" =>
    /\ graph \in {k.graph : k \in Gpt2Kernels \cup QwenKernels \cup QwenAttentionKernels} => Fits
    /\ graph \in {k.graph : k \in Gpt2Kernels \cup QwenKernels} =>
         \A i \in DOMAIN program.signature : given[i].for = program.signature[i]
=============================================================================
