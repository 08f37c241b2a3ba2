------------------------------- MODULE MilGraph -------------------------------
(***************************************************************************)
(* The graphs of the ANE runtime (graph/ops.rs) and what compile makes of  *)
(* one: a MIL program and a packed file of weights (graph/compile.rs,      *)
(* ops/mil.rs, ops/weights.rs).  Pure definitions.                         *)
(*                                                                         *)
(* A tensor is its index in shapes, a shape is <<batch, channels, height,  *)
(* width>>, a weight is the constant it was made from.  Every call returns *)
(* the graph with one tensor more, which New names.  Of the MIL text the   *)
(* model keeps, line by line, the name a line defines, the names it reads  *)
(* and the offset of the weights it refers to; the lines that define a     *)
(* literal (pads, strides, axes) are left out.                             *)
(***************************************************************************)
EXTENDS Integers, Sequences, FiniteSets, SequencesExt, FiniteSetsExt

Empty == [shapes |-> <<>>, inputs |-> <<>>, constants |-> {}, ops |-> <<>>]
New(g) == Len(g.shapes)
Tensors(g) == DOMAIN g.shapes
ShapeOf(g, x) == g.shapes[x]
Spatial(channels, height, width) == <<1, channels, height, width>>
Elements(shape) == shape[1] * shape[2] * shape[3] * shape[4]

-----------------------------------------------------------------------------
(* The shapes the builder computes.                                        *)

Less(a, b) == IF a > b THEN a - b ELSE 0
DivUp(a, b) == (a + b - 1) \div b
Larger(a, b) == IF a > b THEN a ELSE b

\* Variant for TypeOK: the number of steps instead of the number of places.
StepsOnly(source, kernel, pad) ==
  LET along(d) == IF pad = "valid" THEN Less(source[d], kernel[d]) ELSE source[d]
  IN <<1, kernel[2], along(3), along(4)>>

ConvShape(source, kernel, pad) ==
  LET along(d) == IF pad = "valid" THEN Less(source[d], kernel[d]) + 1 ELSE source[d]
  IN <<1, kernel[2], along(3), along(4)>>
DeconvShape(source, kernel, stride) == <<1, kernel[2], source[3] * stride, source[4] * stride>>
Broadcast(a, b) == [d \in 1 .. 4 |-> Larger(a[d], b[d])]
Concatenated(list, axis) ==
  LET sum[i \in DOMAIN list] == IF i = 1 THEN list[1][axis] ELSE sum[i - 1] + list[i][axis]
  IN [list[1] EXCEPT ![axis] = sum[Len(list)]]
Product(a, b, tx, ty) == <<a[1], a[2], IF tx THEN a[4] ELSE a[3], IF ty THEN b[3] ELSE b[4]>>
Permuted(shape, perm) == [d \in 1 .. 4 |-> shape[perm[d]]]
Pooled(shape, kernel, stride, pad) ==
  LET along(d) == IF pad = "valid" THEN Less(shape[d], kernel) \div stride + 1 ELSE DivUp(shape[d], stride)
  IN <<1, shape[2], along(3), along(4)>>
Padded(shape, by) == <<1, shape[2], shape[3] + 2 * by, shape[4] + 2 * by>>
Reduced(shape, axis) == [shape EXCEPT ![axis] = 1]
Flat(shape) == <<1, Elements(shape), 1, 1>>

-----------------------------------------------------------------------------
(* The calls of the builder.                                               *)

Alloc(g, shape) == [g EXCEPT !.shapes = Append(@, shape)]
Placeholder(g, shape) == [Alloc(g, shape) EXCEPT !.inputs = Append(@, New(g) + 1)]
Constant(g, shape) == [Alloc(g, shape) EXCEPT !.constants = @ \cup {New(g) + 1}]

Push(g, kind, bottoms, blobs, shape) ==
  [Alloc(g, shape) EXCEPT
     !.ops = Append(@, [kind |-> kind, top |-> New(g) + 1, bottoms |-> bottoms, blobs |-> blobs])]

Convolution(g, x, w, bias, pad) ==
  Push(g, "conv", <<x>>, <<w>> \o bias, ConvShape(ShapeOf(g, x), ShapeOf(g, w), pad))
Deconvolution(g, x, w, bias, stride) ==
  Push(g, "deconv", <<x>>, <<w>> \o bias, DeconvShape(ShapeOf(g, x), ShapeOf(g, w), stride))
Activation(g, x, mode) == Push(g, mode, <<x>>, <<>>, ShapeOf(g, x))
Binary(g, x, y) == Push(g, "elementwise", <<x, y>>, <<>>, Broadcast(ShapeOf(g, x), ShapeOf(g, y)))
Unary(g, x) == Push(g, "elementwise", <<x>>, <<>>, ShapeOf(g, x))
SoftMax(g, x) == Push(g, "softmax", <<x>>, <<>>, ShapeOf(g, x))
Concat(g, list, axis) ==
  Push(g, "concat", list, <<>>, Concatenated([i \in DOMAIN list |-> ShapeOf(g, list[i])], axis))
MatMul(g, x, y, tx, ty) == Push(g, "matmul", <<x, y>>, <<>>, Product(ShapeOf(g, x), ShapeOf(g, y), tx, ty))
Transpose(g, x, perm) == Push(g, "transpose", <<x>>, <<>>, Permuted(ShapeOf(g, x), perm))
Slice(g, x, size) == Push(g, "slice", <<x>>, <<>>, size)
Reshape(g, x, target) == Push(g, "reshape", <<x>>, <<>>, target)
Flatten(g, x) == Push(g, "flatten", <<x>>, <<>>, Flat(ShapeOf(g, x)))
Pool(g, x, kernel, stride, pad) == Push(g, "pool", <<x>>, <<>>, Pooled(ShapeOf(g, x), kernel, stride, pad))
GlobalPool(g, x) == Push(g, "pool", <<x>>, <<>>, <<1, ShapeOf(g, x)[2], 1, 1>>)
Pad(g, x, by) == Push(g, "pad", <<x>>, <<>>, Padded(ShapeOf(g, x), by))
Reduce(g, x, axis) == Push(g, "reduce", <<x>>, <<>>, Reduced(ShapeOf(g, x), axis))
InstanceNorm(g, x, params) == Push(g, "instance_norm", <<x>>, <<params>>, ShapeOf(g, x))

-----------------------------------------------------------------------------
(* From the graph to the list of operations: every constant some operation *)
(* reads as a tensor becomes an operation of its own, before the others,   *)
(* in the order a hash map yields them; a constant that is only the weight *)
(* of a convolution is carried by the convolution.                         *)

BottomsOf(list) == UNION {ToSet(list[i].bottoms) : i \in DOMAIN list}
TopsOf(list) == {list[i].top : i \in DOMAIN list}
ConstantOp(c) == [kind |-> "constant", top |-> c, bottoms |-> <<>>, blobs |-> <<c>>]
\* Variant for DefinedBeforeUse: the constants come after the operations.
ConstantsLast(g, order) == g.ops \o [i \in DOMAIN order |-> ConstantOp(order[i])]
OpList(g, order) == [i \in DOMAIN order |-> ConstantOp(order[i])] \o g.ops
UsedConstants(g) == g.constants \cap BottomsOf(g.ops)

(* The numbers of a set from the least on, and what a list has there.      *)
Ascending(places) ==
  [k \in 1 .. Cardinality(places) |-> CHOOSE n \in places : Cardinality({m \in places : m < n}) = k - 1]
At(list, places) == [k \in DOMAIN Ascending(places) |-> list[Ascending(places)[k]]]

(* The names of a program's parameters and results, each once.             *)
InputNames(list) ==
  LET read == FlattenSeq([i \in DOMAIN list |-> list[i].bottoms])
  IN At(read, {i \in DOMAIN read : read[i] \notin TopsOf(list) /\ \A j \in 1 .. i - 1 : read[j] # read[i]})
OutputNames(list) ==
  At([i \in DOMAIN list |-> list[i].top], {i \in DOMAIN list : list[i].top \notin BottomsOf(list)})

(* The weights in the order of the operations, and where they go: a header *)
(* for the file, then for each weight a header and its fp16 bytes.         *)
Header == 64
Weights(list) == FlattenSeq([i \in DOMAIN list |-> list[i].blobs])
Size(g, c) == 2 * Elements(ShapeOf(g, c))
\* Variant for WeightsAreTheirOwn: the headers of the weights before it are forgotten.
PackedOffset(g, blobs, i) ==
  LET at[k \in 1 .. i] == IF k = 1 THEN Header ELSE at[k - 1] + Size(g, blobs[k - 1]) IN at[i]
ChunkOffset(g, blobs, i) ==
  LET at[k \in 1 .. i] == IF k = 1 THEN Header ELSE at[k - 1] + Header + Size(g, blobs[k - 1]) IN at[i]
Chunks(g, blobs) ==
  LET cursor[k \in DOMAIN blobs] == IF k = 1 THEN Header ELSE cursor[k - 1] + Header + Size(g, blobs[k - 1])
  IN [k \in DOMAIN blobs |->
       [at |-> cursor[k], data |-> cursor[k] + Header, size |-> Size(g, blobs[k]), of |-> blobs[k]]]

-----------------------------------------------------------------------------
(* The lines of the program.                                               *)

F16(t) == <<"f16", t>>
F32(t) == <<"t", t>>
Line(name, reads) == [defines |-> name, reads |-> reads, offset |-> 0]
WeightLine(name, offset) == [defines |-> name, reads |-> {}, offset |-> offset]
Reads(op) == {F16(op.bottoms[i]) : i \in DOMAIN op.bottoms}

ConvLines(op, at) ==
  LET kernel == WeightLine(<<"W", op.top>>, at[1])
      result(more) == Line(F16(op.top), Reads(op) \cup {<<"W", op.top>>} \cup more)
  IN IF Len(op.blobs) = 1 THEN <<kernel, result({})>>
     ELSE <<kernel, WeightLine(<<"b", op.top>>, at[2]), result({<<"b", op.top>>})>>
DeconvLines(op, at) ==
  LET kernel == WeightLine(<<"W", op.top>>, at[1])
      result(name) == Line(name, Reads(op) \cup {<<"W", op.top>>})
      plain == <<"deconv_out", op.top>>
  IN IF Len(op.blobs) = 1 THEN <<kernel, result(F16(op.top))>>
     ELSE <<kernel, result(plain), WeightLine(<<"b", op.top>>, at[2]), Line(F16(op.top), {plain, <<"b", op.top>>})>>
HardLines(op) == <<Line(<<"linear", op.top>>, Reads(op)), Line(F16(op.top), {<<"linear", op.top>>})>>
NormLines(op, at) == <<WeightLine(<<"gamma", op.top>>, at[1]), Line(F16(op.top), Reads(op) \cup {<<"gamma", op.top>>})>>
PlainLines(op) == <<Line(F16(op.top), Reads(op))>>

LinesOf(op, at) ==
  CASE op.kind = "constant"      -> <<WeightLine(F16(op.top), at[1])>>
    [] op.kind = "conv"          -> ConvLines(op, at)
    [] op.kind = "deconv"        -> DeconvLines(op, at)
    [] op.kind = "hard_sigmoid"  -> HardLines(op)
    [] op.kind = "instance_norm" -> NormLines(op, at)
    [] OTHER                     -> PlainLines(op)

(* How far emit_layer moves the index of the next weight.                  *)
Advance(op) ==
  CASE op.kind \in {"constant", "instance_norm"} -> 1
    [] op.kind \in {"conv", "deconv"}            -> Len(op.blobs)
    [] OTHER                                     -> 0

Body(g, list) ==
  LET blobs == Weights(list)
      blob[i \in DOMAIN list] == IF i = 1 THEN 0 ELSE blob[i - 1] + Advance(list[i - 1])
      offsets(i) == [k \in 1 .. Advance(list[i]) |-> ChunkOffset(g, blobs, blob[i] + k)]
  IN FlattenSeq([i \in DOMAIN list |-> LinesOf(list[i], offsets(i))])

Emitted(g, list) ==
  LET in == InputNames(list)
      out == OutputNames(list)
  IN [signature |-> in, results |-> out, weights |-> Chunks(g, Weights(list)),
      text |-> [i \in DOMAIN in |-> Line(F16(in[i]), {F32(in[i])})]
                 \o Body(g, list)
                 \o [i \in DOMAIN out |-> Line(F32(out[i]), {F16(out[i])})]]
=============================================================================
