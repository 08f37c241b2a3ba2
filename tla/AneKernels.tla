------------------------------ MODULE AneKernels ------------------------------
(***************************************************************************)
(* The graphs the two example programs compile for the ANE                 *)
(* (gpt2_forward/executables.rs, qwen_forward/executables.rs) and the      *)
(* surfaces their sessions pass when they run them (session.rs).           *)
(*                                                                         *)
(* A kernel is made by the calls of the source, one within the other; a    *)
(* step works on the newest tensor unless a tensor is named, by its number *)
(* or by how far it is back.  A constant is declared where it is used, and *)
(* once for each use.  The dimensions of the two models are the same small *)
(* numbers.                                                                *)
(***************************************************************************)
EXTENDS MilGraph

CONSTANTS Hidden, Heads, HeadDim, KvHeads, Intermediate,   \* of the models
          PromptWidth,   \* length of the padded prompt
          DecodeWidth,   \* DECODE_SPATIAL_WIDTH
          MaxSeq         \* MAX_SEQUENCE_LENGTH

ASSUME KernelAssumption ==
  /\ {Hidden, Heads, HeadDim, KvHeads, Intermediate, PromptWidth, DecodeWidth, MaxSeq} \subseteq Nat \ {0}

QkFlat == Heads * HeadDim
QDim == 2 * QkFlat
KvDim == KvHeads * HeadDim
Scalar == <<1, 1, 1, 1>>
PerChannel(n) == <<1, n, 1, 1>>
SwapHW == <<1, 2, 4, 3>>

(* A placeholder of each shape, one after the other.                      *)
Inputs(shapes) == [Empty EXCEPT !.shapes = shapes, !.inputs = [i \in DOMAIN shapes |-> i]]

(* x op newest, newest op x.                                               *)
With(g, x) == Binary(g, x, New(g))
Into(g, x) == Binary(g, New(g), x)
(* x op constant of the given shape, and constant op x; likewise newest.   *)
WithConstant(g, x, shape) == With(Constant(g, shape), x)
Scaled(g, shape) == WithConstant(g, New(g), shape)
Conv1x1(g, x, channels) ==
  LET by(c) == Convolution(c, x, New(c), <<>>, "valid") IN by(Constant(g, Spatial(channels, 1, 1)))
Dense(g, channels) == Conv1x1(g, New(g), channels)
ConvBias(g, x, channels) == Scaled(Conv1x1(g, x, channels), PerChannel(channels))
Projected(g, channels) == ConvBias(g, New(g), channels)
Reshaped(g, target) == Reshape(g, New(g), target)
Turned(g) == Transpose(g, New(g), SwapHW)
Activated(g) == Activation(g, New(g), "activation")
(* x times y, and times y with its last two dimensions exchanged.          *)
Multiplied(g, x, y) == MatMul(g, x, y, FALSE, FALSE)
Against(g, x, y) == MatMul(g, x, y, FALSE, TRUE)

-----------------------------------------------------------------------------
(* Normalisations and activations.                                         *)

(* The sum over the channels to the mean, plus epsilon, to the power -1/2. *)
InverseRoot(g) == Scaled(Scaled(Scaled(Reduce(g, New(g), 2), Scalar), Scalar), Scalar)
RmsNorm(g, x, n) == Scaled(With(InverseRoot(Binary(g, x, x)), x), PerChannel(n))

LayerNorm(g, x, n) ==
  LET centered == With(Scaled(Scaled(Reduce(g, x, 2), Scalar), Scalar), x)
      normalized(c) == With(InverseRoot(Into(c, New(c))), New(c))
  IN Scaled(Scaled(normalized(centered), PerChannel(n)), PerChannel(n))

Silu(g, x) == With(Activation(g, x, "activation"), x)

Gelu(g, x) ==
  LET inner == With(Scaled(Into(Binary(g, x, x), x), Scalar), x)
      half(plus) == Into(WithConstant(plus, x, Scalar), New(plus))
  IN half(Scaled(Activated(Scaled(inner, Scalar)), Scalar))

-----------------------------------------------------------------------------
(* GPT-2.                                                                  *)

Gpt2Heads(g, x, width) == Turned(Reshape(g, x, <<1, Heads, HeadDim, width>>))

(* Softmax of the newest, over the values, as one row of channels again.   *)
Attended(g, value, width) ==
  LET weighed(p) == Multiplied(p, New(p), value)
  IN Reshaped(Turned(weighed(SoftMax(g, New(g)))), Spatial(QkFlat, 1, width))

(* Queries, keys and values of the input, attention of the queries to the  *)
(* given keys and values (the new ones when there are none) and the output *)
(* projection, then the three of them side by side.                        *)
Gpt2Attention(g, x, width, cached) ==
  LET part(h, qkv) == Slice(h, qkv, Spatial(QkFlat, 1, width))
      parts(h) == part(part(part(h, New(h)), New(h)), New(h))
      heads(h, q, k, v, keys) == Gpt2Heads(Gpt2Heads(Gpt2Heads(h, q, width), k, keys), v, keys)
      allHeads(h) == IF cached = <<>> THEN heads(h, New(h) - 2, New(h) - 1, New(h), width)
                     ELSE heads(h, New(h) - 2, cached[1], cached[2], MaxSeq)
      scores(h) == Scaled(Against(h, New(h) - 4, New(h) - 2), Scalar)
      masked(h) == IF cached = <<>> THEN Scaled(h, <<1, 1, width, width>>) ELSE Into(h, cached[3])
      beside(h, k, v) == Concat(h, <<New(h), k, v>>, 2)
      attention(h) == beside(Projected(Attended(masked(scores(h)), New(h), width), QkFlat), New(h) - 7, New(h) - 6)
  IN attention(allHeads(parts(Projected(LayerNorm(g, x, QkFlat), 3 * QkFlat))))

Gpt2PrefillAttention == Gpt2Attention(Inputs(<<Spatial(QkFlat, 1, PromptWidth)>>), 1, PromptWidth, <<>>)

\* Variant for KernelsFit: the mask is declared before the cache.
MaskDeclaredFirst ==
  LET cache == Spatial(QkFlat, 1, MaxSeq)
  IN Gpt2Attention(Inputs(<<Spatial(QkFlat, 1, DecodeWidth), <<1, 1, DecodeWidth, MaxSeq>>, cache, cache>>),
                   1, DecodeWidth, <<3, 4, 2>>)

Gpt2DecodeAttention ==
  LET cache == Spatial(QkFlat, 1, MaxSeq)
  IN Gpt2Attention(Inputs(<<Spatial(QkFlat, 1, DecodeWidth), cache, cache, <<1, 1, DecodeWidth, MaxSeq>>>>),
                   1, DecodeWidth, <<2, 3, 4>>)

Gpt2FeedForward(width) ==
  LET active(h) == Gelu(h, New(h))
  IN Projected(active(Projected(LayerNorm(Inputs(<<Spatial(QkFlat, 1, width)>>), 1, QkFlat), 4 * QkFlat)), QkFlat)

-----------------------------------------------------------------------------
(* Qwen.                                                                   *)

QwenProjection(width) ==
  LET projections(h, n) == ConvBias(ConvBias(ConvBias(h, n, QDim), n, KvDim), n, KvDim)
      all(h) == projections(h, New(h))
      beside(h) == Concat(h, <<New(h) - 8, New(h) - 4, New(h)>>, 2)
  IN beside(all(RmsNorm(Inputs(<<Spatial(Hidden, 1, width)>>), 1, Hidden)))

(* query, gate, key, value and mask are the tensors 1 to 5.                *)
QwenAttention(width, keys) ==
  LET row(n) == Spatial(QkFlat, 1, n)
      heads(h) == Gpt2Heads(Reshape(Gpt2Heads(h, 1, width), 3, <<1, Heads, HeadDim, keys>>), 4, keys)
      scores(h) == Scaled(Multiplied(h, New(h) - 3, New(h) - 2), Scalar)
      attention(h) == Attended(Into(scores(h), 5), New(h), width)
      gated(h) == With(Activation(h, 2, "activation"), New(h))
      input == Inputs(<<row(width), row(width), row(keys), row(keys), <<1, 1, width, keys>>>>)
  IN Dense(gated(attention(heads(input))), Hidden)

(* The feed-forward part, and the tensor that is its normalised input.     *)
SwiGlu(width) ==
  LET gate(h) == Dense(h, Intermediate)
      active(h) == Silu(h, New(h))
      up(h, norm) == Conv1x1(h, norm, Intermediate)
      gated(h) == With(h, New(h) - 2)
      ffn(h) == [graph |-> Dense(gated(up(active(gate(h)), New(h))), Hidden), norm |-> New(h)]
  IN ffn(RmsNorm(Inputs(<<Spatial(Hidden, 1, width)>>), 1, Hidden))

SharedExpert(width) ==
  LET turned(h, norm) == Transpose(Constant(h, Spatial(1, 1, Hidden)), norm, <<1, 3, 4, 2>>)
      logits(h) == Against(h, New(h), New(h) - 1)
      shared(ffn) == With(Reshaped(Activated(logits(turned(ffn.graph, ffn.norm))), Spatial(1, 1, width)), New(ffn.graph))
  IN shared(SwiGlu(width))

(* One expert: input, gate, up and down weights are the tensors 1 to 4.    *)
MoeExpert(width) ==
  LET gate(h) == Against(h, New(h), 2)
      active(h) == Silu(h, New(h))
      gated(h) == With(h, New(h) - 1)
      down(h) == Against(h, New(h), 4)
      result(h) == Transpose(h, New(h), <<1, 4, 2, 3>>)
      expert(turned) == result(down(gated(Against(active(gate(turned)), New(turned), 3))))
      weight == <<1, 1, Intermediate, Hidden>>
  IN expert(Transpose(Inputs(<<Spatial(Hidden, 1, width), weight, weight, <<1, 1, Hidden, Intermediate>>>>), 1, <<1, 3, 4, 2>>))

-----------------------------------------------------------------------------
(* The kernels with what the sessions pass to run them: the shapes of the  *)
(* surfaces, in the order they are passed.                                 *)

Gpt2Kernels ==
  LET cache == Spatial(QkFlat, 1, MaxSeq)
      hidden(width) == Spatial(QkFlat, 1, width)
  IN {[graph |-> Gpt2PrefillAttention, given |-> <<hidden(PromptWidth)>>, taken |-> <<Spatial(3 * QkFlat, 1, PromptWidth)>>],
      [graph |-> Gpt2DecodeAttention, given |-> <<hidden(DecodeWidth), cache, cache, <<1, 1, DecodeWidth, MaxSeq>>>>,
       taken |-> <<Spatial(3 * QkFlat, 1, DecodeWidth)>>]}
     \cup {[graph |-> Gpt2FeedForward(w), given |-> <<hidden(w)>>, taken |-> <<hidden(w)>>] : w \in {PromptWidth, DecodeWidth}}

QwenKernels ==
  {[graph |-> QwenProjection(w), given |-> <<Spatial(Hidden, 1, w)>>, taken |-> <<Spatial(QDim + 2 * KvDim, 1, w)>>]
     : w \in {PromptWidth, DecodeWidth}}
  \cup {[graph |-> SwiGlu(w).graph, given |-> <<Spatial(Hidden, 1, w)>>, taken |-> <<Spatial(Hidden, 1, w)>>]
     : w \in {PromptWidth, DecodeWidth}}

QwenAttentionKernels ==
  LET of(width, keys) ==
        [graph |-> QwenAttention(width, keys),
         given |-> <<Spatial(QkFlat, 1, width), Spatial(QkFlat, 1, width), Spatial(QkFlat, 1, keys),
                     Spatial(QkFlat, 1, keys), <<1, 1, width, keys>>>>,
         taken |-> <<Spatial(Hidden, 1, width)>>]
  IN {of(PromptWidth, PromptWidth), of(DecodeWidth, MaxSeq)}

(* run_ffn_layer runs the experts of a decode step on surfaces one token   *)
(* wide.                                                                   *)
MoeKernels ==
  LET weight == <<1, 1, Intermediate, Hidden>>
      down == <<1, 1, Hidden, Intermediate>>
      shared(g, w) == [graph |-> g, given |-> <<Spatial(Hidden, 1, w)>>,
                       taken |-> <<Spatial(Hidden, 1, w), Spatial(Hidden, 1, w)>>]
      expert(w, tokens) == [graph |-> MoeExpert(w), given |-> <<Spatial(Hidden, 1, tokens), weight, weight, down>>,
                            taken |-> <<Spatial(Hidden, 1, tokens)>>]
  IN {shared(SharedExpert(w), w) : w \in {PromptWidth, DecodeWidth}} \cup {expert(PromptWidth, PromptWidth), expert(DecodeWidth, 1)}

Kernels == Gpt2Kernels \cup QwenKernels \cup QwenAttentionKernels \cup MoeKernels
=============================================================================
