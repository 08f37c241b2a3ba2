--------------------------- MODULE InferenceSession ---------------------------
(***************************************************************************)
(* One run of an example program: the prompt is padded to the width the    *)
(* ANE needs and goes through all layers at once (Session::prefill), then  *)
(* one token after another (Session::decode_step) until the budget is      *)
(* used.  gpt2_forward has layers of one kind, qwen_forward of two.        *)
(*                                                                         *)
(* A token is its index in the text.  A column of a surface is what a      *)
(* token has become: own is the token, place the position that its         *)
(* embedding or its key was given, from the tokens whose embeddings went   *)
(* into it.  What the ANE computes otherwise is left out; how the graphs   *)
(* are made is MilProgram's, and that they are is AneRuntime's.            *)
(***************************************************************************)
EXTENDS Integers, Sequences

CONSTANTS Layers, Interval,   \* num_hidden_layers, full_attention_interval
          History,            \* linear_conv_kernel_dim - 1
          Width,              \* MIN_SPATIAL_WIDTH and DECODE_SPATIAL_WIDTH
          MaxSeq,             \* MAX_SEQUENCE_LENGTH
          Prompts, Budgets    \* bounds: lengths of prompts, numbers of tokens asked for

VARIABLES example, prompt, budget,   \* what runs: gpt2 or qwen, with a prompt of so many tokens
          phase, layer,              \* where it is
          position,                  \* Session.position
          left,                      \* turns of the generation loop that are left
          hidden,                    \* the surface of the phase: its columns
          cache, memory,             \* KvCache, DeltaNetState: by layer
          logits                     \* the tokens the last logits come from

vars == <<example, prompt, budget, phase, layer, position, left, hidden, cache, memory, logits>>
input == <<example, prompt, budget>>

Padding == -1
Nothing == -2
Blank == [own |-> Nothing, place |-> Nothing, from |-> {Nothing}]
NoMemory == [folded |-> <<>>, window |-> <<>>, from |-> {}]

Kind(l) == IF example = "gpt2" THEN "fused" ELSE IF (l + 1) % Interval = 0 THEN "full" ELSE "linear"
AtLayer(kind) == layer < Layers /\ Kind(layer) = kind

Padded == IF prompt > Width THEN prompt ELSE Width
Columns == 0 .. Padded - 1
Real == 0 .. prompt - 1

\* GPT-2 adds a learned position to the embedding.
Embedded(token, place) ==
  [own |-> token, place |-> IF example = "gpt2" THEN place ELSE Nothing, from |-> {token}]

Init ==
  /\ example = "none" /\ prompt = 0 /\ budget = 0
  /\ phase = "waiting" /\ layer = 0 /\ position = 0 /\ left = 0
  /\ hidden = <<>> /\ cache = <<>> /\ memory = <<>> /\ logits = {}

(* The model is compiled: a session is made and the padded prompt looked up. *)
Begins ==
  /\ phase = "waiting"
  /\ example' \in {"gpt2", "qwen"} /\ prompt' \in Prompts /\ budget' \in Budgets
  /\ example' = "gpt2" => prompt' > 0 /\ budget' > 0
  /\ phase' = "prefill"
  /\ hidden' = [t \in Columns' |-> IF t \in Real' THEN Embedded(t, t)' ELSE Embedded(Padding, t)']
  /\ cache' = [l \in 0 .. Layers - 1 |-> [c \in 0 .. MaxSeq - 1 |-> Blank]]
  /\ memory' = [l \in 0 .. Layers - 1 |-> NoMemory]
  /\ UNCHANGED <<layer, position, left, logits>>

Sources(columns) == UNION {c.from : c \in columns}
Attending(column, columns) == [column EXCEPT !.from = @ \cup Sources(columns)]

\* Variant for CacheFollows: the key is not rotated.
UnrotatedKey(column, place) == column
\* Qwen rotates a key by its position.
Key(column, place) == IF example = "gpt2" THEN column ELSE [column EXCEPT !.place = place]

Recent(list) == SubSeq(list, IF Len(list) > History THEN Len(list) - History + 1 ELSE 1, Len(list))

\* forward_step for the first n columns, one after another: the window of the convolution and the
\* recurrent state take them in.
After(m, n) ==
  LET owns == [i \in 1 .. n |-> hidden[i - 1].own]
  IN [folded |-> m.folded \o owns,
      window |-> Recent(m.window \o owns),
      from |-> m.from \cup Sources({hidden[t] : t \in 0 .. n - 1})]

Panics ==
  /\ phase' = "panicked"
  /\ UNCHANGED <<input, layer, position, left, hidden, cache, memory, logits>>

Moves(columns, kv, states) ==
  /\ hidden' = columns
  /\ cache' = [cache EXCEPT ![layer] = kv]
  /\ memory' = [memory EXCEPT ![layer] = states]
  /\ layer' = layer + 1
  /\ UNCHANGED <<input, phase, position, left, logits>>

-----------------------------------------------------------------------------
(* Prefill.                                                                *)

Written(kv) == [c \in 0 .. MaxSeq - 1 |-> IF c \in Real THEN Key(hidden[c], c) ELSE kv[c]]

\* Variant for SaysWhatWasSaid: the mask of GPT-2's prefill is left out.
EveryColumn(t) == Columns
\* The columns that the mask lets column t of the prompt attend to: the graph of GPT-2 holds a
\* causal mask, Qwen's takes the surface prefill_mask, which nothing writes.
Visible(t) == IF example = "gpt2" THEN 0 .. t ELSE Columns

PrefillAttends ==
  [t \in Columns |-> Attending(hidden[t], {hidden[s] : s \in Visible(t)})]

PrefillFused ==
  /\ phase = "prefill" /\ AtLayer("fused")
  /\ IF prompt > MaxSeq THEN Panics ELSE Moves(PrefillAttends, Written(cache[layer]), memory[layer])

(* The rotation goes over the padded prompt.                               *)
PrefillFull ==
  /\ phase = "prefill" /\ AtLayer("full")
  /\ IF Padded > MaxSeq THEN Panics ELSE Moves(PrefillAttends, Written(cache[layer]), memory[layer])

\* Variant for RecurrenceFollows: the padding is taken in too.
WholeSurface == Padded
TakenIn == prompt

PrefillLinear ==
  /\ phase = "prefill" /\ AtLayer("linear")
  /\ Moves([t \in Columns |-> IF t \in Real THEN [hidden[t] EXCEPT !.from = @ \cup After(memory[layer], t + 1).from]
                             ELSE hidden[t]],
           cache[layer], After(memory[layer], TakenIn))

(* The logits of the last token of the prompt; without a prompt the index  *)
(* of the last token is below zero.                                        *)
EndsPrefill ==
  /\ phase = "prefill" /\ layer = Layers
  /\ IF prompt = 0 THEN Panics
     ELSE /\ phase' = "first"
          /\ position' = prompt
          /\ logits' = hidden[prompt - 1].from
          /\ UNCHANGED <<input, layer, left, hidden, cache, memory>>

-----------------------------------------------------------------------------
(* Generation.                                                             *)

\* Variant for FittingRunsFinish: the first token is not counted.
AllOfBudget == {budget}
\* The loop runs budget - 1 times.  Without a budget the subtraction panics in a debug build and
\* wraps in a release build, to more turns than any cache has columns.
Turns == IF budget > 0 THEN {budget - 1} ELSE {2 * MaxSeq + 1}

FirstToken ==
  /\ phase = "first"
  /\ \/ /\ left' \in Turns
        /\ phase' = "sampled"
        /\ UNCHANGED <<input, layer, position, hidden, cache, memory, logits>>
     \/ budget = 0 /\ Panics

StartsStep ==
  /\ phase = "sampled" /\ left > 0
  /\ phase' = "decode" /\ layer' = 0 /\ left' = left - 1
  /\ hidden' = [t \in {0} |-> Embedded(position, position)]
  /\ UNCHANGED <<input, position, cache, memory, logits>>

Finishes ==
  /\ phase = "sampled" /\ left = 0
  /\ phase' = "done"
  /\ UNCHANGED <<input, layer, position, left, hidden, cache, memory, logits>>

\* What the mask of a step lets its token attend to.
Unmasked(kv) == {kv[c] : c \in {x \in 0 .. position : x < MaxSeq}}

(* The graph reads the cache, and the new key is written when it has run.  *)
DecodeFused ==
  /\ phase = "decode" /\ AtLayer("fused")
  /\ IF position >= MaxSeq THEN Panics
     ELSE Moves([t \in {0} |-> Attending(hidden[0], Unmasked(cache[layer]))],
                [cache[layer] EXCEPT ![position] = Key(hidden[0], position)], memory[layer])

(* The query is rotated over the whole width of its surface, as many       *)
(* positions ahead.                                                        *)
DecodeFull ==
  /\ phase = "decode" /\ AtLayer("full")
  /\ IF position + Width > MaxSeq THEN Panics
     ELSE LET kv == [cache[layer] EXCEPT ![position] = Key(hidden[0], position)]
          IN Moves([t \in {0} |-> Attending(hidden[0], Unmasked(kv))], kv, memory[layer])

DecodeLinear ==
  /\ phase = "decode" /\ AtLayer("linear")
  /\ LET m == After(memory[layer], 1)
     IN Moves([t \in {0} |-> [hidden[0] EXCEPT !.from = @ \cup m.from]], cache[layer], m)

EndsStep ==
  /\ phase = "decode" /\ layer = Layers
  /\ phase' = "sampled"
  /\ position' = position + 1
  /\ logits' = hidden[0].from
  /\ UNCHANGED <<input, layer, left, hidden, cache, memory>>

(* The ANE refuses a request: every run is unwrapped.                      *)
AneFails ==
  /\ phase \in {"prefill", "decode"} /\ layer < Layers
  /\ phase' = "failed"
  /\ UNCHANGED <<input, layer, position, left, hidden, cache, memory, logits>>

Works ==
  \/ Begins
  \/ PrefillFused \/ PrefillFull \/ PrefillLinear \/ EndsPrefill
  \/ FirstToken \/ StartsStep \/ Finishes
  \/ DecodeFused \/ DecodeFull \/ DecodeLinear \/ EndsStep
Next == Works \/ AneFails

Spec == Init /\ [][Next]_vars
(* One thread runs from the start to the end.                              *)
FairSpec == Spec /\ WF_vars(Works)

-----------------------------------------------------------------------------
Going == phase \notin {"waiting", "panicked", "failed"}

\* How many tokens a layer has been given.
Given(l) ==
  position + (IF layer > l THEN IF phase = "prefill" THEN prompt ELSE IF phase = "decode" THEN 1 ELSE 0 ELSE 0)

(* Every linear layer has taken in exactly the tokens it was given, each   *)
(* once and in the order of the text, through prefill and decode alike;    *)
(* padding never enters, and the convolution's window holds the last.      *)
RecurrenceFollows ==
  Going => \A l \in 0 .. Layers - 1 : Kind(l) = "linear" =>
    /\ memory[l].folded = [i \in 1 .. Given(l) |-> i - 1]
    /\ memory[l].window = Recent(memory[l].folded)

(* Every cache holds the key of token c in column c, made for position c,  *)
(* for the tokens its layer was given, and nothing elsewhere.              *)
CacheFollows ==
  Going => \A l \in 0 .. Layers - 1 : Kind(l) # "linear" => \A c \in 0 .. MaxSeq - 1 :
    IF c < Given(l) THEN cache[l][c].own = c /\ cache[l][c].place = c ELSE cache[l][c] = Blank

(* Whenever a token is drawn, the logits come from every token of the text *)
(* so far.  GPT-2's come from no padding; Qwen's from no unwritten column  *)
(* of a cache.                                                             *)
SaysWhatWasSaid ==
  phase \in {"first", "sampled"} =>
    /\ 0 .. position - 1 \subseteq logits
    /\ logits \subseteq 0 .. position - 1 \cup {IF example = "gpt2" THEN Nothing ELSE Padding}

(* A run whose text fits ends with all its tokens, unless the ANE fails:   *)
(* GPT-2 needs a column for every token it reads, Qwen as many positions   *)
(* again as a surface is wide.                                             *)
Fits ==
  /\ prompt > 0 /\ budget > 0
  /\ IF example = "gpt2" THEN prompt <= MaxSeq /\ (budget > 1 => prompt + budget - 2 < MaxSeq)
     ELSE Padded <= MaxSeq /\ (budget > 1 => prompt + budget - 2 + Width <= MaxSeq)
FittingRunsFinish == phase = "prefill" /\ Fits ~> phase \in {"done", "failed"}
=============================================================================
