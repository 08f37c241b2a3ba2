------------------------------ MODULE AneRuntime ------------------------------
(***************************************************************************)
(* A process that uses the ANE runtime: it builds a graph of its own, or   *)
(* it is one of the example programs, which compiles its kernels and,      *)
(* when the last is loaded, makes a session of them (compile_all,          *)
(* CompiledModel::from_safetensors, main).  The kernels stay loaded as     *)
(* long as the session runs: it borrows the model.                         *)
(***************************************************************************)
EXTENDS MilProgram

CONSTANTS Layers, Interval, History, Prompts, Budgets

ASSUME SessionAssumption ==
  /\ {Layers, Interval, History} \subseteq Nat \ {0}
  /\ Prompts \cup Budgets \subseteq Nat

VARIABLES example, prompt, budget, phase, layer, position, left, hidden, cache, memory, logits

Session == INSTANCE InferenceSession WITH Width <- DecodeWidth

session == <<example, prompt, budget, phase, layer, position, left, hidden, cache, memory, logits>>
model == <<graph, status, program, given, taken>>
runtime == <<graph, status, program, given, taken, example, prompt, budget, phase, layer, position, left, hidden, cache, memory, logits>>

RuntimeInit == Init /\ Session!Init

\* The feed-forward of the last layer's decode is compiled last.
LastKernel(name) == IF name = "gpt2" THEN Gpt2FeedForward(DecodeWidth) ELSE SwiGlu(DecodeWidth).graph

(* The graph API, up to the moment a session is made.                      *)
Prepares == phase = "waiting" /\ Next /\ UNCHANGED session

Begins ==
  /\ status = "loaded"
  /\ \E name \in {"gpt2", "qwen"} : graph = LastKernel(name) /\ Session!Begins /\ example' = name
  /\ UNCHANGED model

Works == phase # "waiting" /\ Session!Works /\ UNCHANGED model

Fails == Session!AneFails /\ UNCHANGED model

RuntimeNext == Prepares \/ Begins \/ Works \/ Fails

RuntimeSpec == RuntimeInit /\ [][RuntimeNext]_runtime
(* A session runs on one thread, from its start to its end.  Nothing makes *)
(* a process build or compile.                                             *)
FairRuntime == RuntimeSpec /\ WF_runtime(Works)

-----------------------------------------------------------------------------
(* The properties of InferenceSession, of sessions on compiled kernels.    *)

(* Every linear layer has taken in exactly the tokens it was given, each   *)
(* once and in the order of the text, through prefill and decode alike     *)
(* (qwen_forward's session.rs, deltanet.rs).                               *)
RecurrenceFollows == Session!RecurrenceFollows

(* Every cache holds the key of token c in column c, made for position c,  *)
(* for the tokens its layer was given, and nothing elsewhere (kv_cache.rs, *)
(* rope.rs).                                                               *)
CacheFollows == Session!CacheFollows

(* Whenever a token is drawn, the logits come from every token of the text *)
(* so far; GPT-2's from no padding, Qwen's from no unwritten column.       *)
SaysWhatWasSaid == Session!SaysWhatWasSaid

(* A run whose text fits ends with all its tokens, unless the ANE refuses  *)
(* a request.                                                              *)
FittingRunsFinish == Session!FittingRunsFinish
=============================================================================
