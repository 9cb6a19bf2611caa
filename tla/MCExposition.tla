---------------------------- MODULE MCExposition ----------------------------
(* Bodies of up to three lines (four for the phase) over the lines below:  *)
(* of the model and of another one, with other labels before and after,    *)
(* split in parts, not a number, negative or too large, in any order.      *)
EXTENDS Exposition, TLC

Comment == [shape |-> "comment", name |-> "", labels |-> <<>>, value |-> {}, of |-> [model |-> ""]]

Label(key, value) == <<key, value, "quote">>

And(a, b) == a \o <<"comma">> \o b

Sample(name, labels, value, of) ==
  [shape |-> "sample", name |-> name, labels |-> labels, value |-> value, of |-> of]

Bare(name, v) == [Comment EXCEPT !.shape = "no_value", !.name = name]

M == Label("model_name", "m")
N == Label("model_name", "n")

\* Another model, served under a name that ends in the key.
ServedAsM == And(<<"served_">> \o M, N)

Of(model) == [model |-> model]
Part(model, part) == [model |-> model, part |-> part]

Of1(name, v) ==
  { Sample(name, M, {v}, Of("m")), Sample(name, And(Label("engine", "0"), M), {2}, Of("m")) }

Others(name) ==
  { Sample(name, N, {}, Of("n")), Sample(name, ServedAsM, {8}, Of("n")) }

Split(name, key, part, v) == Sample(name, And(M, Label(key, part)), {v}, Part("m", part))

VllmKv ==
  Of1("prefix_cache_hits", 4) \cup Others("prefix_cache_hits")
    \cup { Comment, Bare("prefix_cache_queries", 0),
           Sample("prefix_cache_queries", M, {7}, Of("m")),
           Sample("prefix_cache_queries", M, {-1}, Of("m")) }

SglangKv ==
  { Split("cached_tokens", "cache_source", "device", 2),
    Split("cached_tokens", "cache_source", "host", 30),
    Split("cached_tokens", "cache_source", "total", 32),
    Sample("cached_tokens", N, {}, Of("n")),
    Split("prompt_tokens", "is_streaming", "true", 40),
    Split("prompt_tokens", "is_streaming", "false", 6),
    Sample("prompt_tokens", ServedAsM, {8}, Of("n")) }

VllmPhase ==
  { Sample("prompt_tokens", M, {6}, Of("m")), Sample("generation_tokens", M, {2}, Of("m")),
    Sample("prefill_time", M, {1}, Of("m")), Sample("decode_time", M, {3}, Of("m")),
    Sample("decode_time", M, {}, Of("m")), Sample("prefill_time", N, {5}, Of("n")) }

SglangPhase ==
  { Split("prompt_tokens", "is_streaming", "true", 40),
    Split("prompt_tokens", "is_streaming", "false", 6),
    Split("generation_tokens", "is_streaming", "true", 4),
    Sample("generation_tokens", M, {}, Of("m")) }

VllmSpec ==
  { Sample("spec_draft_tokens", M, {12}, Of("m")), Sample("spec_draft_tokens", N, {}, Of("n")),
    Sample("spec_accepted_tokens", M, {6}, Of("m")), Sample("spec_drafts", M, {400}, Of("m")),
    Sample("spec_drafts", M, {-2}, Of("m")) }

Lora(running, v, max) ==
  Sample("lora_requests_info",
         And(<<"running_lora_adapters">> \o running \o <<"quote">>,
             And(max, Label("waiting_lora_adapters", "w"))),
         {v}, [model |-> "", running |-> Names(running)])

LoraVllm ==
  { Comment, Lora(<<"a", "comma", "b">>, 5, Label("max_lora", "8")),
    Lora(<<>>, 5, Label("max_lora", "8")), Lora(<<"a">>, 4, Label("engine", "0")),
    Lora(<<"b">>, -3, Label("max_lora", "8")), Lora(<<"b">>, 6, Label("max_lora", "text")),
    Sample("lora_requests_info", Label("running_lora_adapters", "a"), {9},
           [model |-> "", running |-> <<"a">>]) }

SomeLines ==
  ( <<"kvcache", "vllm">> :> VllmKv ) @@ ( <<"kvcache", "sglang">> :> SglangKv )
    @@ ( <<"phase", "vllm">> :> VllmPhase ) @@ ( <<"phase", "sglang">> :> SglangPhase )
    @@ ( <<"spec", "vllm">> :> VllmSpec ) @@ ( <<"spec", "sglang">> :> SglangPhase )
    @@ ( <<"lora", "vllm">> :> LoraVllm )

LinesOf == [ of \in DOMAIN SomeLines |->
               CASE of = <<"spec", "sglang">> -> 1
                 [] of[2] = "vllm" /\ of[1] \in {"phase", "spec"} -> 4
                 [] OTHER -> 3 ]
=============================================================================
