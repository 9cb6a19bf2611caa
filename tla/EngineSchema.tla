---------------------------- MODULE EngineSchema ----------------------------
(***************************************************************************)
(* The series each engine exposes for the signals that are read, and how   *)
(* the lines of a family combine into one value (is-metrics, schema.rs).   *)
(* What an engine does not expose is an empty set, otherwise a set of one. *)
(***************************************************************************)
EXTENDS Integers

\* "single": the first line; "sum_but_total": every line but the one whose
\* split label is the reserved "total"; "sum_over_all": every line.
Series(name, aggregation) == [name |-> name, aggregation |-> aggregation]

\* SGLang has one series for prompt tokens and queries, splits its series
\* over labels, has no timing family, and speculates without counting.
Schema(e) ==
  IF e = "vllm"
  THEN [ hit_numerator        |-> Series("prefix_cache_hits", "single"),
         hit_denominator      |-> Series("prefix_cache_queries", "single"),
         prompt_tokens        |-> Series("prompt_tokens", "single"),
         generation_tokens    |-> Series("generation_tokens", "single"),
         prefill_time_sum     |-> {"prefill_time"},
         decode_time_sum      |-> {"decode_time"},
         spec_draft_tokens    |-> {Series("spec_draft_tokens", "single")},
         spec_accepted_tokens |-> {Series("spec_accepted_tokens", "single")},
         spec_drafts          |-> {Series("spec_drafts", "single")} ]
  ELSE [ hit_numerator        |-> Series("cached_tokens", "sum_but_total"),
         hit_denominator      |-> Series("prompt_tokens", "sum_over_all"),
         prompt_tokens        |-> Series("prompt_tokens", "sum_over_all"),
         generation_tokens    |-> Series("generation_tokens", "sum_over_all"),
         prefill_time_sum     |-> {},
         decode_time_sum      |-> {},
         spec_draft_tokens    |-> {},
         spec_accepted_tokens |-> {},
         spec_drafts          |-> {} ]
=============================================================================
