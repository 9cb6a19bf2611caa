--------------------------- MODULE EngineCounters ---------------------------
(***************************************************************************)
(* An engine's counters, from the lines of its /metrics endpoint to the    *)
(* report: the schema of each engine and parse_series (is-metrics), the    *)
(* samples the scrape loops keep, and derive_kvcache, derive_time_share    *)
(* and derive_phase_energy (is-report), which look at the first and the    *)
(* last sample.  The engine serves requests and may be restarted while the *)
(* run lasts.                                                              *)
(***************************************************************************)
EXTENDS EngineSchema, Sequences, FiniteSetsExt, Rendering

CONSTANTS
  Requests,      \* what requests can do to the counters
  Totals,        \* aggregate energies of a run, in mJ; zero when there is none
  MaxRequests, MaxRestarts, MaxScrapes    \* bounds

Counts == [hits : Nat, prompt : Nat, generation : Nat, prefill : Nat, decode : Nat]

ASSUME CountersAssumption ==
  \* The cache gives at most the prompt, and a request counts some token.
  /\ \A r \in Requests : r \in Counts /\ r.hits <= r.prompt /\ r.prompt + r.generation > 0
  /\ Totals \subseteq Nat
  /\ MaxRequests \in Nat /\ MaxRestarts \in Nat /\ MaxScrapes \in Nat

None == -1                        \* an absent series or field
Withheld == [withheld |-> TRUE]   \* a figure that is not given

VARIABLES
  engine,     \* --engine: "vllm" or "sglang"
  body,       \* the lines exposed: [<<series, label>> -> value]
  done,       \* history: what requests have done since the run started
  restarts,   \* history: how often the engine was restarted
  served,     \* history: how many requests were served
  kv,         \* the KvCacheTimeline, each sample with `done` at its time
  phase,      \* the PhaseTimeline, likewise
  total,      \* the run's energy, once it is derived
  report      \* [kvcache, phase_energy], each Withheld or a record

\* A sample also holds what had been done by then, and how often the engine
\* had been restarted.
KvCacheSamples == [hits : Nat, queries : Nat, done : Counts, restarts : Nat]

PhaseSamples ==
  [ prompt : Nat, generation : Nat, prefill_ns : {None} \cup Nat, decode_ns : {None} \cup Nat,
    done : Counts, restarts : Nat ]

vars == <<engine, body, done, restarts, served, kv, phase, total, report>>

-----------------------------------------------------------------------------
(* What is read of the lines (parse.rs; module Exposition has it line by   *)
(* line).                                                                  *)

\* Mutant: the first line is taken for the whole of a split series.
ParseSeriesFirst(s) ==
  LET lines == {k \in DOMAIN body : k[1] = s.name /\
                  (s.aggregation = "sum_but_total" => k[2] # "total")}
  IN IF lines = {} THEN None
     ELSE IF s.aggregation = "sum_but_total" THEN SumFunctionOnSet(body, lines)
     ELSE body[CHOOSE k \in lines : TRUE]

\* parse_series.  A single series has one line for the model.
ParseSeries(s) ==
  LET lines == {k \in DOMAIN body : k[1] = s.name /\
                  (s.aggregation = "sum_but_total" => k[2] # "total")}
  IN IF lines = {} THEN None ELSE SumFunctionOnSet(body, lines)

\* Mutant: an absent family is written as zero.
ParseTimeZero(declared) == IF declared = {} THEN 0 ELSE body[<<Some(declared), "">>]

\* parse_phase_time.
ParseTime(declared) == IF declared = {} THEN None ELSE body[<<Some(declared), "">>]

-----------------------------------------------------------------------------
(* The engine.  vLLM exposes its lines from the start, SGLang only once    *)
(* they have counted something.                                            *)

Fresh(e) ==
  IF e = "vllm"
  THEN [k \in {"prefix_cache_hits", "prefix_cache_queries", "prompt_tokens",
               "generation_tokens", "prefill_time", "decode_time"} \X {""} |-> 0]
  ELSE << >>

Zero == [hits |-> 0, prompt |-> 0, generation |-> 0, prefill |-> 0, decode |-> 0]

Init ==
  /\ engine \in {"vllm", "sglang"}
  /\ body = Fresh(engine)
  /\ done = Zero
  /\ restarts = 0 /\ served = 0
  /\ kv = <<>> /\ phase = <<>>
  /\ total = None
  /\ report = [kvcache |-> Withheld, phase_energy |-> Withheld]

\* The lines a request counts on: which ones, on SGLang, depends on where
\* the cached tokens came from and on whether the answer is streamed.
Counted(r, source, streaming) ==
  IF engine = "vllm"
  THEN { <<<<"prefix_cache_hits", "">>, r.hits>>, <<<<"prefix_cache_queries", "">>, r.prompt>>,
         <<<<"prompt_tokens", "">>, r.prompt>>, <<<<"generation_tokens", "">>, r.generation>>,
         <<<<"prefill_time", "">>, r.prefill>>, <<<<"decode_time", "">>, r.decode>> }
  ELSE { <<<<"cached_tokens", source>>, r.hits>>, <<<<"prompt_tokens", streaming>>, r.prompt>>,
         <<<<"generation_tokens", streaming>>, r.generation>> }

Serve ==
  /\ total = None /\ served < MaxRequests
  /\ \E r \in Requests, source \in {"device", "host", "total"},
        streaming \in {"streamed", "whole"} :
       LET counted == {c \in Counted(r, source, streaming) : c[2] > 0}
           value(k) == IF k \in DOMAIN body THEN body[k] ELSE 0
           gain(k)  == SumFunction([c \in {d \in counted : d[1] = k} |-> c[2]])
       IN /\ engine = "vllm" => source = "device" /\ streaming = "whole"
          /\ body' = [ k \in DOMAIN body \cup {c[1] : c \in counted} |-> value(k) + gain(k) ]
          /\ done' = [ f \in DOMAIN done |-> done[f] + r[f] ]
  /\ served' = served + 1
  /\ UNCHANGED <<engine, restarts, kv, phase, total, report>>

Restart ==
  /\ total = None /\ restarts < MaxRestarts
  /\ restarts' = restarts + 1
  /\ body' = Fresh(engine)
  /\ UNCHANGED <<engine, done, served, kv, phase, total, report>>

-----------------------------------------------------------------------------
(* The scrapes.  One that fails, or lacks a series it needs, leaves the    *)
(* timeline as it is, so only those that are kept are steps.               *)

ScrapeKv ==
  LET hits    == ParseSeries(Schema(engine).hit_numerator)
      queries == ParseSeries(Schema(engine).hit_denominator)
  IN /\ total = None /\ Len(kv) < MaxScrapes
     /\ hits # None /\ queries # None
     /\ kv' = Append(kv, [hits |-> hits, queries |-> queries, done |-> done,
                          restarts |-> restarts])
     /\ UNCHANGED <<engine, body, done, restarts, served, phase, total, report>>

ScrapePhase ==
  LET prompt     == ParseSeries(Schema(engine).prompt_tokens)
      generation == ParseSeries(Schema(engine).generation_tokens)
  IN /\ total = None /\ Len(phase) < MaxScrapes
     /\ prompt # None /\ generation # None
     /\ phase' = Append(phase, [ prompt |-> prompt, generation |-> generation,
                                 prefill_ns |-> ParseTime(Schema(engine).prefill_time_sum),
                                 decode_ns |-> ParseTime(Schema(engine).decode_time_sum),
                                 done |-> done, restarts |-> restarts ])
     /\ UNCHANGED <<engine, body, done, restarts, served, kv, total, report>>

-----------------------------------------------------------------------------
(* Derivation.                                                             *)

First(s) == s[1]
Final(s) == s[Len(s)]

\* Mutant: the last reading is taken for the window's.
DeriveKvcacheAbsolute(s) ==
  IF Len(s) < 2 THEN Withheld
  ELSE IF Final(s).hits < First(s).hits \/ Final(s).queries < First(s).queries THEN Withheld
  ELSE IF Final(s).queries = First(s).queries THEN Withheld
  ELSE [ hits_delta |-> Final(s).hits, queries_delta |-> Final(s).queries ]

\* derive_kvcache; the rate is hits_delta / queries_delta.
DeriveKvcache(s) ==
  IF \/ Len(s) < 2
     \/ Final(s).hits < First(s).hits \/ Final(s).queries < First(s).queries
     \/ Final(s).queries = First(s).queries
  THEN Withheld
  ELSE [ hits_delta    |-> Final(s).hits - First(s).hits,
         queries_delta |-> Final(s).queries - First(s).queries ]

\* total * a / (a + b) to the nearest integer.
Share(mj, a, b) == (2 * mj * a + a + b) \div (2 * (a + b))

\* Mutant: both sides are rounded from their own share.
DeriveTimeShareBothRounded(p, q, mj) ==
  LET prefill == q.prefill_ns - p.prefill_ns
      decode  == q.decode_ns - p.decode_ns
  IN IF prefill < 0 \/ decode < 0 \/ prefill + decode = 0 THEN Withheld
     ELSE [prefill |-> Share(mj, prefill, decode), decode |-> Share(mj, decode, prefill)]

\* derive_time_share: withheld when a counter went back or nothing was timed.
DeriveTimeShare(p, q, mj) ==
  LET prefill == q.prefill_ns - p.prefill_ns
      decode  == q.decode_ns - p.decode_ns
  IN IF prefill < 0 \/ decode < 0 \/ prefill + decode = 0 THEN Withheld
     ELSE [prefill |-> Share(mj, prefill, decode), decode |-> mj - Share(mj, prefill, decode)]

NoTimeShare == [prefill |-> None, decode |-> None]

Timed(sample) == sample.prefill_ns # None /\ sample.decode_ns # None

\* Mutant: the time share is withheld whenever it is absent.
TimeShareRequired(p, q, mj) ==
  IF Timed(p) /\ Timed(q) THEN DeriveTimeShare(p, q, mj) ELSE Withheld

\* An engine without the family has no time share; one that lost it, or
\* whose share is withheld, has no figures at all.
TimeShare(p, q, mj) ==
  CASE Timed(p) /\ Timed(q)   -> DeriveTimeShare(p, q, mj)
    [] ~Timed(p) /\ ~Timed(q) -> NoTimeShare
    [] OTHER                  -> Withheld

DerivePhaseEnergy(s, mj) ==
  LET prompt     == Final(s).prompt - First(s).prompt
      generation == Final(s).generation - First(s).generation
      time       == TimeShare(First(s), Final(s), mj)
  IN IF \/ Len(s) < 2 \/ mj = 0
        \/ prompt < 0 \/ generation < 0 \/ prompt + generation = 0
        \/ time = Withheld
     THEN Withheld
     ELSE [ prompt_delta     |-> prompt,
            generation_delta |-> generation,
            by_tokens |-> [ prefill |-> Share(mj, prompt, generation),
                            decode  |-> mj - Share(mj, prompt, generation) ],
            by_time   |-> time ]

Derive ==
  /\ total = None
  /\ total' \in Totals
  /\ report' = [ kvcache      |-> DeriveKvcache(kv),
                 phase_energy |-> DerivePhaseEnergy(phase, total') ]
  /\ UNCHANGED <<engine, body, done, restarts, served, kv, phase>>

\* What the text states of the cache, of the endpoint that was scraped.
Text ==
  KvCacheSection(
    [ schema_version   |-> {},
      kvcache          |-> IF report.kvcache = Withheld THEN {}
                           ELSE { [ hits_delta    |-> report.kvcache.hits_delta,
                                    queries_delta |-> report.kvcache.queries_delta,
                                    accounting    |-> {"block_aligned"} ] },
      kvcache_timeline |-> {kv} ])

Next == Serve \/ Restart \/ ScrapeKv \/ ScrapePhase \/ Derive

Spec == Init /\ [][Next]_vars

-----------------------------------------------------------------------------
TypeOK ==
  /\ engine \in {"vllm", "sglang"}
  /\ \A k \in DOMAIN body : body[k] \in Nat
  /\ done \in Counts
  /\ restarts \in 0..MaxRestarts /\ served \in 0..MaxRequests
  /\ kv \in Seq(KvCacheSamples)
  /\ phase \in Seq(PhaseSamples)
  /\ \A i \in DOMAIN phase : (phase[i].prefill_ns = None) = (engine = "sglang")
  /\ total \in {None} \cup Totals

(* A counter that starts again at zero may hide what was done, but a delta *)
(* is never more than what the requests between its two samples did,       *)
(* however often the engine was restarted in between.  The state keeps its *)
(* types.                                                                  *)
DeltasNeverOverstate ==
  /\ TypeOK
  /\ report.kvcache # Withheld =>
       /\ report.kvcache.hits_delta <= Final(kv).done.hits - First(kv).done.hits
       /\ report.kvcache.queries_delta <= Final(kv).done.prompt - First(kv).done.prompt
  /\ report.phase_energy # Withheld =>
       /\ report.phase_energy.prompt_delta
            <= Final(phase).done.prompt - First(phase).done.prompt
       /\ report.phase_energy.generation_delta
            <= Final(phase).done.generation - First(phase).done.generation

(* "You cannot hit more tokens than you queried" (derive.rs): the rate is  *)
(* at most one on either engine, however its series are split, as long as  *)
(* the engine lives.                                                       *)
RateAtMostOne ==
  report.kvcache # Withheld /\ First(kv).restarts = Final(kv).restarts =>
    report.kvcache.hits_delta <= report.kvcache.queries_delta

(* "The pair sums to the total exactly" (derive.rs): neither split makes   *)
(* or loses a millijoule, or goes below zero, however it is rounded.  And  *)
(* "absence of a capability must not be reported as a window that went     *)
(* wrong": what an engine without the timing family did in the window is   *)
(* split by tokens.                                                        *)
SplitsConserveEnergy ==
  /\ report.phase_energy # Withheld =>
       LET r == report.phase_energy IN
       \A split \in {r.by_tokens} \cup ({r.by_time} \ {NoTimeShare}) :
         /\ split.prefill + split.decode = total
         /\ split.prefill \in Nat /\ split.decode \in Nat
  /\ ( /\ engine = "sglang" /\ total \in Nat \ {0} /\ Len(phase) >= 2
       /\ First(phase).restarts = Final(phase).restarts
       /\ First(phase).done # Final(phase).done )
     => report.phase_energy # Withheld

(* "A silently missing section is indistinguishable from a run that never  *)
(* asked for the metric" (render.rs): a run that scraped states its rate,  *)
(* or why there is none, and the reason is what happened: no or one usable *)
(* scrape, an engine that was restarted, or a window without a query.      *)
TextTellsTheRate ==
  total # None =>
    /\ Len(Text) = 1
    /\ "withheld" \in DOMAIN Text[1] =>
         CASE Len(kv) = 0 -> Text[1].withheld = "no usable scrape"
           [] Len(kv) = 1 -> Text[1].withheld = "one scrape"
           [] OTHER -> /\ Text[1].withheld = "regressed or no queries"
                       /\ \/ First(kv).restarts # Final(kv).restarts
                          \/ First(kv).done.prompt = Final(kv).done.prompt
=============================================================================
