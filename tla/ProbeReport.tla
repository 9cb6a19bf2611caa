---------------------------- MODULE ProbeReport -----------------------------
(***************************************************************************)
(* What a report says of the request the probe measured: the timing        *)
(* figures derived from its stamps (module Figures), the text they are     *)
(* rendered as (module Rendering) and the span they are exported as        *)
(* (module OtelExport), composed with the probe itself.                    *)
(***************************************************************************)
EXTENDS ProbeRunner, Figures, Rendering, OtelExport

Elapsed == [i \in DOMAIN tokens |-> tokens[i].elapsed]

TimingFigures == DeriveTiming(Elapsed, total)

\* What else a run may have measured.
Energies  == {{}, {[mj |-> 0, source |-> "counter"]}, {[mj |-> 7, source |-> "integrated_fallback"]}}
Resources == {{}, {ResourceFigures(<<[at |-> 0, rss |-> 5, threads |-> 2, user |-> 1, system |-> 1]>>, {})}}
Gpus      == {{}} \cup { {[ device_count |-> n, memory_used_max |-> 9, utilization_mean |-> 50,
                            power_mean |-> 7, temperature_max |-> 60 ]} : n \in {1, 2} }

\* The report of a run that scraped nothing.  The anchor is the run's start,
\* time zero; a system clock set before 1970 leaves none.
ReportOf(anchor, energy, resource, gpu) ==
  [ timing |-> TimingFigures, resource |-> resource, gpu |-> gpu,
    efficiency |-> DeriveEfficiency(energy, TimingFigures.token_count),
    kvcache |-> {}, kvcache_timeline |-> {}, schema_version |-> {2},
    anchor |-> anchor, tokens |-> Elapsed ]

-----------------------------------------------------------------------------
\* p percent of the values are at most v, and v is the least of which that
\* is true.
IsNearestRank(v, p, values) ==
  LET within(w) == 100 * Cardinality({i \in DOMAIN values : values[i] <= w})
  IN /\ within(v) >= p * Len(values)
     /\ \A i \in DOMAIN values : values[i] < v => within(values[i]) < p * Len(values)

(* The figures and the request agree: no interval is negative (they are    *)
(* subtracted as unsigned numbers), the wait for the first token and the   *)
(* intervals fit in the total latency, the mean lies between the extremes, *)
(* the percentiles are those of the nearest rank ("Uses the nearest-rank   *)
(* method", derive.rs) for any number of intervals, and the rate is that   *)
(* of the tokens as they arrived, the time to the first one excluded       *)
(* (ADR-004).                                                              *)
FiguresFitTheRequest ==
  result = "ok" =>
    LET t == TimingFigures
        d == Deltas(Elapsed)
    IN /\ \A i \in DOMAIN d : d[i] >= 0
       /\ \A first \in t.ttft : first + SumFunction(d) <= t.total_latency
       /\ \A dist \in t.inter_token_latency :
            /\ Least(d) <= dist.mean /\ dist.mean <= dist.max /\ dist.max = Greatest(d)
            /\ IsNearestRank(dist.p50, 50, d)
            /\ IsNearestRank(dist.p95, 95, d)
            /\ IsNearestRank(dist.p99, 99, d)
       /\ \A rate \in t.tokens_per_second :
            rate = <<Len(tokens) - 1, Final(tokens).at - First(tokens).at>>

(* "One event per token arrival" (otel.rs), whenever after the probe the   *)
(* report is exported, which is now: the span has ended by then, every     *)
(* event lies in it, in order, and all are shifted from the arrivals by    *)
(* one and the same time, so that a trace keeps the distances of the       *)
(* tokens ("The event offsets remain accurate relative to either anchor"). *)
(* With the anchor they are early, by what the run took to start the       *)
(* probe; without it late, by what it took to come to the export.          *)
SpanKeepsTheTokens ==
  result = "ok" =>
    \A anchor \in {{}, {0}} :
      LET span == Span(ReportOf(anchor, {}, {}, {}), now)
          shift(i) == span.events[i] - tokens[i].at
      IN /\ span.end <= now
         /\ \A i \in DOMAIN span.events :
              /\ span.start <= span.events[i] /\ span.events[i] <= span.end
              /\ \A j \in DOMAIN span.events : i < j => span.events[i] <= span.events[j]
              /\ shift(i) = shift(1)
              /\ IF anchor = {} THEN shift(i) >= 0 ELSE shift(i) <= 0

(* The text and the trace of a report tell the same run: a section of the  *)
(* text is there when its attributes are, nothing is stated of tokens that *)
(* did not come, and of energy per token only when there were both.        *)
TextAndTraceAgree ==
  result = "ok" =>
    \A energy \in Energies, resource \in Resources, gpu \in Gpus :
      LET report   == ReportOf({0}, energy, resource, gpu)
          text     == RenderText(report)
          sections == {text[i].section : i \in DOMAIN text}
          traced   == DOMAIN Attributes(report)
      IN /\ Cardinality(sections) = Len(text)
         /\ text[1].tokens = Len(tokens)
         /\ ("ttft_ns" \in traced) = ("value" \in DOMAIN text[1].first_token)
         /\ ("tokens_per_second" \in traced) = ("value" \in DOMAIN text[1].rate)
         /\ \A pair \in { <<"inter_token_latency", "inter_token_p99_ns">>,
                           <<"resource_usage", "thread_max">>, <<"gpu_usage", "device_count">>,
                           <<"efficiency", "energy_per_token_mj">> } :
              (pair[1] \in sections) = (pair[2] \in traced)
         /\ ("efficiency" \in sections) = (tokens # <<>> /\ \E e \in energy : e.mj > 0)
         /\ ("inter_token_latency" \in sections) = (Len(tokens) >= 2)
=============================================================================
