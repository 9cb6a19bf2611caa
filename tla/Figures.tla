------------------------------ MODULE Figures -------------------------------
(***************************************************************************)
(* The figures a report derives from the raw signals (is-report,           *)
(* derive.rs), as operators without state.  An Option is a set of at most  *)
(* one value, so that no figure is ever confused with a missing one, and a *)
(* quotient of floats is the pair of its terms.                            *)
(***************************************************************************)
EXTENDS Integers, Sequences, FiniteSetsExt

First(s) == s[1]
Final(s) == s[Len(s)]

Least(s)    == Min({s[i] : i \in DOMAIN s})
Greatest(s) == Max({s[i] : i \in DOMAIN s})

-----------------------------------------------------------------------------
(* derive_timing                                                           *)

Deltas(elapsed) == [i \in 1..Len(elapsed) - 1 |-> elapsed[i + 1] - elapsed[i]]

\* Mutant: the rank is rounded down.
RankRoundedDown(percentile, n) == Max({1, (percentile * n) \div 100})

\* The 1-based rank, rounded up.
Rank(percentile, n) == (percentile * n + 99) \div 100

PercentileNearestRank(sorted, percentile) ==
  LET idx == Min({Max({Rank(percentile, Len(sorted)) - 1, 0}), Len(sorted) - 1})
  IN sorted[idx + 1]

\* deltas.sort_unstable: the same values, none smaller than one before it.
Sorted(s) ==
  CHOOSE t \in {[i \in DOMAIN s |-> s[p[i]]] : p \in Bijection(DOMAIN s, DOMAIN s)} :
    \A i, j \in DOMAIN s : i < j => t[i] <= t[j]

LatencyDistribution(deltas) ==
  LET sorted == Sorted(deltas) IN
  [ count |-> Len(deltas),
    mean  |-> SumFunction(deltas) \div Len(deltas),
    p50   |-> PercentileNearestRank(sorted, 50),
    p95   |-> PercentileNearestRank(sorted, 95),
    p99   |-> PercentileNearestRank(sorted, 99),
    max   |-> Final(sorted) ]

\* Mutant: the rate divides the tokens, not the intervals between them, by
\* the whole request.
DeriveTimingOverRequest(elapsed, total) ==
  [ token_count       |-> Len(elapsed),
    ttft              |-> IF elapsed = <<>> THEN {} ELSE {First(elapsed)},
    total_latency     |-> total,
    tokens_per_second |-> IF Len(elapsed) < 2 THEN {} ELSE {<<Len(elapsed), total>>},
    inter_token_latency |->
      IF Len(elapsed) < 2 THEN {} ELSE {LatencyDistribution(Deltas(elapsed))} ]

\* The rate is intervals over the span from the first to the last token.
DeriveTiming(elapsed, total) ==
  LET span == Final(elapsed) - First(elapsed) IN
  [ token_count       |-> Len(elapsed),
    ttft              |-> IF elapsed = <<>> THEN {} ELSE {First(elapsed)},
    total_latency     |-> total,
    tokens_per_second |->
      IF Len(elapsed) < 2 \/ span <= 0 THEN {} ELSE {<<Len(elapsed) - 1, span>>},
    inter_token_latency |->
      IF Len(elapsed) < 2 THEN {} ELSE {LatencyDistribution(Deltas(elapsed))} ]

-----------------------------------------------------------------------------
(* derive_resource                                                         *)

\* Mutant: the difference is not saturating.
JiffyDeltaUnchecked(first, last) == last.user + last.system - (first.user + first.system)

\* Mutant: the time spent in the kernel is left out.
JiffyDeltaUser(first, last) == Max({0, last.user - first.user})

JiffyDelta(first, last) ==
  Max({0, last.user + last.system - (first.user + first.system)})

\* CPU work over wall time.  clock_tick_hz answers `ticks`: an empty set
\* stands for a platform that cannot, which is asked only when there are
\* two samples.
CpuMean(samples, ticks) ==
  LET wall == Max({0, Final(samples).at - First(samples).at}) IN
  IF Len(samples) < 2 \/ wall = 0 THEN {}
  ELSE {<<JiffyDelta(First(samples), Final(samples)), tick, wall>> : tick \in ticks}

ResourceFigures(samples, ticks) ==
  LET rss     == [i \in DOMAIN samples |-> samples[i].rss]
      threads == [i \in DOMAIN samples |-> samples[i].threads]
  IN [ sample_count |-> Len(samples),
       rss_min |-> Least(rss), rss_max |-> Greatest(rss),
       rss_mean |-> SumFunction(rss) \div Len(rss), rss_final |-> Final(rss),
       cpu_mean |-> CpuMean(samples, ticks),
       thread_min |-> Least(threads), thread_max |-> Greatest(threads) ]

\* Ok(None) is no figures; Err(UnknownClockTick) is an error.
DeriveResource(samples, ticks) ==
  [ err     |-> Len(samples) >= 2 /\ ticks = {},
    figures |-> IF samples = <<>> \/ (Len(samples) >= 2 /\ ticks = {}) THEN {}
                ELSE {ResourceFigures(samples, ticks)} ]

-----------------------------------------------------------------------------
\* Mutant: a run without tokens is given an efficiency.
DeriveEfficiencyAlways(energy, tokens) ==
  {[joules |-> e.mj, per_token |-> <<e.mj, tokens>>, per_joule |-> <<tokens, e.mj>>,
    source |-> e.source] : e \in energy}

\* derive_efficiency: nothing to divide gives no figure; tokens per watt is
\* tokens per joule.
DeriveEfficiency(energy, tokens) ==
  {[joules |-> e.mj, per_token |-> <<e.mj, tokens>>, per_joule |-> <<tokens, e.mj>>,
    source |-> e.source] : e \in {f \in energy : f.mj # 0 /\ tokens # 0}}
=============================================================================
