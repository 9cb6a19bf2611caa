----------------------------- MODULE Rendering ------------------------------
(***************************************************************************)
(* The text of a report (is-report, render.rs): which sections it has, in  *)
(* which order, and what each states.  A section is a record of what it    *)
(* says; units, widths and rounding are left out.  An Option is a set of   *)
(* at most one value.                                                      *)
(***************************************************************************)
EXTENDS Naturals, Sequences

Some(option) == CHOOSE v \in option : TRUE

\* Some value, or what is said in its place.
Or(option, otherwise) == IF option = {} THEN [said |-> otherwise] ELSE [value |-> Some(option)]

\* A section that is there only when its data is.
Shown(option, Section(_)) == IF option = {} THEN <<>> ELSE <<Section(Some(option))>>

-----------------------------------------------------------------------------
(* What a reader makes of the accounting of a hit rate (metrics.rs).       *)

\* Mutant: an accounting that is missing is taken for the recorded one.
ResolveByDefault(schema_version, accounting) ==
  [kind |-> "measured", accounting |-> IF accounting = {} THEN "block_aligned" ELSE Some(accounting)]

\* HitRateProvenance::resolve.
Resolve(schema_version, accounting) ==
  CASE accounting # {} -> [kind |-> "measured", accounting |-> Some(accounting)]
    [] accounting = {} /\ schema_version = {} ->
         [kind |-> "assumed", accounting |-> "block_aligned"]
    [] OTHER           -> [kind |-> "unknown", accounting |-> "none"]

-----------------------------------------------------------------------------
ProbeSummary(timing) ==
  [ section |-> "probe_summary", tokens |-> timing.token_count,
    first_token |-> Or(timing.ttft, "no tokens produced"),
    rate        |-> Or(timing.tokens_per_second, "not enough tokens"),
    total       |-> timing.total_latency ]

InterTokenLatency(dist) == [section |-> "inter_token_latency", dist |-> dist]

ResourceUsage(res) ==
  [ section |-> "resource_usage", samples |-> res.sample_count,
    cpu     |-> Or(res.cpu_mean, "not enough samples"),
    threads |-> IF res.thread_min = res.thread_max THEN <<res.thread_min>>
                ELSE <<res.thread_min, res.thread_max>> ]

GpuUsage(gpu) == [section |-> "gpu_usage", devices |-> gpu.device_count]

PerDeviceGpuUsage(gpu) == [section |-> "per_device_gpu_usage", devices |-> gpu.device_count]

Efficiency(eff) ==
  [section |-> "efficiency", source |-> eff.source, per_token |-> eff.per_token]

KvCache(kv, schema_version) ==
  [ section |-> "kvcache", rate |-> <<kv.hits_delta, kv.queries_delta>>,
    accounting |-> Resolve(schema_version, kv.accounting) ]

\* Mutant: the reasons for none and for one sample are one.
WithheldReasonByTwo(timeline) ==
  IF Len(timeline) < 2 THEN "one scrape" ELSE "regressed or no queries"

\* Why an endpoint that was scraped gives no rate, told by the samples kept.
WithheldReason(timeline) ==
  CASE Len(timeline) = 0 -> "no usable scrape"
    [] Len(timeline) = 1 -> "one scrape"
    [] OTHER             -> "regressed or no queries"

KvCacheWithheld(timeline) == [section |-> "kvcache", withheld |-> WithheldReason(timeline)]

\* Mutant: a scraped endpoint without a rate leaves no section.
KvCacheSectionSilent(report) ==
  Shown(report.kvcache, LAMBDA kv : KvCache(kv, report.schema_version))

\* A rate, or why there is none, or nothing when nothing was scraped.
KvCacheSection(report) ==
  IF report.kvcache # {}
  THEN Shown(report.kvcache, LAMBDA kv : KvCache(kv, report.schema_version))
  ELSE Shown(report.kvcache_timeline, KvCacheWithheld)

RenderText(report) ==
  <<ProbeSummary(report.timing)>>
    \o Shown(report.timing.inter_token_latency, InterTokenLatency)
    \o Shown(report.resource, ResourceUsage)
    \o Shown(report.gpu, GpuUsage)
    \o Shown({g \in report.gpu : g.device_count > 1}, PerDeviceGpuUsage)
    \o Shown(report.efficiency, Efficiency)
    \o KvCacheSection(report)
=============================================================================
