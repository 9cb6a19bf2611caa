----------------------------- MODULE OtelExport -----------------------------
(***************************************************************************)
(* The OpenTelemetry span of a report (is-report, otel.rs): one root span, *)
(* the derived figures as its attributes, the tokens as its events.  An    *)
(* Option is a set of at most one value; a span's attributes are a         *)
(* function from their names.                                              *)
(***************************************************************************)
EXTENDS Integers, Sequences, TLC

\* Mutant: the span starts when the report is exported.
SpanStartAtExport(report, exported_at) == exported_at

\* The run's anchor, or the time of export, which comes after the joins, the
\* derivations and the text, less the request's latency.
SpanStart(report, exported_at) ==
  IF report.anchor # {} THEN CHOOSE a \in report.anchor : TRUE
  ELSE exported_at - report.timing.total_latency

\* Each attribute with the Option it is set from.
TimingAttributes(timing) ==
  {<<"token_count", {timing.token_count}>>, <<"total_latency_ns", {timing.total_latency}>>,
   <<"ttft_ns", timing.ttft>>, <<"tokens_per_second", timing.tokens_per_second>>,
   <<"inter_token_p50_ns", {d.p50 : d \in timing.inter_token_latency}>>,
   <<"inter_token_p99_ns", {d.p99 : d \in timing.inter_token_latency}>>,
   <<"inter_token_max_ns", {d.max : d \in timing.inter_token_latency}>>}

ResourceAttributes(resource) ==
  {<<"rss_max_bytes", {r.rss_max : r \in resource}>>,
   <<"rss_mean_bytes", {r.rss_mean : r \in resource}>>,
   <<"thread_max", {r.thread_max : r \in resource}>>,
   <<"cpu_mean_percent", UNION {r.cpu_mean : r \in resource}>>}

GpuAttributes(gpu) ==
  {<<"device_count", {g.device_count : g \in gpu}>>,
   <<"memory_used_max_bytes", {g.memory_used_max : g \in gpu}>>,
   <<"utilization_mean_percent", {g.utilization_mean : g \in gpu}>>,
   <<"power_mean_milliwatts", {g.power_mean : g \in gpu}>>,
   <<"temperature_max_celsius", {g.temperature_max : g \in gpu}>>}

EfficiencyAttributes(efficiency) ==
  {<<"energy_joules", {e.joules : e \in efficiency}>>,
   <<"energy_per_token_mj", {e.per_token : e \in efficiency}>>,
   <<"tokens_per_joule", {e.per_joule : e \in efficiency}>>,
   <<"energy_source", {e.source : e \in efficiency}>>}

Attributes(report) ==
  LET set == {a \in TimingAttributes(report.timing) \cup ResourceAttributes(report.resource)
                      \cup GpuAttributes(report.gpu)
                      \cup EfficiencyAttributes(report.efficiency) : a[2] # {}}
  IN [n \in {a[1] : a \in set} |-> CHOOSE v \in UNION {a[2] : a \in {b \in set : b[1] = n}} : TRUE]

\* export_to_otel; the end is the start and the request's latency.
Span(report, exported_at) ==
  LET start == SpanStart(report, exported_at) IN
  [ start      |-> start,
    end        |-> start + report.timing.total_latency,
    attributes |-> Attributes(report),
    events     |-> [ i \in DOMAIN report.tokens |-> start + report.tokens[i] ] ]
=============================================================================
