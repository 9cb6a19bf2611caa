---------------------------- MODULE MCInvocation ----------------------------
(* The flags that decide the mode and what a run is asked for, with each   *)
(* of the others alone beside a subcommand; a trajectory with and one      *)
(* without energy, and reports of the builds before ADR-014, of the one    *)
(* before ADR-017 and of a probe.                                          *)
EXTENDS Invocation

Probe == {"endpoint", "model", "prompt"}

Asked == {"metrics_endpoint", "engine", "page_size", "steps_file", "json", "otel_endpoint"}

Modes ==
  { Probe, Probe \ {"prompt"}, Probe \cup {"pid"}, {"sample_only"},
    {"sample_only", "duration_secs"}, {"sample_only", "duration_secs", "pid"},
    {"sample_only", "duration_secs", "pid", "model"} }

SomeGiven == { mode \cup asked : mode \in Modes, asked \in SUBSET Asked }

SomeBeside == { {} } \cup { {flag} : flag \in AllFlags } \cup { Probe }

Step(id, kind, start, end, energy, generation) ==
  [ step_id |-> id, kind |-> kind, start |-> start, end |-> end, energy_mj |-> energy,
    deltas |-> [generation |-> generation] ]

T(run, gap, energy, steps) ==
  [ run_duration |-> run, unattributed_duration |-> gap, total_energy |-> energy,
    unattributed_energy |-> energy \div 3, total_generation_tokens |-> 4, steps |-> steps ]

SomeTrajectories ==
  { T(9, 2, 6, << Step(1, "llm_call", 1, 5, 3, {4}), Step(2, "tool", 5, 8, 1, {0}) >>),
    T(9, 9, 0, <<>>), T(0, 0, 0, <<>>) }

\* Without durations, as a build before ADR-015 wrote it.
Undated == T(0, 0, 6, << Step(1, "llm_call", 1, 5, 3, {4}), Step(2, "tool", 5, 8, 1, {}) >>)

Archived(shape, version, accounting, trajectory, build, e) ==
  [ shape |-> shape, schema_version |-> version, kvcache_timeline |-> TRUE,
    kvcache |-> {[accounting |-> accounting]}, lora |-> {}, trajectory |-> trajectory,
    by |-> [build |-> build, engine |-> {e}] ]

OldReports ==
  { Archived("resource", {}, {}, {Undated}, 0, [kind |-> "vllm"]),
    Archived("resource", {1}, {"exact_tokens"}, {Undated}, 1, [kind |-> "sglang", page_size |-> 1]),
    Archived("probe", {1}, {"block_aligned"}, {}, 1, [kind |-> "sglang", page_size |-> 16]) }

SomeArchives == {OldReports}

\* Not finite, negative, zero and positive.
SomeRates == {{}, {-1}, {0}, {2}}
=============================================================================
