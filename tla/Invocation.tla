----------------------------- MODULE Invocation -----------------------------
(***************************************************************************)
(* The command line (inferscope, cli.rs and main.rs): the arguments that   *)
(* are accepted, the mode they select, what an invocation prints, and the  *)
(* reading of archived reports, of this build and of earlier ones.  What a *)
(* run measures is left open (modules Orchestrator and EngineCounters).    *)
(***************************************************************************)
EXTENDS Cost, Rendering

CONSTANTS
  GivenSets,      \* the sets of flags tried on the command line of a run
  BesideSets,     \* those tried beside a subcommand
  Rates,          \* the rates tried, each an Option: {} is not finite
  Trajectories,   \* TrajectoryMetrics a run may derive
  Archives,       \* sets of reports archived by earlier builds
  MaxRuns         \* a bound on the reports archived by this one

RunFlags ==
  { "endpoint", "model", "prompt", "max_tokens", "pid", "sample_period_ms", "metrics_endpoint",
    "engine", "page_size", "metrics_period_ms", "steps_file", "include_descendants",
    "sample_only", "duration_secs", "json" }

\* Of the optional features.
FeatureRunFlags == {"gpu", "otel_endpoint"}

AllFlags == RunFlags \cup FeatureRunFlags

RateFlags == {"usd_per_hour", "usd_per_kwh"}

\* EngineKind and --page-size.
EngineKinds == {"vllm", "sglang"}
PageSizes == {1, 16}

REPORT_SCHEMA_VERSION == 2
FIRST_VERSION_WITH_LORA == 2

ASSUME InvocationAssumption ==
  /\ GivenSets \cup BesideSets \subseteq SUBSET AllFlags
  /\ \A r \in Rates : r \subseteq Int /\ Cardinality(r) <= 1
  /\ \A reports \in Archives : \A r \in reports :
       r.shape \in {"probe", "resource"} /\ Cardinality(r.schema_version) <= 1
  /\ MaxRuns \in Nat

(* A report: its shape, what was recorded in it and, as history, what the  *)
(* build was and the engine it read: `by`.  A ResourceReport has a lora    *)
(* field, a Report has none.                                               *)

\* What an argument says is looked at only when its flag is given.
Argv(sets) ==
  { a \in [ given : sets, engine : EngineKinds, page_size : PageSizes,
            env : SUBSET {"otel_endpoint"}, steps : {"good", "broken"} ] :
      /\ "engine" \in a.given \/ a.engine = "vllm"
      /\ "page_size" \in a.given \/ a.page_size = 1
      /\ "steps_file" \in a.given \/ a.steps = "good" }

VARIABLES
  archive,     \* the reports archived
  args,        \* what is invoked, an Option
  command,     \* the cost subcommand, an Option: [report, rates, rate]
  pc,          \* "shell", "main", "run", "join", "print", "export" or "end"
  engine,      \* the Engine resolved, an Option
  report,      \* the report of the run, an Option
  printed,     \* what was written to stdout, an Option
  exported,    \* whether a span reached the collector
  exit         \* "none", "success", "failure" or "usage"

vars == <<archive, args, command, pc, engine, report, printed, exported, exit>>

Init ==
  /\ archive \in Archives
  /\ args = {} /\ command = {}
  /\ pc = "shell"
  /\ engine = {}
  /\ report = {}
  /\ printed = {}
  /\ exported = FALSE
  /\ exit = "none"

A == Some(args)

Given(flag) == flag \in A.given

Exit(code) == pc' = "end" /\ exit' = code

-----------------------------------------------------------------------------
(* Arguments.                                                              *)

\* Mutant: a scrape is accepted without a model.
RequirementsMetWithoutModel(given) ==
  /\ "sample_only" \in given \/ {"endpoint", "model", "prompt"} \subseteq given
  /\ "sample_only" \in given => "duration_secs" \in given
  /\ "metrics_endpoint" \in given => "engine" \in given

\* What clap requires of a run; a subcommand negates it.
RequirementsMet(given) ==
  /\ "sample_only" \in given \/ {"endpoint", "model", "prompt"} \subseteq given
  /\ "sample_only" \in given => "duration_secs" \in given
  /\ "metrics_endpoint" \in given => {"engine", "model"} \subseteq given

\* The two rates of `cost` exclude each other and one is required.
OneRate(c) == Cardinality(c.rates) = 1

\* Mutant: the flags of the optional features are not looked at.
RunFlagsBesideIgnoringFeatures(given) == given \cap RunFlags

\* The flags written on the command line; one set in the environment is not.
RunFlagsBeside(given) == given \cap (RunFlags \cup FeatureRunFlags)

\* parse_checked.
Accepted(a, c) ==
  IF c = {} THEN RequirementsMet(a.given)
  ELSE OneRate(Some(c)) /\ RunFlagsBeside(a.given) = {}

Commands == [report : archive, rates : SUBSET RateFlags, rate : Rates]

\* Mutant: a page size that is not given is made up.
EngineOfDefaultSize(a) ==
  CASE "engine" \notin a.given -> [ok |-> TRUE, engine |-> {}]
    [] "engine" \in a.given /\ a.engine = "vllm" ->
         [ok |-> "page_size" \notin a.given, engine |-> {[kind |-> "vllm"]}]
    [] OTHER ->
         [ ok |-> TRUE, engine |-> {[ kind |-> "sglang", page_size |->
                                      IF "page_size" \in a.given THEN a.page_size ELSE 0 ]} ]

\* Args::engine: a page size is for SGLang, which needs one.
EngineOf(a) ==
  CASE "engine" \notin a.given -> [ok |-> TRUE, engine |-> {}]
    [] "engine" \in a.given /\ a.engine = "vllm" ->
         [ok |-> "page_size" \notin a.given, engine |-> {[kind |-> "vllm"]}]
    [] OTHER ->
         [ok |-> "page_size" \in a.given, engine |-> {[kind |-> "sglang", page_size |-> a.page_size]}]

\* Engine::accounting.
Accounting(e) == IF e.kind = "sglang" /\ e.page_size = 1 THEN "exact_tokens" ELSE "block_aligned"

\* What earlier builds archived: the first wrote no version and read vLLM
\* alone (ADR-014), the next records the accounting, and neither a LoRA read
\* (ADR-017).
ByEarlierBuild(r) ==
  /\ r.by.build \in 0..(REPORT_SCHEMA_VERSION - 1)
  /\ r.schema_version = {v \in {r.by.build} : v > 0}
  /\ r.lora = {}
  /\ \A kv \in r.kvcache :
       IF r.by.build = 0
       THEN r.by.engine = {[kind |-> "vllm"]} /\ kv.accounting = {}
       ELSE kv.accounting = {Accounting(Some(r.by.engine))}

\* What a derivation leaves of a run (module PricedTrajectory): on either
\* basis the steps and what is unattributed are no more than a run measured.
Apportioned(t) ==
  \A basis \in {Occupancy(1), PerEnergy(1)} :
    LET q == Quantities(t, basis)
    IN /\ q.run \in Nat /\ q.unattributed \in Nat
       /\ IsFiniteSet(DOMAIN q.steps) /\ \A i \in DOMAIN q.steps : q.steps[i] \in Nat
       /\ q.run > 0 => SumFunction(q.steps) + q.unattributed <= q.run

ASSUME ArchivesAssumption ==
  /\ \A t \in Trajectories : Apportioned(t)
  /\ \A reports \in Archives : \A r \in reports :
       ByEarlierBuild(r) /\ \A t \in r.trajectory : Apportioned(t)

Parse(a, c) ==
  /\ args' = {a} /\ command' = c
  /\ IF Accepted(a, c) THEN pc' = "main" /\ UNCHANGED exit ELSE Exit("usage")
  /\ UNCHANGED <<archive, engine, report, printed, exported>>

InvokeRun ==
  /\ pc = "shell"
  /\ Cardinality({r \in archive : r.by.build = REPORT_SCHEMA_VERSION}) < MaxRuns
  /\ \E a \in Argv(GivenSets) : Parse(a, {})

InvokeCost ==
  /\ pc = "shell"
  /\ \E a \in Argv(BesideSets), c \in Commands : Parse(a, {c})

-----------------------------------------------------------------------------
(* A run.                                                                  *)

ResolveEngine ==
  /\ pc = "main" /\ command = {}
  /\ IF EngineOf(A).ok
     THEN pc' = "run" /\ engine' = EngineOf(A).engine /\ UNCHANGED exit
     ELSE Exit("failure") /\ UNCHANGED engine
  /\ UNCHANGED <<archive, args, command, report, printed, exported>>

\* The process of --pid does not exist, the probe fails or derivation does.
RunFails ==
  /\ pc = "run"
  /\ Exit("failure")
  /\ UNCHANGED <<archive, args, command, engine, report, printed, exported>>

\* Scrapes need the endpoint, the model and the engine.
Scraped == Given("metrics_endpoint") /\ Given("model") /\ engine # {}

\* What is recorded of the engine.  A rate may be withheld, and a task that
\* panics leaves no timeline.
Assembled(shape, timeline, rate, lora) ==
  [ shape            |-> shape,
    schema_version   |-> {REPORT_SCHEMA_VERSION},
    kvcache_timeline |-> timeline /\ Scraped,
    kvcache          |-> IF timeline /\ rate /\ Scraped
                         THEN {[accounting |-> {Accounting(Some(engine))}]} ELSE {},
    lora             |-> IF shape = "resource" /\ Scraped THEN {lora} ELSE {},
    trajectory       |-> {},
    by               |-> [ build  |-> REPORT_SCHEMA_VERSION,
                           engine |-> IF Scraped THEN engine ELSE {} ] ]

\* A sample-only run needs a process to attach to and a duration.
Run ==
  /\ pc = "run"
  /\ Given("sample_only") => Given("pid") /\ Given("duration_secs")
  /\ \E timeline, rate \in BOOLEAN, lora \in {"latest", "read_failed"} :
       report' = {Assembled(IF Given("sample_only") THEN "resource" ELSE "probe",
                            timeline, rate, lora)}
  /\ pc' = "join"
  /\ UNCHANGED <<archive, args, command, engine, printed, exported, exit>>

\* read_steps and the join; a file that is broken is fatal after the run.
JoinSteps ==
  /\ pc = "join"
  /\ IF ~Given("steps_file")
     THEN pc' = "print" /\ UNCHANGED <<report, exit>>
     ELSE IF A.steps = "broken" THEN Exit("failure") /\ UNCHANGED report
     ELSE /\ \E t \in {{}} \cup {{d} : d \in Trajectories} :
               report' = {[Some(report) EXCEPT !.trajectory = t]}
          /\ pc' = "print"
          /\ UNCHANGED exit
  /\ UNCHANGED <<archive, args, command, engine, printed, exported>>

\* Mutant: a sample-only run prints text unless JSON is asked for.
FormatAsAsked(shape) == IF Given("json") THEN "json" ELSE "text"

Format(shape) == IF Given("json") \/ shape = "resource" THEN "json" ELSE "text"

\* A ResourceReport is always JSON, and is not exported.
PrintReport ==
  /\ pc = "print"
  /\ LET r == Some(report) IN
     /\ printed' = {[format |-> Format(r.shape), report |-> r]}
     /\ archive' = IF Format(r.shape) = "json" THEN archive \cup {r} ELSE archive
     /\ IF r.shape = "probe" THEN pc' = "export" /\ UNCHANGED exit ELSE Exit("success")
  /\ UNCHANGED <<args, command, engine, report, exported>>

\* Of the flag or of the environment; a failure is only warned of.
Export ==
  /\ pc = "export"
  /\ \E ok \in BOOLEAN : exported' = (ok /\ (Given("otel_endpoint") \/ A.env # {}))
  /\ Exit("success")
  /\ UNCHANGED <<archive, args, command, engine, report, printed>>

-----------------------------------------------------------------------------
(* cost --report.                                                          *)

\* Mutant: the sign of a rate is not looked at.
CheckedRateFinite(rate) == rate

\* checked_rate, an Option.
CheckedRate(rate) == {v \in rate : v > 0}

\* The flag that was given.
BasisOf(c, rate) ==
  IF c.rates = {"usd_per_hour"} THEN Occupancy(rate) ELSE PerEnergy(rate)

\* serde reads the fields a ResourceReport must have.
Parses(r) == r.shape = "resource"

DeriveCostFromReport(c) ==
  CASE CheckedRate(c.rate) = {} -> [refused |-> "rate"]
    [] CheckedRate(c.rate) # {} /\ ~Parses(c.report) -> [refused |-> "unreadable"]
    [] CheckedRate(c.rate) # {} /\ Parses(c.report) /\ c.report.trajectory = {} ->
         [refused |-> "no_trajectory"]
    [] OTHER ->
         LET cost == DeriveCost(Some(c.report.trajectory), BasisOf(c, Some(CheckedRate(c.rate))))
         IN IF cost = {} THEN [refused |-> "nothing_to_price"]
            ELSE [cost |-> RenderCost(Some(cost))]

RunCommand ==
  /\ pc = "main" /\ command # {}
  /\ LET answer == DeriveCostFromReport(Some(command)) IN
     IF "refused" \in DOMAIN answer
     THEN Exit("failure") /\ UNCHANGED printed
     ELSE Exit("success") /\ printed' = {answer}
  /\ UNCHANGED <<archive, args, command, engine, report, exported>>

-----------------------------------------------------------------------------
\* Mutant: a report as new as the field is taken for one that predates it.
LoraProvenanceLater(schema_version, lora) ==
  CASE lora # {} -> "recorded"
    [] lora = {} /\ \E v \in schema_version : v > FIRST_VERSION_WITH_LORA -> "not_recorded"
    [] OTHER -> "predates"

\* LoraProvenance::resolve.
LoraProvenance(schema_version, lora) ==
  CASE lora # {} -> "recorded"
    [] lora = {} /\ \E v \in schema_version : v >= FIRST_VERSION_WITH_LORA -> "not_recorded"
    [] OTHER -> "predates"

-----------------------------------------------------------------------------
\* The next invocation.
Again ==
  /\ pc = "end"
  /\ pc' = "shell" /\ exit' = "none"
  /\ args' = {} /\ command' = {} /\ engine' = {} /\ report' = {} /\ printed' = {}
  /\ exported' = FALSE
  /\ UNCHANGED archive

Next ==
  \/ InvokeRun \/ InvokeCost
  \/ ResolveEngine \/ RunFails \/ Run \/ JoinSteps \/ PrintReport \/ Export
  \/ RunCommand
  \/ Again

Spec == Init /\ [][Next]_vars

-----------------------------------------------------------------------------
Engines == {[kind |-> "vllm"]} \cup [kind : {"sglang"}, page_size : PageSizes]

TypeOK ==
  /\ pc \in {"shell", "main", "run", "join", "print", "export", "end"}
  /\ args = {} \/ \E a \in Argv(GivenSets \cup BesideSets) : args = {a}
  /\ command \subseteq Commands
  /\ \A set \in {args, command, engine, report, printed} : Cardinality(set) <= 1
  /\ engine \subseteq Engines
  /\ exit \in {"none", "success", "failure", "usage"}
  /\ (pc = "end") = (exit # "none")
  /\ \A r \in archive : r.shape \in {"probe", "resource"} /\ Cardinality(r.schema_version) <= 1

(* What the code takes for granted after parsing: that the three           *)
(* expect()s of a probe run "cannot fire", that "clap guarantees --engine  *)
(* is present whenever --metrics-endpoint is", so that an endpoint is      *)
(* never silently not scraped, that a page size is given and never made    *)
(* up, and that exactly one rate is given (main.rs), although a subcommand *)
(* negates every requirement.  And "a cost derivation and no run, with     *)
(* nothing said about the flags that were dropped" (cli.rs) does not       *)
(* happen: a subcommand that is carried out had no flag of a run written   *)
(* beside it, whatever the features and the environment.                   *)
ArgumentsAreChecked ==
  /\ TypeOK
  /\ pc = "run" =>
       /\ Given("sample_only") \/ {"endpoint", "model", "prompt"} \subseteq A.given
       /\ Given("metrics_endpoint") => Scraped
       /\ \A e \in engine : (e.kind = "sglang") = Given("page_size")
  /\ pc = "main" => \A c \in command : \E flag \in RateFlags : c.rates = {flag}
  /\ command # {} /\ exit \in {"success", "failure"} => A.given = {}

(* Success of a run means that the endpoint given was scraped, the steps   *)
(* given were joined, and what a machine is to read was printed as JSON    *)
(* and kept whole; a span was exported only if asked for (a sample-only    *)
(* run drops --otel-endpoint, and a failing export changes nothing).       *)
(* Otherwise nothing at all was printed or exported, so that no archive    *)
(* holds half a report.                                                    *)
SuccessMeansAllWasDone ==
  pc = "end" =>
    IF exit = "success"
    THEN command = {} =>
           \A p \in printed :
             /\ Given("metrics_endpoint") => p.report.by.engine # {}
             /\ Given("steps_file") => A.steps = "good"
             /\ Given("json") \/ Given("sample_only") => p.format = "json" /\ p.report \in archive
             /\ exported => Given("otel_endpoint") \/ "otel_endpoint" \in A.env
    ELSE printed = {} /\ ~exported

(* What readers make of an archived report is true of the build that wrote *)
(* it: an accounting is called measured only when it was recorded, and     *)
(* assumed to be block-aligned only of builds that knew vLLM alone         *)
(* (ADR-014 D7); a missing LoRA read is put down to the age of a build     *)
(* only when it could not record one (ADR-017).                            *)
ProvenanceIsTrue ==
  \A r \in archive :
    /\ \A kv \in r.kvcache :
         LET p == Resolve(r.schema_version, kv.accounting) IN
         /\ p.kind = "measured" => r.by.build > 0 /\ p.accounting = Accounting(Some(r.by.engine))
         /\ p.kind = "assumed"  => r.by.build = 0 /\ r.by.engine = {[kind |-> "vllm"]}
         /\ p.kind # "unknown"
    /\ LET p == LoraProvenance(r.schema_version, r.lora) IN
         /\ (p = "predates") = (r.by.build < FIRST_VERSION_WITH_LORA)
         /\ p = "not_recorded" => r.by.engine = {} \/ r.shape = "probe"

(* "Absence of the underlying measurement is withheld, not priced at zero" *)
(* (cost.rs): what is printed is the price of a quantity that was measured *)
(* and recorded, at a rate above zero, and its parts are no more than the  *)
(* run.                                                                    *)
PricesOnlyMeasurements ==
  pc = "end" =>
    \A c \in command : \A p \in printed :
      \E t \in c.report.trajectory :
        /\ p.cost.run > 0
        /\ (IF c.rates = {"usd_per_hour"} THEN t.run_duration ELSE t.total_energy) > 0
        /\ p.cost.attributed <= p.cost.run
        /\ \A share \in {p.cost.generating, p.cost.in_tools, p.cost.unattributed} :
             0 <= share[1] /\ share[1] <= share[2]
=============================================================================
