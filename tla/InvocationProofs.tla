-------------------------- MODULE InvocationProofs --------------------------
(***************************************************************************)
(* Proofs about invocations: whatever is written on the command line, in   *)
(* the environment and in the archive, what the code relies on after       *)
(* parsing holds, success means that all that was asked was done, what a   *)
(* reader makes of a report is true of its build, and what is priced was   *)
(* measured.                                                               *)
(***************************************************************************)
EXTENDS Invocation, FiniteLemmas, FiniteSetTheorems, TLAPS

\* An Option is empty or holds one value.
IsOption(S) == S = {} \/ \E v \in S : S = {v}

\* An Option holds at most one value.
LEMMA OptionCardinality ==
  ASSUME NEW S, IsOption(S)
  PROVE  Cardinality(S) <= 1
<1>1. CASE S = {}
  <2>1. Cardinality(S) = 0
    BY <1>1, FS_EmptySet
  <2> QED BY <2>1
<1>2. ASSUME NEW v, S = {v}
      PROVE  Cardinality(S) <= 1
  <2>1. Cardinality(S) = 1
    BY <1>2, FS_Singleton
  <2> QED BY <2>1
<1> QED BY <1>1, <1>2 DEF IsOption

\* The value of an Option that holds one.
LEMMA SomeOfOne == ASSUME NEW v PROVE Some({v}) = v
BY DEF Some

\* The flags a command line can hold.
LEMMA ArgvFlags ==
  ASSUME NEW a \in Argv(GivenSets \cup BesideSets)
  PROVE  a.given \subseteq AllFlags
BY InvocationAssumption DEF Argv, InvocationAssumption

\* Both kinds of command lines are command lines.
LEMMA ArgvWidens ==
  /\ Argv(GivenSets) \subseteq Argv(GivenSets \cup BesideSets)
  /\ Argv(BesideSets) \subseteq Argv(GivenSets \cup BesideSets)
BY DEF Argv

\* The engine that is resolved is one, and a page size makes it SGLang.
LEMMA EngineIsResolved ==
  ASSUME NEW a \in Argv(GivenSets \cup BesideSets), EngineOf(a).ok
  PROVE  /\ EngineOf(a).engine \subseteq Engines /\ IsOption(EngineOf(a).engine)
         /\ EngineOf(a).engine = {} <=> "engine" \notin a.given
         /\ \A e \in EngineOf(a).engine : (e.kind = "sglang") = ("page_size" \in a.given)
<1>1. CASE "engine" \notin a.given
  <2>1. EngineOf(a).engine = {}
    BY <1>1 DEF EngineOf
  <2> QED BY <1>1, <2>1 DEF IsOption
<1>2. CASE "engine" \in a.given /\ a.engine = "vllm"
  <2>1. EngineOf(a) = [ok |-> "page_size" \notin a.given, engine |-> {[kind |-> "vllm"]}]
    BY <1>2 DEF EngineOf
  <2>2. EngineOf(a).engine = {[kind |-> "vllm"]}
    BY <2>1
  <2>3. ASSUME "page_size" \in a.given PROVE FALSE
    <3>1. EngineOf(a) = [ok |-> FALSE, engine |-> {[kind |-> "vllm"]}]
      BY <1>2, <2>3 DEF EngineOf
    <3> QED BY <3>1
  <2>4. ~("page_size" \in a.given)
    BY <2>3
  <2>5. \A e \in EngineOf(a).engine : e.kind # "sglang"
    BY <2>2
  <2>6. \A e \in EngineOf(a).engine : (e.kind = "sglang") = ("page_size" \in a.given)
    BY <2>4, <2>5
  <2> QED BY <1>2, <2>2, <2>6 DEF IsOption, Engines
<1>3. CASE "engine" \in a.given /\ a.engine # "vllm"
  <2>1. EngineOf(a) = [ ok     |-> "page_size" \in a.given,
                        engine |-> {[kind |-> "sglang", page_size |-> a.page_size]} ]
    BY <1>3 DEF EngineOf
  <2>2. EngineOf(a).engine = {[kind |-> "sglang", page_size |-> a.page_size]}
    BY <2>1
  <2>4. ASSUME "page_size" \notin a.given PROVE FALSE
    <3>1. EngineOf(a) = [ ok     |-> FALSE,
                          engine |-> {[kind |-> "sglang", page_size |-> a.page_size]} ]
      BY <1>3, <2>4 DEF EngineOf
    <3> QED BY <3>1
  <2>5. "page_size" \in a.given
    BY <2>4
  <2>6. \A e \in EngineOf(a).engine : e.kind = "sglang"
    BY <2>2
  <2>7. \A e \in EngineOf(a).engine : (e.kind = "sglang") = ("page_size" \in a.given)
    BY <2>5, <2>6
  <2>3. [kind |-> "sglang", page_size |-> a.page_size] \in Engines
    BY DEF Argv, Engines
  <2> QED BY <1>3, <2>2, <2>3, <2>7 DEF IsOption
<1> QED BY <1>1, <1>2, <1>3

-----------------------------------------------------------------------------
(* The inductive invariant.                                                *)

ReportFields ==
  {"shape", "schema_version", "kvcache_timeline", "kvcache", "lora", "trajectory", "by"}

IsReport(r) == r.shape \in {"probe", "resource"} /\ Cardinality(r.schema_version) <= 1

\* TypeOK, with Options for cardinalities, and what each stage has.
OptionInv ==
  /\ pc \in {"shell", "main", "run", "join", "print", "export", "end"}
  /\ exit \in {"none", "success", "failure", "usage"}
  /\ (pc = "end") = (exit # "none")
  /\ IsOption(args) /\ args \subseteq Argv(GivenSets \cup BesideSets)
  /\ IsOption(command) /\ command \subseteq Commands
  /\ IsOption(engine) /\ engine \subseteq Engines
  /\ IsOption(report) /\ IsOption(printed)
  /\ \A r \in archive \cup report : IsReport(r)
  /\ \A r \in report : ReportFields \subseteq DOMAIN r
  /\ pc # "shell" => args # {}
  /\ pc \in {"join", "print", "export"} => report # {}

\* The first invocation has nothing yet.
LEMMA OptionInit == Init => OptionInv
BY InvocationAssumption DEF Init, OptionInv, IsOption, IsReport, InvocationAssumption

\* There is one command line at a time.
LEMMA OneArgs ==
  ASSUME OptionInv, pc # "shell"
  PROVE  args = {A} /\ A \in Argv(GivenSets \cup BesideSets)
<1>1. PICK v : args = {v}
  BY DEF OptionInv, IsOption
<1> QED BY <1>1, SomeOfOne DEF OptionInv, A

\* There is one report at a time.
LEMMA OneReport ==
  ASSUME OptionInv, pc \in {"join", "print", "export"}
  PROVE  report = {Some(report)}
<1>1. PICK v : report = {v}
  BY DEF OptionInv, IsOption
<1> QED BY <1>1, SomeOfOne

\* What a run assembles is a report.
LEMMA AssembledIsReport ==
  ASSUME NEW shape \in {"probe", "resource"}, NEW timeline, NEW rate, NEW l
  PROVE  /\ IsReport(Assembled(shape, timeline, rate, l))
         /\ ReportFields
              \subseteq DOMAIN Assembled(shape, timeline, rate, l)
         /\ Assembled(shape, timeline, rate, l).shape = shape
         /\ Assembled(shape, timeline, rate, l).by.engine = IF Scraped THEN engine ELSE {}
<1>1. Cardinality({REPORT_SCHEMA_VERSION}) = 1
  BY FS_Singleton
<1> QED BY <1>1 DEF Assembled, IsReport, ReportFields

\* Every step keeps the Options.
LEMMA OptionStep == OptionInv /\ [Next]_vars => OptionInv'
<1> SUFFICES ASSUME OptionInv, [Next]_vars PROVE OptionInv'
  OBVIOUS
<1> USE DEF OptionInv, ReportFields
<1>1. ASSUME archive \subseteq archive' PROVE command \subseteq Commands'
  BY <1>1 DEF Commands
<1>2. CASE InvokeRun
  BY <1>2, ArgvWidens DEF InvokeRun, Parse, Exit, IsOption
<1>3. CASE InvokeCost
  <2>1. PICK a \in Argv(BesideSets), c \in Commands : Parse(a, {c})
    BY <1>3 DEF InvokeCost
  <2>2. command' = {c} /\ args' = {a} /\ archive' = archive
    BY <2>1 DEF Parse
  <2>3. command' \subseteq Commands'
    BY <2>2 DEF Commands
  <2> QED BY <1>3, <2>1, <2>2, <2>3, ArgvWidens DEF InvokeCost, Parse, Exit, IsOption
<1>4. CASE ResolveEngine
  <2>1. UNCHANGED <<archive, args, command, report, printed>> /\ pc = "main"
    BY <1>4 DEF ResolveEngine
  <2>2. IsOption(engine') /\ engine' \subseteq Engines
    <3>1. CASE EngineOf(A).ok
      BY <1>4, <2>1, <3>1, EngineIsResolved, OneArgs DEF ResolveEngine
    <3>2. CASE ~EngineOf(A).ok
      BY <1>4, <3>2 DEF ResolveEngine
    <3> QED BY <3>1, <3>2
  <2>3. (pc' = "run" /\ exit' = exit) \/ (pc' = "end" /\ exit' = "failure")
    BY <1>4 DEF ResolveEngine, Exit
  <2> QED BY <1>1, <2>1, <2>2, <2>3
<1>5. CASE RunFails
  BY <1>1, <1>5 DEF RunFails, Exit
<1>6. CASE Run
  <2>1. PICK shape \in {"probe", "resource"}, timeline \in BOOLEAN, rate \in BOOLEAN,
             l \in {"latest", "read_failed"} :
               report' = {Assembled(shape, timeline, rate, l)}
    BY <1>6 DEF Run
  <2>2. /\ IsOption(report') /\ report' # {} /\ \A r \in report' : IsReport(r)
        /\ \A r \in report' : ReportFields \subseteq DOMAIN r
    BY <2>1, AssembledIsReport DEF IsOption
  <2> QED BY <1>1, <1>6, <2>2 DEF Run
<1>7. CASE JoinSteps
  <2>1. /\ UNCHANGED <<archive, args, command, engine, printed>> /\ pc = "join"
        /\ (pc' = "print" /\ exit' = exit) \/ (pc' = "end" /\ exit' = "failure")
    BY <1>7 DEF JoinSteps, Exit
  <2>2. /\ report = {Some(report)} /\ IsReport(Some(report))
        /\ ReportFields \subseteq DOMAIN Some(report)
    BY <2>1, OneReport
  <2>3. \/ report' = report
        \/ \E t : report' = {[Some(report) EXCEPT !.trajectory = t]}
    BY <1>7 DEF JoinSteps
  <2>4. /\ IsOption(report') /\ report' # {} /\ \A r \in report' : IsReport(r)
        /\ \A r \in report' : ReportFields \subseteq DOMAIN r
    <3>1. CASE report' = report
      BY <2>2, <3>1 DEF IsOption
    <3>2. ASSUME NEW t, report' = {[Some(report) EXCEPT !.trajectory = t]}
          PROVE  <2>4!:
      BY <2>2, <3>2 DEF IsOption, IsReport
    <3> QED BY <2>3, <3>1, <3>2
  <2> QED BY <1>1, <2>1, <2>4
<1>8. CASE PrintReport
  <2>1. /\ UNCHANGED <<args, command, engine, report>> /\ pc = "print"
        /\ (pc' = "export" /\ exit' = exit) \/ (pc' = "end" /\ exit' = "success")
    BY <1>8 DEF PrintReport, Exit
  <2>2. report = {Some(report)} /\ IsReport(Some(report))
    BY <2>1, OneReport
  <2>3. archive' \in {archive, archive \cup {Some(report)}} /\ IsOption(printed')
    BY <1>8 DEF PrintReport, IsOption
  <2> QED BY <1>1, <2>1, <2>2, <2>3
<1>9. CASE Export
  BY <1>1, <1>9 DEF Export, Exit
<1>10. CASE RunCommand
  BY <1>1, <1>10 DEF RunCommand, Exit, IsOption
<1>11. CASE Again
  BY <1>11 DEF Again, IsOption
<1>12. CASE UNCHANGED vars
  BY <1>1, <1>12 DEF vars
<1> QED
  BY <1>2, <1>3, <1>4, <1>5, <1>6, <1>7, <1>8, <1>9, <1>10, <1>11, <1>12 DEF Next

\* TypeOK is what the Options say.
LEMMA OptionTypes ==
  ASSUME OptionInv
  PROVE  TypeOK
<1>1. args = {} \/ \E a \in Argv(GivenSets \cup BesideSets) : args = {a}
  BY DEF OptionInv, IsOption
<1>2. \A set \in {args, command, engine, report, printed} : Cardinality(set) <= 1
  BY OptionCardinality DEF OptionInv
<1> QED BY <1>1, <1>2 DEF TypeOK, OptionInv, IsReport

-----------------------------------------------------------------------------
(* What is checked of the arguments, and where it holds.                   *)

\* An invocation past its arguments was accepted, and a run has its engine.
AcceptedInv ==
  /\ pc = "main" \/ exit \in {"success", "failure"} => Accepted(A, command)
  /\ pc \in {"run", "join", "print", "export"} =>
       /\ command = {} /\ Accepted(A, command)
       /\ EngineOf(A).ok /\ engine = EngineOf(A).engine

\* Nothing is past its arguments at first.
LEMMA AcceptedInit == Init => AcceptedInv
BY DEF Init, AcceptedInv

\* Only an accepted invocation gets past its arguments.
LEMMA AcceptedStep == OptionInv /\ AcceptedInv /\ [Next]_vars => AcceptedInv'
<1> SUFFICES ASSUME OptionInv, AcceptedInv, [Next]_vars PROVE AcceptedInv'
  OBVIOUS
<1>0. args' = args => A' = A
  BY DEF A, Some
<1>1. (pc = "end") = (exit # "none")
  BY DEF OptionInv
<1>2. ASSUME NEW a, NEW c, Parse(a, c), pc = "shell"
      PROVE  AcceptedInv'
  <2>1. A' = a
    BY <1>2, SomeOfOne DEF Parse, A
  <2> QED BY <1>1, <1>2, <2>1 DEF Parse, Exit, AcceptedInv
<1>3. CASE InvokeRun \/ InvokeCost
  BY <1>2, <1>3 DEF InvokeRun, InvokeCost
<1>4. CASE ResolveEngine
  <2>1. UNCHANGED <<args, command>> /\ pc = "main" /\ command = {}
    BY <1>4 DEF ResolveEngine
  <2>2. CASE EngineOf(A).ok
    <3>1. pc' = "run" /\ engine' = EngineOf(A).engine /\ exit' = exit
      BY <1>4, <2>2 DEF ResolveEngine
    <3> QED BY <1>0, <1>1, <2>1, <2>2, <3>1 DEF AcceptedInv
  <2>3. CASE ~EngineOf(A).ok
    <3>1. pc' = "end" /\ exit' = "failure"
      BY <1>4, <2>3 DEF ResolveEngine, Exit
    <3> QED BY <1>0, <2>1, <3>1 DEF AcceptedInv
  <2> QED BY <2>2, <2>3
<1>5. CASE RunFails \/ Run \/ JoinSteps \/ PrintReport \/ Export
  <2>1. /\ UNCHANGED <<args, command, engine>>
        /\ pc \in {"run", "join", "print", "export"}
        /\ \/ pc' \in {"run", "join", "print", "export"} /\ exit' = exit
           \/ pc' = "end"
    BY <1>5 DEF RunFails, Run, JoinSteps, PrintReport, Export, Exit
  <2> QED BY <1>0, <1>1, <2>1 DEF AcceptedInv
<1>6. CASE RunCommand
  <2>1. UNCHANGED <<args, command>> /\ pc = "main" /\ pc' = "end"
    BY <1>6 DEF RunCommand, Exit
  <2> QED BY <1>0, <2>1 DEF AcceptedInv
<1>7. CASE Again
  BY <1>7 DEF Again, AcceptedInv
<1>8. CASE UNCHANGED vars
  BY <1>0, <1>8 DEF vars, AcceptedInv
<1> QED BY <1>3, <1>4, <1>5, <1>6, <1>7, <1>8 DEF Next

\* What was accepted is what the code takes for granted.
LEMMA AcceptedArgumentsAreChecked ==
  ASSUME OptionInv, AcceptedInv
  PROVE  ArgumentsAreChecked
<1>1. TypeOK
  BY OptionTypes
<1>2. ASSUME pc = "run"
      PROVE  /\ Given("sample_only") \/ {"endpoint", "model", "prompt"} \subseteq A.given
             /\ Given("metrics_endpoint") => Scraped
             /\ \A e \in engine : (e.kind = "sglang") = Given("page_size")
  <2>1. /\ RequirementsMet(A.given)
        /\ EngineOf(A).ok /\ engine = EngineOf(A).engine
    BY <1>2 DEF AcceptedInv, Accepted
  <2>2. A \in Argv(GivenSets \cup BesideSets)
    BY <1>2, OneArgs
  <2>3. /\ engine = {} <=> "engine" \notin A.given
        /\ \A e \in engine : (e.kind = "sglang") = ("page_size" \in A.given)
    BY <2>1, <2>2, EngineIsResolved
  <2>4. \A e \in engine : (e.kind = "sglang") = Given("page_size")
    BY <2>3 DEF Given
  <2>5. /\ Given("sample_only") \/ {"endpoint", "model", "prompt"} \subseteq A.given
        /\ Given("metrics_endpoint") => Scraped
    BY <2>1, <2>3 DEF RequirementsMet, Given, Scraped
  <2> QED BY <2>4, <2>5
<1>3. ASSUME pc = "main", NEW c \in command
      PROVE  \E flag \in RateFlags : c.rates = {flag}
  <2>1. command = {c} /\ c \in Commands
    BY <1>3 DEF OptionInv, IsOption
  <2>2. OneRate(c)
    BY <1>3, <2>1, SomeOfOne DEF AcceptedInv, Accepted
  <2>3. c.rates \subseteq RateFlags /\ IsFiniteSet(RateFlags)
    <3>1. RateFlags = {"usd_per_hour"} \cup {"usd_per_kwh"}
      BY DEF RateFlags
    <3>2. IsFiniteSet(RateFlags)
      BY <3>1, FS_Singleton, FS_AddElement
    <3> QED BY <2>1, <3>2 DEF Commands
  <2>4. IsFiniteSet(c.rates)
    BY <2>3, FS_Subset
  <2>5. PICK flag : c.rates = {flag}
    BY <2>2, <2>4, FS_Singleton DEF OneRate
  <2> QED BY <2>3, <2>5
<1>4. ASSUME command # {}, exit \in {"success", "failure"}
      PROVE  A.given = {}
  <2>1. pc # "shell" /\ RunFlagsBeside(A.given) = {}
    BY <1>4 DEF OptionInv, AcceptedInv, Accepted
  <2>2. A.given \subseteq AllFlags
    BY <2>1, OneArgs, ArgvFlags
  <2> QED BY <2>1, <2>2 DEF RunFlagsBeside, AllFlags
<1> QED BY <1>1, <1>2, <1>3, <1>4 DEF ArgumentsAreChecked

\* Both hold of every invocation.
LEMMA InvocationInductive == Spec => [](OptionInv /\ AcceptedInv)
BY OptionInit, OptionStep, AcceptedInit, AcceptedStep, PTL DEF Spec

(* For any command lines, environments and archives, what the code takes   *)
(* for granted after parsing holds where it does, and a subcommand is      *)
(* carried out only with no flag of a run beside it.                       *)
THEOREM ArgumentsChecked == Spec => []ArgumentsAreChecked
<1>1. OptionInv /\ AcceptedInv => ArgumentsAreChecked
  BY AcceptedArgumentsAreChecked
<1> QED BY <1>1, InvocationInductive, PTL

-----------------------------------------------------------------------------
(* What success means, stage by stage.                                     *)

\* What is printed is what was asked for.
AsAsked(p) ==
  /\ Given("metrics_endpoint") => p.report.by.engine # {}
  /\ Given("steps_file") => A.steps = "good"
  /\ Given("json") \/ Given("sample_only") => p.format = "json" /\ p.report \in archive

\* The report of a run that is not over yet.
Assembling(r) ==
  /\ Given("metrics_endpoint") => r.by.engine # {}
  /\ Given("sample_only") => r.shape = "resource"

SuccessInv ==
  /\ pc \notin {"export", "end"} => printed = {}
  /\ pc # "end" => ~exported
  /\ exit \in {"failure", "usage"} => printed = {} /\ ~exported
  /\ pc \in {"join", "print"} => \A r \in report : Assembling(r)
  /\ pc = "print" => (Given("steps_file") => A.steps = "good")
  /\ command = {} => \A p \in printed : AsAsked(p)
  /\ exported => Given("otel_endpoint") \/ "otel_endpoint" \in A.env

\* Nothing has succeeded at first.
LEMMA SuccessInit == Init => SuccessInv
BY DEF Init, SuccessInv

\* Each stage adds its own step to what is certain.
LEMMA SuccessStep ==
  OptionInv /\ AcceptedInv /\ ArgumentsAreChecked /\ SuccessInv /\ [Next]_vars => SuccessInv'
<1> SUFFICES ASSUME OptionInv, AcceptedInv, ArgumentsAreChecked, SuccessInv, [Next]_vars
             PROVE  SuccessInv'
  OBVIOUS
<1>0. args' = args => A' = A /\ \A flag : Given(flag)' = Given(flag)
  BY DEF A, Some, Given
<1>1. (pc = "end") = (exit # "none")
  BY DEF OptionInv
<1>2. CASE InvokeRun \/ InvokeCost
  <2>1. /\ UNCHANGED <<printed, exported>> /\ pc = "shell"
        /\ pc' = "main" \/ pc' = "end"
    BY <1>2 DEF InvokeRun, InvokeCost, Parse, Exit
  <2> QED BY <2>1 DEF SuccessInv
<1>3. CASE ResolveEngine \/ RunFails
  <2>1. /\ UNCHANGED <<printed, exported>> /\ pc \in {"main", "run"}
        /\ pc' = "run" \/ pc' = "end"
    BY <1>3 DEF ResolveEngine, RunFails, Exit
  <2> QED BY <2>1 DEF SuccessInv
<1>4. CASE Run
  <2>1. PICK timeline, rate \in BOOLEAN, l \in {"latest", "read_failed"} :
          report' = {Assembled(IF Given("sample_only") THEN "resource" ELSE "probe",
                               timeline, rate, l)}
    BY <1>4 DEF Run
  <2>2. /\ UNCHANGED <<args, command, engine, printed, exported, exit>>
        /\ pc = "run" /\ pc' = "join"
    BY <1>4 DEF Run
  <2>3. Given("metrics_endpoint") => Scraped /\ engine # {}
    BY <2>2 DEF ArgumentsAreChecked, Scraped
  <2>4. \A r \in report' : Assembling(r)
    BY <2>1, <2>3, AssembledIsReport DEF Assembling
  <2>5. \A r \in report' : Assembling(r)'
    BY <1>0, <2>2, <2>4 DEF Assembling
  <2> QED BY <1>1, <2>2, <2>5 DEF SuccessInv
<1>5. CASE JoinSteps
  <2>1. /\ UNCHANGED <<args, command, printed, exported>> /\ pc = "join"
        /\ \/ pc' = "print" /\ (Given("steps_file") => A.steps # "broken")
           \/ pc' = "end" /\ exit' = "failure"
    BY <1>5 DEF JoinSteps, Exit
  <2>2. /\ report = {Some(report)} /\ Assembling(Some(report))
        /\ ReportFields \subseteq DOMAIN Some(report)
    BY <2>1, OneReport DEF OptionInv, SuccessInv
  <2>3. \A r \in report' : r.by = Some(report).by /\ r.shape = Some(report).shape
    BY <1>5, <2>2 DEF JoinSteps, ReportFields
  <2>4. \A r \in report' : Assembling(r)'
    BY <1>0, <2>1, <2>2, <2>3 DEF Assembling
  <2>5. A.steps \in {"good", "broken"}
    BY <2>1, OneArgs DEF Argv
  <2>6. printed' = {} /\ ~exported'
    BY <2>1 DEF SuccessInv
  <2> QED BY <1>0, <2>1, <2>4, <2>5, <2>6 DEF SuccessInv
<1>6. CASE PrintReport
  <2> DEFINE r == Some(report)
  <2>1. /\ UNCHANGED <<args, command, report, exported>> /\ pc = "print"
        /\ printed' = {[format |-> Format(r.shape), report |-> r]}
        /\ Format(r.shape) = "json" => r \in archive'
        /\ \/ pc' = "export" /\ exit' = exit
           \/ pc' = "end" /\ exit' = "success"
    BY <1>6 DEF PrintReport, Exit
  <2>2. report = {r} /\ Assembling(r) /\ (Given("steps_file") => A.steps = "good")
    BY <2>1, OneReport DEF SuccessInv
  <2>3. Given("json") \/ Given("sample_only") => Format(r.shape) = "json"
    BY <2>2 DEF Assembling, Format
  <2> HIDE DEF r
  <2>4. \A p \in printed' : p.format = Format(r.shape) /\ p.report = r
    BY <2>1
  <2>5. \A p \in printed' : AsAsked(p)'
    BY <1>0, <2>1, <2>2, <2>3, <2>4 DEF AsAsked, Assembling
  <2>6. ~exported'
    BY <2>1 DEF SuccessInv
  <2> QED BY <1>1, <2>1, <2>5, <2>6 DEF SuccessInv
<1>7. CASE Export
  <2>1. /\ UNCHANGED <<archive, args, command, printed>> /\ pc = "export"
        /\ pc' = "end" /\ exit' = "success"
    BY <1>7 DEF Export, Exit
  <2>2. exported' => Given("otel_endpoint") \/ "otel_endpoint" \in A.env
    <3>1. PICK ok \in BOOLEAN : exported' = (ok /\ (Given("otel_endpoint") \/ A.env # {}))
      BY <1>7, Zenon DEF Export
    <3>2. exported' => Given("otel_endpoint") \/ A.env # {}
      BY <3>1, Zenon
    <3>3. A.env \subseteq {"otel_endpoint"}
      BY <2>1, OneArgs DEF Argv
    <3> QED BY <3>2, <3>3
  <2>3. \A p \in printed : AsAsked(p)' <=> AsAsked(p)
    BY <1>0, <2>1 DEF AsAsked
  <2> QED BY <1>0, <2>1, <2>2, <2>3 DEF SuccessInv
<1>8. CASE RunCommand
  <2>1. /\ UNCHANGED <<args, command, exported>> /\ pc = "main" /\ command # {}
        /\ pc' = "end"
        /\ exit' = "success" \/ (exit' = "failure" /\ printed' = printed)
    BY <1>8 DEF RunCommand, Exit
  <2> QED BY <1>0, <2>1 DEF SuccessInv
<1>9. CASE Again
  BY <1>9 DEF Again, SuccessInv
<1>10. CASE UNCHANGED vars
  <2>1. /\ \A p \in printed : AsAsked(p)' <=> AsAsked(p)
        /\ \A r \in report : Assembling(r)' <=> Assembling(r)
    BY <1>0, <1>10 DEF AsAsked, Assembling, vars
  <2> QED BY <1>0, <1>10, <2>1 DEF vars, SuccessInv
<1> QED BY <1>2, <1>3, <1>4, <1>5, <1>6, <1>7, <1>8, <1>9, <1>10 DEF Next

(* Success of an invocation means that all that was asked was done, and    *)
(* otherwise nothing was printed or exported, for any command lines,       *)
(* environments and archives.                                              *)
THEOREM SuccessIsComplete == Spec => []SuccessMeansAllWasDone
<1>1. OptionInv /\ SuccessInv => SuccessMeansAllWasDone
  BY DEF OptionInv, SuccessInv, SuccessMeansAllWasDone, AsAsked
<1> QED
  BY <1>1, InvocationInductive, ArgumentsChecked, SuccessInit, SuccessStep, PTL DEF Spec
-----------------------------------------------------------------------------
(* What archived reports say of the builds that wrote them.                *)

\* Whoever wrote it, a report records its version, the accounting of the
\* engine that was read and, once a build could, the LoRA read.
RecordsItsBuild(r) ==
  /\ r.by.build \in 0..REPORT_SCHEMA_VERSION
  /\ r.schema_version = {v \in {r.by.build} : v > 0}
  /\ \A kv \in r.kvcache :
       IF r.by.build = 0
       THEN r.by.engine = {[kind |-> "vllm"]} /\ kv.accounting = {}
       ELSE kv.accounting = {Accounting(Some(r.by.engine))}
  /\ IF r.by.build < FIRST_VERSION_WITH_LORA THEN r.lora = {}
     ELSE r.lora # {} \/ r.by.engine = {} \/ r.shape = "probe"

RecordsInv == \A r \in archive \cup report : RecordsItsBuild(r)

\* The archive of earlier builds is what they wrote.
LEMMA RecordsInit == Init => RecordsInv
<1> SUFFICES ASSUME Init, NEW r \in archive PROVE RecordsItsBuild(r)
  BY DEF Init, RecordsInv
<1>1. ByEarlierBuild(r)
  BY ArchivesAssumption DEF Init, ArchivesAssumption
<1> QED BY <1>1 DEF ByEarlierBuild, RecordsItsBuild, REPORT_SCHEMA_VERSION, FIRST_VERSION_WITH_LORA

\* What a run assembles records this build.
LEMMA AssembledRecords ==
  ASSUME OptionInv, NEW shape \in {"probe", "resource"}, NEW timeline \in BOOLEAN,
         NEW rate \in BOOLEAN, NEW l
  PROVE  RecordsItsBuild(Assembled(shape, timeline, rate, l))
<1> DEFINE r == Assembled(shape, timeline, rate, l)
<1>1. /\ r.by.build = 2 /\ r.by.engine = (IF Scraped THEN engine ELSE {})
      /\ r.schema_version = {2} /\ r.shape = shape
      /\ r.lora = (IF shape = "resource" /\ Scraped THEN {l} ELSE {})
      /\ r.kvcache = (IF timeline /\ rate /\ Scraped
                      THEN {[accounting |-> {Accounting(Some(engine))}]} ELSE {})
  BY DEF Assembled, REPORT_SCHEMA_VERSION
<1> HIDE DEF r
<1>2. \A kv \in r.kvcache : kv.accounting = {Accounting(Some(r.by.engine))}
  BY <1>1
<1>3. r.schema_version = {v \in {r.by.build} : v > 0}
  BY <1>1
<1>4. r.lora # {} \/ r.by.engine = {} \/ r.shape = "probe"
  BY <1>1
<1>5. RecordsItsBuild(r)
  BY <1>1, <1>2, <1>3, <1>4 DEF RecordsItsBuild, REPORT_SCHEMA_VERSION, FIRST_VERSION_WITH_LORA
<1> QED BY <1>5 DEF r

\* A run adds to the archive only what this build writes.
LEMMA RecordsStep == OptionInv /\ RecordsInv /\ [Next]_vars => RecordsInv'
<1> SUFFICES ASSUME OptionInv, RecordsInv, [Next]_vars PROVE RecordsInv'
  OBVIOUS
<1>1. CASE Run
  <2>1. PICK shape \in {"probe", "resource"}, timeline \in BOOLEAN, rate \in BOOLEAN,
             l \in {"latest", "read_failed"} :
               report' = {Assembled(shape, timeline, rate, l)}
    BY <1>1 DEF Run
  <2>2. RecordsItsBuild(Assembled(shape, timeline, rate, l))
    BY AssembledRecords
  <2> QED BY <1>1, <2>1, <2>2 DEF Run, RecordsInv
<1>2. CASE JoinSteps
  <2>1. report = {Some(report)} /\ archive' = archive
    BY <1>2, OneReport DEF JoinSteps
  <2>2. report' = report \/ \E t : report' = {[Some(report) EXCEPT !.trajectory = t]}
    BY <1>2 DEF JoinSteps
  <2>3. ASSUME NEW t PROVE RecordsItsBuild([Some(report) EXCEPT !.trajectory = t])
    <3>1. RecordsItsBuild(Some(report)) /\ ReportFields \subseteq DOMAIN Some(report)
      BY <2>1 DEF RecordsInv, OptionInv
    <3> QED BY <3>1 DEF RecordsItsBuild, ReportFields
  <2> QED BY <2>1, <2>2, <2>3 DEF RecordsInv
<1>3. CASE PrintReport
  <2>1. report = {Some(report)} /\ report' = report
        /\ archive' \in {archive, archive \cup {Some(report)}}
    BY <1>3, OneReport DEF PrintReport
  <2> QED BY <2>1 DEF RecordsInv
<1>4. CASE UNCHANGED <<archive, report>> \/ (archive' = archive /\ report' = {})
  BY <1>4 DEF RecordsInv
<1> QED BY <1>1, <1>2, <1>3, <1>4
     DEF Next, vars, InvokeRun, InvokeCost, Parse, ResolveEngine, RunFails, Export, RunCommand, Again

(* Whatever runs archive, and whatever earlier builds did, a reader calls  *)
(* an accounting measured only when it was recorded and puts a missing     *)
(* LoRA read down to a build only when that build could not record one.    *)
THEOREM ProvenanceHolds == Spec => []ProvenanceIsTrue
<1>1. ASSUME NEW r, RecordsItsBuild(r), NEW kv \in r.kvcache
      PROVE  LET p == Resolve(r.schema_version, kv.accounting) IN
             /\ p.kind = "measured" => r.by.build > 0 /\ p.accounting = Accounting(Some(r.by.engine))
             /\ p.kind = "assumed"  => r.by.build = 0 /\ r.by.engine = {[kind |-> "vllm"]}
             /\ p.kind # "unknown"
  <2>1. CASE r.by.build = 0
    <3>1. r.schema_version = {} /\ kv.accounting = {} /\ r.by.engine = {[kind |-> "vllm"]}
      BY <1>1, <2>1 DEF RecordsItsBuild
    <3> QED BY <2>1, <3>1 DEF Resolve
  <2>2. CASE r.by.build # 0
    <3>1. r.by.build > 0 /\ kv.accounting = {Accounting(Some(r.by.engine))}
      BY <1>1, <2>2 DEF RecordsItsBuild, REPORT_SCHEMA_VERSION
    <3> QED BY <3>1, SomeOfOne DEF Resolve
  <2> QED BY <2>1, <2>2
<1>2. ASSUME NEW r, RecordsItsBuild(r)
      PROVE  LET p == LoraProvenance(r.schema_version, r.lora) IN
             /\ (p = "predates") = (r.by.build < FIRST_VERSION_WITH_LORA)
             /\ p = "not_recorded" => r.by.engine = {} \/ r.shape = "probe"
  <2>1. CASE r.by.build < FIRST_VERSION_WITH_LORA
    <3>1. r.lora = {} /\ ~\E v \in r.schema_version : v >= FIRST_VERSION_WITH_LORA
      BY <1>2, <2>1 DEF RecordsItsBuild, REPORT_SCHEMA_VERSION, FIRST_VERSION_WITH_LORA
    <3>2. LoraProvenance(r.schema_version, r.lora) = "predates"
      BY <3>1 DEF LoraProvenance
    <3> QED BY <2>1, <3>2
  <2>2. CASE ~(r.by.build < FIRST_VERSION_WITH_LORA)
    <3>1. /\ \E v \in r.schema_version : v >= FIRST_VERSION_WITH_LORA
          /\ r.lora # {} \/ r.by.engine = {} \/ r.shape = "probe"
      BY <1>2, <2>2 DEF RecordsItsBuild, REPORT_SCHEMA_VERSION, FIRST_VERSION_WITH_LORA
    <3>2. LoraProvenance(r.schema_version, r.lora)
            = IF r.lora # {} THEN "recorded" ELSE "not_recorded"
      BY <3>1 DEF LoraProvenance
    <3> QED BY <2>2, <3>1, <3>2
  <2> QED BY <2>1, <2>2
<1>3. RecordsInv => ProvenanceIsTrue
  BY <1>1, <1>2 DEF RecordsInv, ProvenanceIsTrue
<1> QED BY <1>3, InvocationInductive, RecordsInit, RecordsStep, PTL DEF Spec
-----------------------------------------------------------------------------
(* What a printed price is the price of.                                   *)

\* The quantities do not depend on the rate.
LEMMA QuantitiesOfBasis ==
  ASSUME NEW t, NEW rate \in Int, Apportioned(t), NEW basis \in {Occupancy(rate), PerEnergy(rate)}
  PROVE  LET q == Quantities(t, basis)
         IN /\ basis.rate = rate
            /\ q.run = IF basis.basis = "occupancy" THEN t.run_duration ELSE t.total_energy
            /\ q.run \in Nat /\ q.unattributed \in Nat
            /\ DOMAIN q.steps = DOMAIN t.steps /\ IsFiniteSet(DOMAIN t.steps)
            /\ \A i \in DOMAIN t.steps : q.steps[i] \in Nat
            /\ q.run > 0 => SumFunctionOnSet(q.steps, DOMAIN t.steps) + q.unattributed <= q.run
<1>1. CASE basis = Occupancy(rate)
  <2>1. Quantities(t, basis) = Quantities(t, Occupancy(1))
    BY <1>1 DEF Quantities, Occupancy
  <2>2. /\ basis.rate = rate /\ basis.basis = "occupancy"
        /\ Quantities(t, basis).run = t.run_duration
        /\ DOMAIN Quantities(t, basis).steps = DOMAIN t.steps
    BY <1>1 DEF Quantities, Occupancy
  <2> QED BY <2>1, <2>2 DEF Apportioned, SumFunction
<1>2. CASE basis = PerEnergy(rate)
  <2>1. Quantities(t, basis) = Quantities(t, PerEnergy(1))
    BY <1>2 DEF Quantities, PerEnergy
  <2>2. /\ basis.rate = rate /\ basis.basis = "energy"
        /\ Quantities(t, basis).run = t.total_energy
        /\ DOMAIN Quantities(t, basis).steps = DOMAIN t.steps
    BY <1>2 DEF Quantities, PerEnergy
  <2> QED BY <2>1, <2>2 DEF Apportioned, SumFunction
<1> QED BY <1>1, <1>2

\* A part of what is no more than a whole has a share between none and all.
LEMMA ShareInBounds ==
  ASSUME NEW part \in Nat, NEW whole \in Nat, part <= whole
  PROVE  0 <= ShareOf(part, whole)[1] /\ ShareOf(part, whole)[1] <= ShareOf(part, whole)[2]
BY DEF ShareOf

\* What is printed of a cost: its parts are no more than the run.
LEMMA RenderedPrices ==
  ASSUME NEW t, NEW rate \in Nat \ {0}, Apportioned(t),
         NEW basis \in {Occupancy(rate), PerEnergy(rate)}, DeriveCost(t, basis) # {}
  PROVE  LET p == RenderCost(Some(DeriveCost(t, basis)))
         IN /\ p.run > 0
            /\ (IF basis.basis = "occupancy" THEN t.run_duration ELSE t.total_energy) > 0
            /\ p.attributed <= p.run
            /\ \A share \in {p.generating, p.in_tools, p.unattributed} :
                 0 <= share[1] /\ share[1] <= share[2]
<1> DEFINE I == DOMAIN t.steps
           q == Quantities(t, basis)
           usd == [i \in I |-> basis.rate * q.steps[i]]
           tokens(i) == { n \in t.steps[i].deltas.generation : n # 0 /\ t.steps[i].kind # "tool" }
           priced == [ i \in I |-> [ step_id |-> t.steps[i].step_id,
                                     kind |-> t.steps[i].kind, usd |-> usd[i],
                                     per_token |-> {<<usd[i], g>> : g \in tokens(i)} ] ]
           of(kinds) == {j \in I : t.steps[j].kind \in kinds}
           c == Some(DeriveCost(t, basis))
<1>1. /\ basis.rate = rate
      /\ q.run = (IF basis.basis = "occupancy" THEN t.run_duration ELSE t.total_energy)
      /\ q.run \in Nat /\ q.unattributed \in Nat /\ IsFiniteSet(I)
      /\ \A i \in I : q.steps[i] \in Nat
      /\ q.run > 0 => SumFunctionOnSet(q.steps, I) + q.unattributed <= q.run
  BY QuantitiesOfBasis
<1>2. /\ q.run > 0
      /\ c.run_usd = rate * q.run
      /\ c.attributed_usd = Summed(priced, {"llm_call", "tool"})
      /\ c.llm_usd = Summed(priced, {"llm_call"})
      /\ c.tool_usd = Summed(priced, {"tool"})
      /\ c.unattributed_usd = rate * q.unattributed
  <2>1. DeriveCost(t, basis) =
          IF q.run = 0 THEN {}
          ELSE { [ basis            |-> basis,
                   run_usd          |-> basis.rate * q.run,
                   attributed_usd   |-> Summed(priced, {"llm_call", "tool"}),
                   llm_usd          |-> Summed(priced, {"llm_call"}),
                   tool_usd         |-> Summed(priced, {"tool"}),
                   unattributed_usd |-> basis.rate * q.unattributed,
                   steps            |-> priced,
                   per_token        |-> { <<basis.rate * q.run, g>> :
                                            g \in {t.total_generation_tokens} \ {0} } ] }
    <3> HIDE DEF q
    <3> QED BY DEF DeriveCost, q
  <2> HIDE DEF priced, q
  <2>2. q.run # 0
    BY <2>1
  <2>3. c = [ basis            |-> basis,
              run_usd          |-> basis.rate * q.run,
              attributed_usd   |-> Summed(priced, {"llm_call", "tool"}),
              llm_usd          |-> Summed(priced, {"llm_call"}),
              tool_usd         |-> Summed(priced, {"tool"}),
              unattributed_usd |-> basis.rate * q.unattributed,
              steps            |-> priced,
              per_token        |-> { <<basis.rate * q.run, g>> :
                                       g \in {t.total_generation_tokens} \ {0} } ]
    BY <2>1, <2>2, SomeOfOne
  <2> HIDE DEF c
  <2> QED BY <1>1, <2>2, <2>3
<1>3. \A i \in I : usd[i] = rate * q.steps[i]
  BY <1>1
<1>4. ASSUME NEW kinds PROVE Summed(priced, kinds) = SumFunctionOnSet(usd, of(kinds))
  <2>1. \A i \in I : priced[i].kind = t.steps[i].kind /\ priced[i].usd = usd[i]
    <3> HIDE DEF usd, tokens
    <3> QED OBVIOUS
  <2>2. DOMAIN priced = I
    OBVIOUS
  <2> HIDE DEF priced, usd
  <2>3. {j \in DOMAIN priced : priced[j].kind \in kinds} = of(kinds)
    BY <2>1, <2>2
  <2> DEFINE g == [i \in of(kinds) |-> priced[i].usd]
  <2>4. Summed(priced, kinds) = SumFunction(g)
    BY <2>3 DEF Summed
  <2>5. DOMAIN g = of(kinds) /\ \A i \in of(kinds) : g[i] = usd[i]
    BY <2>1
  <2>6. IsFiniteSet(of(kinds))
    BY <1>1, FS_Subset
  <2> HIDE DEF g, of
  <2>7. SumFunctionOnSet(g, of(kinds)) = SumFunctionOnSet(usd, of(kinds))
    BY <2>5, <2>6, SumSame
  <2> QED BY <2>4, <2>5, <2>7 DEF SumFunction
<1>5. /\ of({"llm_call", "tool"}) \subseteq I
      /\ of({"llm_call"}) \subseteq of({"llm_call", "tool"})
      /\ of({"tool"}) \subseteq of({"llm_call", "tool"})
  OBVIOUS
<1> DEFINE qs == q.steps
           run == q.run
           un == q.unattributed
           part(kinds) == SumFunctionOnSet(usd, of(kinds))
<1>6. /\ run \in Nat /\ un \in Nat /\ run > 0 /\ IsFiniteSet(I) /\ rate \in Nat /\ rate > 0
      /\ \A i \in I : qs[i] \in Nat /\ usd[i] = rate * qs[i]
      /\ SumFunctionOnSet(qs, I) + un <= run
  BY <1>1, <1>2, <1>3
<1> HIDE DEF q, usd, qs, run, un
<1>7. \A i \in I : usd[i] \in Nat
  <2> SUFFICES ASSUME NEW i \in I PROVE usd[i] \in Nat
    OBVIOUS
  <2>1. rate * qs[i] \in Nat
    BY <1>6
  <2> QED BY <1>6, <2>1
<1>8. /\ part({"llm_call"}) \in Nat /\ part({"tool"}) \in Nat
      /\ part({"llm_call", "tool"}) \in Nat
      /\ part({"llm_call"}) <= part({"llm_call", "tool"})
      /\ part({"tool"}) <= part({"llm_call", "tool"})
      /\ part({"llm_call", "tool"}) <= SumFunctionOnSet(usd, I)
  <2>1. \A S \in SUBSET I : IsFiniteSet(S) /\ \A i \in S : usd[i] \in Nat
    BY <1>6, <1>7, FS_Subset
  <2>2. \A S \in SUBSET I : SumFunctionOnSet(usd, S) \in Nat
    BY <2>1, SumIsNat
  <2>3. \A S \in SUBSET I : \A T \in SUBSET S : SumFunctionOnSet(usd, T) <= SumFunctionOnSet(usd, S)
    <3> SUFFICES ASSUME NEW S \in SUBSET I, NEW T \in SUBSET S
                 PROVE  SumFunctionOnSet(usd, T) <= SumFunctionOnSet(usd, S)
      OBVIOUS
    <3> QED BY <2>1, SumOfSubset
  <2>4. /\ of({"llm_call", "tool"}) \in SUBSET I
        /\ of({"llm_call"}) \in SUBSET of({"llm_call", "tool"})
        /\ of({"tool"}) \in SUBSET of({"llm_call", "tool"})
        /\ of({"llm_call"}) \in SUBSET I /\ of({"tool"}) \in SUBSET I
    BY <1>5
  <2> HIDE DEF I, of
  <2> QED BY <2>2, <2>3, <2>4
<1>9. /\ SumFunctionOnSet(usd, I) = rate * SumFunctionOnSet(qs, I)
      /\ SumFunctionOnSet(qs, I) \in Nat
  <2>1. /\ \A i \in I : qs[i] \in Int /\ usd[i] = rate * qs[i]
        /\ rate \in Int
    BY <1>6
  <2> HIDE DEF I
  <2> QED BY <1>6, <2>1, SumScaled, SumIsNat
<1>10. /\ rate * SumFunctionOnSet(qs, I) <= rate * run
       /\ rate * un \in Nat /\ rate * un <= rate * run
       /\ rate * run \in Nat /\ rate * run > 0
  <2>1. \A x, y \in Nat : x <= y => rate * x <= rate * y
    BY <1>6
  <2>2. SumFunctionOnSet(qs, I) <= run /\ un <= run
    BY <1>6, <1>9
  <2> QED BY <1>6, <1>9, <2>1, <2>2
<1>11. /\ c.run_usd = rate * run /\ c.unattributed_usd = rate * un
       /\ c.attributed_usd = part({"llm_call", "tool"})
       /\ c.llm_usd = part({"llm_call"}) /\ c.tool_usd = part({"tool"})
  <2> HIDE DEF c, priced, of
  <2> QED BY <1>2, <1>4 DEF run, un
<1> HIDE DEF part, c, priced, of, I
<1>12. /\ c.run_usd \in Nat /\ c.run_usd > 0
       /\ c.attributed_usd \in Nat /\ c.attributed_usd <= c.run_usd
       /\ c.llm_usd \in Nat /\ c.llm_usd <= c.attributed_usd
       /\ c.tool_usd \in Nat /\ c.tool_usd <= c.attributed_usd
       /\ c.unattributed_usd \in Nat /\ c.unattributed_usd <= c.run_usd
  <2>1. part({"llm_call", "tool"}) <= rate * run
    BY <1>8, <1>9, <1>10
  <2> QED BY <1>8, <1>10, <1>11, <2>1
<1>13. LET p == RenderCost(c)
       IN /\ p.run = c.run_usd /\ p.attributed = c.attributed_usd
          /\ p.generating = ShareOf(c.llm_usd, c.attributed_usd)
          /\ p.in_tools = ShareOf(c.tool_usd, c.attributed_usd)
          /\ p.unattributed = ShareOf(c.unattributed_usd, c.run_usd)
  BY DEF RenderCost
<1>14. \A share \in {RenderCost(c).generating, RenderCost(c).in_tools, RenderCost(c).unattributed} :
         0 <= share[1] /\ share[1] <= share[2]
  BY <1>12, <1>13, ShareInBounds
<1>15. (IF basis.basis = "occupancy" THEN t.run_duration ELSE t.total_energy) > 0
  BY <1>1, <1>2 DEF q
<1> QED BY <1>12, <1>13, <1>14, <1>15 DEF c
-----------------------------------------------------------------------------
\* The value of an Option is in it.
LEMMA SomeIsIn == ASSUME NEW S, S # {} PROVE Some(S) \in S
BY DEF Some

\* What a subcommand prints is the price of a measurement.
LEMMA AnswerPricesMeasurement ==
  ASSUME NEW c \in Commands, OneRate(c),
         \A t \in c.report.trajectory : Apportioned(t),
         "refused" \notin DOMAIN DeriveCostFromReport(c)
  PROVE  LET p == DeriveCostFromReport(c) IN
         \E t \in c.report.trajectory :
           /\ p.cost.run > 0
           /\ (IF c.rates = {"usd_per_hour"} THEN t.run_duration ELSE t.total_energy) > 0
           /\ p.cost.attributed <= p.cost.run
           /\ \A share \in {p.cost.generating, p.cost.in_tools, p.cost.unattributed} :
                0 <= share[1] /\ share[1] <= share[2]
<1> DEFINE rate == Some(CheckedRate(c.rate))
           t == Some(c.report.trajectory)
           basis == BasisOf(c, rate)
           cost == DeriveCost(t, basis)
<1>1. /\ CheckedRate(c.rate) # {} /\ c.report.trajectory # {}
      /\ cost # {} /\ DeriveCostFromReport(c) = [cost |-> RenderCost(Some(cost))]
  <2>1. DOMAIN [refused |-> "rate"] = {"refused"} /\ DOMAIN [refused |-> "unreadable"] = {"refused"}
        /\ DOMAIN [refused |-> "no_trajectory"] = {"refused"}
        /\ DOMAIN [refused |-> "nothing_to_price"] = {"refused"}
    OBVIOUS
  <2>2. CheckedRate(c.rate) # {}
    BY <2>1 DEF DeriveCostFromReport
  <2>3. Parses(c.report)
    BY <2>1, <2>2 DEF DeriveCostFromReport
  <2>4. c.report.trajectory # {}
    BY <2>1, <2>2, <2>3 DEF DeriveCostFromReport
  <2>5. DeriveCostFromReport(c)
          = IF cost = {} THEN [refused |-> "nothing_to_price"] ELSE [cost |-> RenderCost(Some(cost))]
    BY <2>2, <2>3, <2>4 DEF DeriveCostFromReport
  <2> HIDE DEF cost
  <2> QED BY <2>1, <2>2, <2>4, <2>5
<1>2. rate \in CheckedRate(c.rate) /\ t \in c.report.trajectory
  BY <1>1, SomeIsIn
<1>3. rate \in Nat \ {0}
  <2>1. c.rate \in Rates /\ c.rate \subseteq Int
    BY InvocationAssumption DEF Commands, InvocationAssumption
  <2> HIDE DEF rate
  <2> QED BY <1>2, <2>1 DEF CheckedRate
<1>4. /\ basis \in {Occupancy(rate), PerEnergy(rate)}
      /\ basis.basis = "occupancy" <=> c.rates = {"usd_per_hour"}
  <2> HIDE DEF rate
  <2> QED BY DEF BasisOf, Occupancy, PerEnergy
<1>5. Apportioned(t)
  BY <1>2
<1> HIDE DEF rate, t, basis
<1>6. LET p == RenderCost(Some(cost))
      IN /\ p.run > 0
         /\ (IF basis.basis = "occupancy" THEN t.run_duration ELSE t.total_energy) > 0
         /\ p.attributed <= p.run
         /\ \A share \in {p.generating, p.in_tools, p.unattributed} :
              0 <= share[1] /\ share[1] <= share[2]
  BY <1>1, <1>3, <1>4, <1>5, RenderedPrices
<1>7. DeriveCostFromReport(c).cost = RenderCost(Some(cost))
  BY <1>1
<1> HIDE DEF cost
<1> QED BY <1>2, <1>4, <1>6, <1>7

\* Every archived trajectory is apportioned, and what a subcommand printed
\* is the price of one.
PricedInv ==
  /\ \A r \in archive \cup report : \A t \in r.trajectory : Apportioned(t)
  /\ PricesOnlyMeasurements

\* Nothing is priced at first.
LEMMA PricedInit == Init => PricedInv
BY ArchivesAssumption DEF Init, PricedInv, PricesOnlyMeasurements, ArchivesAssumption

\* Every step keeps what is said of the prices.
LEMMA PricedStep ==
  OptionInv /\ AcceptedInv /\ ArgumentsAreChecked /\ SuccessInv /\ PricedInv /\ [Next]_vars
    => PricedInv'
<1> SUFFICES ASSUME OptionInv, AcceptedInv, ArgumentsAreChecked, SuccessInv, PricedInv, [Next]_vars
             PROVE  PricedInv'
  OBVIOUS
<1>1. \A r \in (archive \cup report)' : \A t \in r.trajectory : Apportioned(t)
  <2>1. CASE Run
    <3>1. \A r \in report' : r.trajectory = {}
      BY <2>1 DEF Run, Assembled
    <3> QED BY <2>1, <3>1 DEF Run, PricedInv
  <2>2. CASE JoinSteps
    <3>1. report = {Some(report)} /\ archive' = archive /\ "trajectory" \in DOMAIN Some(report)
      BY <2>2, OneReport DEF JoinSteps, OptionInv, ReportFields
    <3>2. \/ report' = report
          \/ \E t \in {{}} \cup {{d} : d \in Trajectories} :
               report' = {[Some(report) EXCEPT !.trajectory = t]}
      BY <2>2 DEF JoinSteps
    <3>3. \A r \in report' : r \in report \/ r.trajectory = {}
                              \/ \E d \in Trajectories : r.trajectory = {d}
      BY <3>1, <3>2
    <3>4. \A d \in Trajectories : Apportioned(d)
      BY ArchivesAssumption DEF ArchivesAssumption
    <3> QED BY <3>1, <3>3, <3>4 DEF PricedInv
  <2>3. CASE PrintReport
    <3>1. /\ report = {Some(report)} /\ report' = report
          /\ archive' \in {archive, archive \cup {Some(report)}}
      BY <2>3, OneReport DEF PrintReport
    <3> QED BY <3>1 DEF PricedInv
  <2>4. CASE UNCHANGED <<archive, report>> \/ (archive' = archive /\ report' = {})
    BY <2>4 DEF PricedInv
  <2> QED BY <2>1, <2>2, <2>3, <2>4
       DEF Next, vars, InvokeRun, InvokeCost, Parse, ResolveEngine, RunFails, Export, RunCommand, Again
<1>2. PricesOnlyMeasurements'
  <2>1. CASE InvokeRun \/ InvokeCost
    <3>1. printed' = printed /\ pc = "shell"
      BY <2>1 DEF InvokeRun, InvokeCost, Parse
    <3> QED BY <3>1 DEF SuccessInv, PricesOnlyMeasurements
  <2>2. CASE ResolveEngine \/ RunFails \/ Run \/ JoinSteps \/ PrintReport \/ Export
    <3>1. command' = command /\ command = {}
      BY <2>2 DEF ResolveEngine, RunFails, Run, JoinSteps, PrintReport, Export, AcceptedInv
    <3> QED BY <3>1 DEF PricesOnlyMeasurements
  <2>3. CASE RunCommand
    <3>1. command' = command /\ pc = "main" /\ command # {} /\ printed = {}
      BY <2>3 DEF RunCommand, SuccessInv
    <3>2. PICK c \in Commands : command = {c}
      BY <3>1 DEF OptionInv, IsOption
    <3>3. Some(command) = c
      BY <3>2, SomeOfOne
    <3>4. OneRate(c)
      BY <3>1, <3>2, <3>3 DEF AcceptedInv, Accepted
    <3>5. \A t \in c.report.trajectory : Apportioned(t)
      BY DEF PricedInv, Commands
    <3>6. CASE "refused" \in DOMAIN DeriveCostFromReport(c)
      <4>1. printed' = {}
        BY <2>3, <3>1, <3>3, <3>6 DEF RunCommand
      <4> QED BY <4>1 DEF PricesOnlyMeasurements
    <3>7. CASE "refused" \notin DOMAIN DeriveCostFromReport(c)
      <4>1. printed' = {DeriveCostFromReport(c)} /\ command' = {c}
        BY <2>3, <3>1, <3>2, <3>3, <3>7 DEF RunCommand
      <4> QED BY <3>4, <3>5, <3>7, <4>1, AnswerPricesMeasurement DEF PricesOnlyMeasurements
    <3> QED BY <3>6, <3>7
  <2>4. CASE Again
    BY <2>4 DEF Again, PricesOnlyMeasurements
  <2>5. CASE UNCHANGED vars
    BY <2>5 DEF vars, PricedInv, PricesOnlyMeasurements
  <2> QED BY <2>1, <2>2, <2>3, <2>4, <2>5 DEF Next
<1> QED BY <1>1, <1>2 DEF PricedInv

(* Whatever is archived and whatever rates are given, a price that is      *)
(* printed is that of a quantity that was measured, its rate is above zero *)
(* and its parts are no more than the run (cost.rs, "withheld, not priced  *)
(* at zero").                                                              *)
THEOREM PricesAreOfMeasurements == Spec => []PricesOnlyMeasurements
<1>1. PricedInv => PricesOnlyMeasurements
  BY DEF PricedInv
<1> QED
  BY <1>1, InvocationInductive, ArgumentsChecked, SuccessInit, SuccessStep,
     PricedInit, PricedStep, PTL DEF Spec
=============================================================================
