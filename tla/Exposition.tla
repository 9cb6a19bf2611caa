----------------------------- MODULE Exposition -----------------------------
(***************************************************************************)
(* One scrape of an engine's /metrics endpoint (is-metrics, scrape.rs and  *)
(* parse.rs): the body is read line by line, once for each series the kind *)
(* of scrape needs, and what was read is kept, dropped or an error.  The   *)
(* run's model is "m".                                                     *)
(***************************************************************************)
EXTENDS EngineSchema, Sequences, FiniteSetsExt, Functions

CONSTANTS
  Lines,            \* [<<kind, engine>> -> set of lines]: what may be scraped
  MaxLines,         \* [<<kind, engine>> -> Nat]: a bound
  MaxCount,         \* the largest u64
  NanosPerSecond

(* A line is a comment or blank, has no value, or is a sample: a name, a   *)
(* label block and a value.  A label block is a sequence of symbols, of    *)
(* which a key stands for the text `key="`.  A value is a number of halves *)
(* or, what is not a finite number, none.  `of` is what the engine means   *)
(* by the line: its model, the part of the family it counts, or, of LoRA,  *)
(* the running adapters.                                                   *)

\* A label starts where a block does or after a separator.
Starts(labels, key) ==
  {p \in DOMAIN labels : labels[p] = key /\ (p = 1 \/ labels[p - 1] = "comma")}

\* A label as an engine writes it: the key, the text and a quote, which the
\* text does not hold.
Labelled(labels, key, text) ==
  \E p \in Starts(labels, key) :
    /\ p + Len(text) + 1 \in DOMAIN labels /\ labels[p + Len(text) + 1] = "quote"
    /\ \A k \in DOMAIN text : text[k] # "quote" /\ labels[p + k] = text[k]

Names(value) == SelectSeq(value, LAMBDA symbol : symbol # "comma")

\* What an engine writes says what it means.
Written(line) ==
  /\ line.labels \in Seq(STRING)
  /\ \A u, v \in line.value : u \in Int /\ u = v
  \* A label stands once in a block.
  /\ \A key \in {"model_name", "cache_source", "running_lora_adapters"} :
       \A p, q \in Starts(line.labels, key) : p = q
  /\ line.of.model = "m" <=> Labelled(line.labels, "model_name", <<"m">>)
  /\ line.name = "cached_tokens" /\ line.of.model = "m" =>
       (line.of.part = "total" <=> Labelled(line.labels, "cache_source", <<"total">>))
  /\ line.name = "lora_requests_info" =>
       \A p, q \in DOMAIN line.labels :
         Labelled(line.labels, "running_lora_adapters", SubSeq(line.labels, p, q)) =>
           line.of.running = Names(SubSeq(line.labels, p, q))

ASSUME ExpositionAssumption ==
  /\ MaxCount \in Nat
  /\ NanosPerSecond \in Nat /\ NanosPerSecond % 2 = 0
  /\ DOMAIN Lines \subseteq {"kvcache", "phase", "spec", "lora"} \X {"vllm", "sglang"}
  /\ \A of \in DOMAIN Lines : \A line \in Lines[of] :
       /\ line.shape \in {"comment", "no_value", "sample"}
       /\ line.shape = "sample" => Written(line)
  /\ MaxLines \in [DOMAIN Lines -> Nat]

VARIABLES
  scrape,     \* the kind of scrape, the engine and the body it answers
  pc,         \* "fetch", "line" or "end"
  next,       \* the line to be read next
  acc,        \* the value read so far of the series, an Option
  fields,     \* the series that are read
  series,     \* LoRA series read so far
  outcome,    \* of the scrape: "pending", "ok", "http", "parse"
  timeline,   \* the samples kept
  lora        \* the LoraObservation, for a "lora" scrape

scrapeVars == <<scrape, pc, next, acc, fields, series, outcome, timeline, lora>>

ScrapeInit ==
  /\ \E of \in DOMAIN Lines : \E n \in 0..MaxLines[of] : \E body \in [1..n -> Lines[of]] :
       scrape = [kind |-> of[1], engine |-> of[2], body |-> body]
  /\ pc = "fetch"
  /\ next = 1
  /\ acc = {}
  /\ fields = <<>> /\ series = <<>>
  /\ outcome = "pending"
  /\ timeline = <<>>
  /\ lora = {}

-----------------------------------------------------------------------------
(* Lines.                                                                  *)

\* Mutant: a key is found wherever its text is.
ExtractLabelAnywhere(labels, key) ==
  LET at == {p \in DOMAIN labels : labels[p] = key}
      ends == {p \in DOMAIN labels : p > Min(at) /\ labels[p] = "quote"}
  IN IF at = {} \/ ends = {} THEN {} ELSE {SubSeq(labels, Min(at) + 1, Min(ends) - 1)}

\* extract_label: the key starts the block or follows a separator, so that
\* it is not the end of a longer one; its value lasts to the next quote.
ExtractLabel(labels, key) ==
  LET at == Starts(labels, key)
      ends == {p \in DOMAIN labels : p > Min(at) /\ labels[p] = "quote"}
  IN IF at = {} \/ ends = {} THEN {} ELSE {SubSeq(labels, Min(at) + 1, Min(ends) - 1)}

\* Lines that are split are samples.
SplitLine(line) == line.shape = "sample"

\* Mutant: a number beyond the largest u64 is kept.
ParseCounterUnbounded(value) == {v \div 2 : v \in {u \in value : u >= 0}}

\* parse_counter_value: no number and a negative one are none; truncated
\* toward zero, and saturated.
ParseCounter(value) == {Min({v \div 2, MaxCount}) : v \in {u \in value : u >= 0}}

\* parse_seconds_as_nanos, of one line: rounded, not truncated.
ParseSeconds(value) ==
  {Min({(v * NanosPerSecond + 1) \div 2, MaxCount}) : v \in {u \in value : u >= 0}}

-----------------------------------------------------------------------------
(* What each kind of scrape reads, in order.                               *)

Counter(declared, required) ==
  [ name |-> {s.name : s \in declared}, aggregation |-> {s.aggregation : s \in declared},
    unit |-> "count", required |-> required ]

Seconds(declared) ==
  [name |-> declared, aggregation |-> {"single"}, unit |-> "seconds", required |-> TRUE]

\* Mutant: every family the schema declares must be in the body.
SpecSeriesRequired(declared) == Counter(declared, TRUE)

\* The speculative counters are declared and yet absent while the engine
\* does not speculate.
SpecSeries(declared) == Counter(declared, FALSE)

\* parse_kvcache, parse_phase and parse_spec.
Reads(kind, e) ==
  LET s == Schema(e) IN
  CASE kind = "kvcache" -> << Counter({s.hit_numerator}, FALSE), Counter({s.hit_denominator}, TRUE) >>
    [] kind = "phase"   -> << Counter({s.prompt_tokens}, TRUE), Counter({s.generation_tokens}, TRUE),
                              Seconds(s.prefill_time_sum), Seconds(s.decode_time_sum) >>
    [] kind = "spec"    -> << SpecSeries(s.spec_draft_tokens), SpecSeries(s.spec_accepted_tokens),
                              SpecSeries(s.spec_drafts) >>
    [] OTHER            -> <<>>

Plan == Reads(scrape.kind, scrape.engine)
Wanted == Plan[Len(fields) + 1]
Line == scrape.body[next]

-----------------------------------------------------------------------------
Fail(error) ==
  /\ pc' = "end" /\ outcome' = error
  /\ lora' = IF scrape.kind = "lora" THEN {[found |-> "read_failed"]} ELSE {}
  /\ UNCHANGED <<scrape, next, acc, fields, series, timeline>>

\* The request, a status that is no success, or the transfer of the body.
FetchFails == pc = "fetch" /\ Fail("http")

Fetch ==
  /\ pc = "fetch"
  /\ pc' = "line"
  /\ UNCHANGED <<scrape, next, acc, fields, series, outcome, timeline, lora>>

ReadsOn == pc = "line" /\ scrape.kind # "lora" /\ Len(fields) < Len(Plan)

\* A series is read: the next one is, from the first line.
Keep(value) ==
  /\ fields' = Append(fields, value)
  /\ next' = 1
  /\ acc' = {}
  /\ UNCHANGED <<scrape, pc, series, outcome, timeline, lora>>

\* parse_optional_series and parse_phase_time: what the schema does not
\* declare is not looked for.
PassUndeclared ==
  /\ ReadsOn
  /\ Wanted.name = {}
  /\ Keep({})

\* The lines of the wanted family and the model; the part that repeats the
\* whole is left out of a sum.
Selected(line) ==
  /\ SplitLine(line)
  /\ {line.name} = Wanted.name
  /\ ExtractLabel(line.labels, "model_name") = {<<"m">>}
  /\ ~( /\ Wanted.aggregation = {"sum_but_total"}
        /\ ExtractLabel(line.labels, "cache_source") = {<<"total">>} )

Advance == next' = next + 1 /\ UNCHANGED <<scrape, pc, fields, outcome, timeline, lora>>

SkipLine ==
  /\ ReadsOn
  /\ Wanted.name # {} /\ next <= Len(scrape.body)
  /\ ~Selected(Line)
  /\ Advance
  /\ UNCHANGED <<acc, series>>

TakeLine ==
  /\ ReadsOn
  /\ Wanted.name # {} /\ next <= Len(scrape.body)
  /\ Selected(Line)
  /\ LET value == IF Wanted.unit = "count" THEN ParseCounter(Line.value)
                                           ELSE ParseSeconds(Line.value)
         sum   == SumSet(acc) + SumSet(value)
     IN CASE value = {}                        -> Fail("parse")
          [] value # {} /\ Wanted.aggregation = {"single"} -> Keep(value)
          [] OTHER -> IF sum > MaxCount THEN Fail("parse")
                      ELSE Advance /\ acc' = {sum} /\ UNCHANGED series

\* Mutant: an absent series is a zero.
SeriesEndsAtZero ==
  /\ ReadsOn
  /\ Wanted.name # {} /\ next > Len(scrape.body)
  /\ IF acc = {} /\ Wanted.required THEN Fail("parse") ELSE Keep({SumSet(acc)})

SeriesEnds ==
  /\ ReadsOn
  /\ Wanted.name # {} /\ next > Len(scrape.body)
  /\ IF acc = {} /\ Wanted.required THEN Fail("parse") ELSE Keep(acc)

-----------------------------------------------------------------------------
(* What is kept of a reading.  A hit rate needs its numerator; of the      *)
(* speculative counters SpecTimeline::push keeps all three or none.        *)

Complete == \A i \in DOMAIN fields : fields[i] # {} \/ Plan[i].name = {}

Finish ==
  /\ pc = "line" /\ scrape.kind # "lora" /\ Len(fields) = Len(Plan)
  /\ pc' = "end"
  /\ outcome' = IF scrape.kind = "kvcache" /\ ~Complete THEN "parse" ELSE "ok"
  /\ LET kept == IF scrape.kind = "spec" THEN \A i \in DOMAIN fields : fields[i] # {}
                                         ELSE Complete
     IN timeline' = IF kept THEN Append(timeline, fields) ELSE timeline
  /\ UNCHANGED <<scrape, next, acc, fields, series, lora>>

-----------------------------------------------------------------------------
(* vllm:lora_requests_info, of every model, read once.                     *)

\* parse_lora_series, an Option: both adapter lists and a finite value, kept
\* as it is, are needed; max_lora may be absent and must be a number.
ParseLoraSeries(line) ==
  LET running == ExtractLabel(line.labels, "running_lora_adapters")
      waiting == ExtractLabel(line.labels, "waiting_lora_adapters")
      max     == ExtractLabel(line.labels, "max_lora")
  IN IF running = {} \/ waiting = {} \/ max \cap {<<"text">>} # {} \/ line.value = {}
     THEN {}
     ELSE { [ running |-> Names(r), waiting |-> Names(w), max_lora |-> max, value |-> v ] :
              r \in running, w \in waiting, v \in line.value }

ReadsLora == pc = "line" /\ scrape.kind = "lora"

SkipLora ==
  /\ ReadsLora /\ next <= Len(scrape.body)
  /\ ~(SplitLine(Line) /\ Line.name = "lora_requests_info")
  /\ Advance
  /\ UNCHANGED <<acc, series>>

TakeLora ==
  /\ ReadsLora /\ next <= Len(scrape.body)
  /\ SplitLine(Line) /\ Line.name = "lora_requests_info"
  /\ LET parsed == ParseLoraSeries(Line) IN
     IF parsed = {} THEN Fail("parse")
     ELSE /\ Advance
          /\ series' = Append(series, CHOOSE s \in parsed : TRUE)
          /\ UNCHANGED acc

Newest == Max({series[i].value : i \in DOMAIN series})

Top == {i \in DOMAIN series : series[i].value = Newest}

\* Mutant: the last of the newest is chosen.
ObservationLast ==
  IF series = <<>> THEN [found |-> "no_series"]
  ELSE [found |-> "latest", series |-> series[Max(Top)]]

\* LoraReading: the newest, if one alone is; a tie keeps all of them.
Observation ==
  IF series = <<>> THEN [found |-> "no_series"]
  ELSE IF \E i \in Top : Top = {i}
       THEN [found |-> "latest", series |-> series[CHOOSE i \in Top : TRUE]]
       ELSE [found |-> "tie", candidates |-> Restrict(series, Top)]

FinishLora ==
  /\ ReadsLora /\ next > Len(scrape.body)
  /\ pc' = "end" /\ outcome' = "ok"
  /\ lora' = {Observation}
  /\ UNCHANGED <<scrape, next, acc, fields, series, timeline>>

ScrapeNext ==
  \/ FetchFails \/ Fetch
  \/ PassUndeclared \/ SkipLine \/ TakeLine \/ SeriesEnds \/ Finish
  \/ SkipLora \/ TakeLora \/ FinishLora

ScrapeSpec == ScrapeInit /\ [][ScrapeNext]_scrapeVars

-----------------------------------------------------------------------------
Option(S) == {{}} \cup {{v} : v \in S}

ScrapeTypeOK ==
  /\ pc \in {"fetch", "line", "end"}
  /\ next \in 1..(Len(scrape.body) + 1)
  /\ acc \in Option(0..MaxCount)
  /\ fields \in Seq(Option(0..MaxCount)) /\ Len(fields) <= Len(Plan)
  /\ outcome \in {"pending", "ok", "http", "parse"}
  /\ (pc = "end") = (outcome # "pending")
  /\ timeline = <<>> \/ (timeline = <<fields>> /\ outcome = "ok")
  /\ Cardinality(lora) = IF pc = "end" /\ scrape.kind = "lora" THEN 1 ELSE 0

\* The lines the engine means for series j of the plan, without what only
\* repeats the others, and what they count.
Meant(j) ==
  {i \in DOMAIN scrape.body :
     LET line == scrape.body[i] IN
     /\ line.shape = "sample" /\ {line.name} = Plan[j].name /\ line.of.model = "m"
     /\ ~(Plan[j].aggregation = {"sum_but_total"} /\ line.of.part = "total")}

Valid(i) == \E v \in scrape.body[i].value : v >= 0

Amount(i, unit) ==
  LET v == CHOOSE u \in scrape.body[i].value : TRUE IN
  Min({MaxCount, IF unit = "seconds" THEN (v * NanosPerSecond) \div 2 ELSE v \div 2})

Amounts(unit) == [i \in DOMAIN scrape.body |-> Amount(i, unit)]

AmountOf(j) == SumFunctionOnSet(Amounts(Plan[j].unit), Meant(j))

AsMeant(j, value) ==
  CASE Meant(j) = {} -> value = {}
    [] Meant(j) # {} /\ Plan[j].aggregation = {"single"} ->
         \E i \in Meant(j) : Valid(i) /\ value = {Amount(i, Plan[j].unit)}
    [] OTHER -> (\A i \in Meant(j) : Valid(i)) /\ value = {AmountOf(j)}

(* What is read is what the engine means for the model: the sum of a split *)
(* family without the part that repeats it, whatever the order of the      *)
(* lines, the other labels and the lines of other models; for a family of  *)
(* one line that line, or one of them where data-parallel engines write    *)
(* several; and nothing where there is no line ("absence must not be       *)
(* readable as zero", parse.rs).                                           *)
ReadingIsWhatTheEngineMeant ==
  outcome = "ok" => \A j \in DOMAIN fields : AsMeant(j, fields[j])

\* What there is to refuse of series j.
Refusable(j) ==
  \/ \E i \in Meant(j) : ~Valid(i)
  \/ (\A i \in Meant(j) : Valid(i)) /\ AmountOf(j) > MaxCount
  \/ Meant(j) = {} /\ Plan[j].name # {} /\ scrape.kind \in {"kvcache", "phase"}

(* A scrape that is refused had cause in the model's own lines: one that   *)
(* is not a counter, a sum beyond u64, or a series its kind cannot do      *)
(* without.  Lines of other models never lose a sample, and neither does   *)
(* an engine that does not speculate fail a scrape.                        *)
FailureHasACause ==
  outcome = "parse" /\ scrape.kind # "lora" => \E j \in DOMAIN Plan : Refusable(j)

(* A sample holds every counter its kind stands for: no hit rate without a *)
(* numerator (ADR-014 D4), no speculative sample with one of the three     *)
(* missing (spec.rs: "a zero where a measurement is missing"), and phase   *)
(* times are missing only where the engine has no such family.  What is    *)
(* read is a u64 (ScrapeTypeOK), however large or negative what is         *)
(* written.                                                                *)
SamplesAreWhole ==
  /\ ScrapeTypeOK
  /\ timeline # <<>> =>
       \A j \in DOMAIN Plan :
         \/ Meant(j) # {} /\ timeline[1][j] # {}
         \/ scrape.kind = "phase" /\ scrape.engine = "sglang" /\ j > 2 /\ timeline[1][j] = {}

LoraLines ==
  {i \in DOMAIN scrape.body :
     scrape.body[i].shape = "sample" /\ scrape.body[i].name = "lora_requests_info"}

LinesAt(value) == {i \in LoraLines : scrape.body[i].value = {value}}

(* The adapters reported are those of the one newest series, and a tie is  *)
(* told as one.  A body without the family and a read that did not         *)
(* complete are two answers (lora.rs: "kept apart because each means       *)
(* something different"): one series that cannot be read makes it the      *)
(* second, "for any reason" (scrape.rs), and no adapters are told of the   *)
(* series beside it.                                                       *)
LoraIsTheNewest ==
  \A o \in lora :
    /\ IF o.found = "read_failed"
       THEN outcome = "http" \/ \E i \in LoraLines : ParseLoraSeries(scrape.body[i]) = {}
       ELSE outcome = "ok" /\ \A i \in LoraLines : ParseLoraSeries(scrape.body[i]) # {}
    /\ o.found = "no_series" => LoraLines = {}
    /\ o.found = "latest" =>
         \E i \in LoraLines :
           /\ scrape.body[i].value = {o.series.value}
           /\ o.series.running = scrape.body[i].of.running
           /\ \A k \in LoraLines \ {i} : Max(scrape.body[k].value) < o.series.value
    /\ o.found = "tie" =>
         \E newest \in {c.value : c \in Range(o.candidates)} :
           /\ \A c \in Range(o.candidates) : c.value = newest
           /\ Cardinality(LinesAt(newest)) = Cardinality(DOMAIN o.candidates)
           /\ Cardinality(LinesAt(newest)) > 1
           /\ \A k \in LoraLines \ LinesAt(newest) : Max(scrape.body[k].value) < newest
=============================================================================
