------------------------ MODULE EngineCountersProofs ------------------------
(***************************************************************************)
(* For every set of requests and every number of restarts and scrapes: a   *)
(* delta never overstates what was done, the hit rate is at most one, the  *)
(* splits keep the energy, and the text tells the rate or why there is     *)
(* none.  The readings these figures are made of, line by line, are at the *)
(* end: what is read of a body is what the engine means by it.             *)
(***************************************************************************)
EXTENDS EngineCounters, Exposition, FiniteLemmas, TLAPS

-----------------------------------------------------------------------------
(* The lines an engine can expose, and what they count.                    *)

VllmNames ==
  {"prefix_cache_hits", "prefix_cache_queries", "prompt_tokens",
   "generation_tokens", "prefill_time", "decode_time"}

VllmLines == VllmNames \X {""}

SglangLines ==
  ({"cached_tokens"} \X {"device", "host", "total"})
    \cup ({"prompt_tokens", "generation_tokens"} \X {"streamed", "whole"})

\* vLLM exposes all of its lines, SGLang some.
BodyInv ==
  /\ engine = "vllm" => DOMAIN body = VllmLines
  /\ engine = "sglang" => DOMAIN body \subseteq SglangLines

\* The value of a line, zero before it is exposed.
Value(k) == IF k \in DOMAIN body THEN body[k] ELSE 0

LineOf(name, label) == Value(<<name, label>>)

\* What the lines say has been counted since the engine started.
Hits ==
  IF engine = "vllm" THEN LineOf("prefix_cache_hits", "")
  ELSE LineOf("cached_tokens", "device") + LineOf("cached_tokens", "host")

Streams(name) == LineOf(name, "streamed") + LineOf(name, "whole")

Queries ==
  IF engine = "vllm" THEN LineOf("prefix_cache_queries", "") ELSE Streams("prompt_tokens")

Prompt == IF engine = "vllm" THEN LineOf("prompt_tokens", "") ELSE Streams("prompt_tokens")

Generation ==
  IF engine = "vllm" THEN LineOf("generation_tokens", "") ELSE Streams("generation_tokens")

-----------------------------------------------------------------------------
(* The inductive invariant.  A sample stands before every later one, and   *)
(* before what the lines say now: as long as the engine lives the counters *)
(* have moved by what was done, and after a restart they hold at most what *)
(* was done since the sample.                                              *)

\* What was done only grows, and every request counts a token.
Before(p, q) ==
  /\ p.restarts <= q.restarts
  /\ \A f \in {"hits", "prompt", "generation"} : p.done[f] <= q.done[f]
  /\ p.done = q.done \/ p.done.prompt + p.done.generation < q.done.prompt + q.done.generation

KvBefore(p, q) ==
  /\ Before(p, q)
  /\ p.restarts = q.restarts =>
       /\ p.hits <= q.hits
       /\ q.hits - p.hits <= q.done.hits - p.done.hits
       /\ q.hits - p.hits <= q.queries - p.queries
       /\ q.queries - p.queries = q.done.prompt - p.done.prompt
  /\ p.restarts # q.restarts =>
       /\ q.hits <= q.done.hits - p.done.hits
       /\ q.queries <= q.done.prompt - p.done.prompt

PhaseBefore(p, q) ==
  /\ Before(p, q)
  /\ p.restarts = q.restarts =>
       /\ q.prompt - p.prompt = q.done.prompt - p.done.prompt
       /\ q.generation - p.generation = q.done.generation - p.done.generation
  /\ p.restarts # q.restarts =>
       /\ q.prompt <= q.done.prompt - p.done.prompt
       /\ q.generation <= q.done.generation - p.done.generation

KvNow == [hits |-> Hits, queries |-> Queries, done |-> done, restarts |-> restarts]

PhaseNow == [prompt |-> Prompt, generation |-> Generation, done |-> done, restarts |-> restarts]

KvHistory ==
  \A i \in 1..Len(kv) :
    KvBefore(kv[i], KvNow) /\ \A j \in (i + 1)..Len(kv) : KvBefore(kv[i], kv[j])

PhaseHistory ==
  \A i \in 1..Len(phase) :
    /\ PhaseBefore(phase[i], PhaseNow)
    /\ \A j \in (i + 1)..Len(phase) : PhaseBefore(phase[i], phase[j])

\* The report is derived from the timelines as they stand.
ReportInv ==
  report = IF total = None THEN [kvcache |-> Withheld, phase_energy |-> Withheld]
           ELSE [ kvcache |-> DeriveKvcache(kv), phase_energy |-> DerivePhaseEnergy(phase, total) ]

IInv == TypeOK /\ BodyInv /\ KvHistory /\ PhaseHistory /\ ReportInv

-----------------------------------------------------------------------------
(* What a request adds to the lines.                                       *)

\* A key that is counted once gains its count, and others gain nothing.
LEMMA GainOfKey ==
  ASSUME NEW C, \A c \in C : c[2] \in Nat, \A c, d \in C : c[1] = d[1] => c = d, NEW k
  PROVE  LET counted == {c \in C : c[2] > 0}
             gain    == SumFunction([c \in {d \in counted : d[1] = k} |-> c[2]])
         IN /\ \A c \in C : c[1] = k => gain = c[2]
            /\ (\A c \in C : c[1] # k) => gain = 0
            /\ gain \in Nat
<1> DEFINE S == {d \in {c \in C : c[2] > 0} : d[1] = k}
           f == [c \in S |-> c[2]]
<1>1. SumFunction(f) = SumFunctionOnSet(f, S)
  BY DEF SumFunction
<1>2. S = {} => SumFunction(f) = 0
  BY <1>1, SumOfNone
<1>3. ASSUME NEW c \in S PROVE SumFunction(f) = c[2]
  <2>1. S = {} \cup {c} /\ f[c] = c[2] /\ c[2] \in Int /\ IsFiniteSet({}) /\ c \notin {}
    BY <1>3, FS_EmptySet
  <2> HIDE DEF f, S
  <2>2. \A x \in {} \cup {c} : f[x] \in Int
    BY <2>1
  <2>3. SumFunctionOnSet(f, {} \cup {c}) = f[c] + SumFunctionOnSet(f, {})
    BY <2>1, <2>2, SumAdd
  <2> QED BY <2>1, <2>3, <1>1, SumOfNone
<1>4. ASSUME NEW c \in C, c[1] = k PROVE SumFunction(f) = c[2]
  <2>1. CASE c[2] > 0
    BY <2>1, <1>3, <1>4
  <2>2. CASE c[2] = 0
    BY <2>2, <1>2, <1>4
  <2> QED BY <2>1, <2>2
<1>5. (\A c \in C : c[1] # k) => S = {}
  OBVIOUS
<1> QED
  <2>1. SumFunction(f) \in Nat
    <3>1. CASE S = {}
      BY <3>1, <1>2
    <3>2. CASE S # {}
      BY <3>2, <1>3
    <3> QED BY <3>1, <3>2
  <2> HIDE DEF f
  <2>2. /\ \A c \in C : c[1] = k => SumFunction(f) = c[2]
        /\ (\A c \in C : c[1] # k) => SumFunction(f) = 0
    BY <1>2, <1>4, <1>5
  <2> QED BY <2>1, <2>2 DEF f

\* A request is counted once on a line, and only on lines the engine has.
LEMMA CountedOnce ==
  ASSUME engine \in {"vllm", "sglang"}, NEW r \in Counts,
         NEW source \in {"device", "host", "total"}, NEW streaming \in {"streamed", "whole"}
  PROVE  LET C == Counted(r, source, streaming)
         IN /\ \A c \in C : c[2] \in Nat
            /\ \A c, d \in C : c[1] = d[1] => c = d
            /\ \A c \in C : c[1] \in IF engine = "vllm" THEN VllmLines ELSE SglangLines
<1> DEFINE C == Counted(r, source, streaming)
<1>1. CASE engine = "vllm"
  <2>1. C = { <<<<"prefix_cache_hits", "">>, r.hits>>, <<<<"prefix_cache_queries", "">>, r.prompt>>,
              <<<<"prompt_tokens", "">>, r.prompt>>, <<<<"generation_tokens", "">>, r.generation>>,
              <<<<"prefill_time", "">>, r.prefill>>, <<<<"decode_time", "">>, r.decode>> }
    BY <1>1 DEF Counted
  <2> DEFINE field == [ prefix_cache_hits |-> "hits", prefix_cache_queries |-> "prompt",
                        prompt_tokens |-> "prompt", generation_tokens |-> "generation",
                        prefill_time |-> "prefill", decode_time |-> "decode" ]
  <2>2. \A c \in C : \E n \in VllmNames : c = <<<<n, "">>, r[field[n]]>>
    BY <2>1 DEF VllmNames
  <2>3. \A n \in VllmNames : r[field[n]] \in Nat
    BY DEF Counts, VllmNames
  <2> HIDE DEF C, field
  <2>4. \A c \in C : c[2] \in Nat
    <3> SUFFICES ASSUME NEW c \in C PROVE c[2] \in Nat
      OBVIOUS
    <3>1. PICK n \in VllmNames : c = <<<<n, "">>, r[field[n]]>>
      BY <2>2
    <3> QED BY <3>1, <2>3
  <2>5. \A c \in C : c[1] \in VllmLines
    <3> SUFFICES ASSUME NEW c \in C PROVE c[1] \in VllmLines
      OBVIOUS
    <3>1. PICK n \in VllmNames : c = <<<<n, "">>, r[field[n]]>>
      BY <2>2
    <3> QED BY <3>1 DEF VllmLines
  <2>6. \A c, d \in C : c[1] = d[1] => c = d
    <3> SUFFICES ASSUME NEW c \in C, NEW d \in C, c[1] = d[1] PROVE c = d
      OBVIOUS
    <3>1. PICK n \in VllmNames : c = <<<<n, "">>, r[field[n]]>>
      BY <2>2
    <3>2. PICK m \in VllmNames : d = <<<<m, "">>, r[field[m]]>>
      BY <2>2
    <3>3. c[1] = <<n, "">> /\ d[1] = <<m, "">>
      BY <3>1, <3>2
    <3>4. <<n, "">>[1] = <<m, "">>[1]
      BY <3>3
    <3>5. n = m
      BY <3>4
    <3> QED BY <3>1, <3>2, <3>5
  <2> QED BY <2>4, <2>5, <2>6, <1>1 DEF C
<1>2. CASE engine = "sglang"
  BY <1>2 DEF Counted, Counts, SglangLines
<1> QED BY <1>1, <1>2

\* A line grows by what is counted on it, and the others stay.
LEMMA LinesGrow ==
  ASSUME NEW C, \A c \in C : c[2] \in Nat, \A c, d \in C : c[1] = d[1] => c = d,
         \A k \in DOMAIN body : body[k] \in Nat,
         LET counted == {c \in C : c[2] > 0}
             value(k) == IF k \in DOMAIN body THEN body[k] ELSE 0
             gain(k)  == SumFunction([c \in {d \in counted : d[1] = k} |-> c[2]])
         IN body' = [ k \in DOMAIN body \cup {c[1] : c \in counted} |-> value(k) + gain(k) ]
  PROVE  /\ \A c \in C : Value(c[1])' = Value(c[1]) + c[2]
         /\ \A k : (\A c \in C : c[1] # k) => Value(k)' = Value(k)
         /\ \A k \in DOMAIN body' : body'[k] \in Nat
         /\ DOMAIN body \subseteq DOMAIN body'
         /\ \A k \in DOMAIN body' \ DOMAIN body : \E c \in C : c[1] = k
<1> DEFINE counted == {c \in C : c[2] > 0}
           gain(k) == SumFunction([c \in {d \in counted : d[1] = k} |-> c[2]])
           D == DOMAIN body \cup {c[1] : c \in counted}
<1>1. \A k : /\ \A c \in C : c[1] = k => gain(k) = c[2]
             /\ (\A c \in C : c[1] # k) => gain(k) = 0
             /\ gain(k) \in Nat
  BY GainOfKey
<1>2. body' = [k \in D |-> Value(k) + gain(k)]
  BY DEF Value
<1> HIDE DEF gain
<1>3. \A k : Value(k) \in Nat
  BY DEF Value
<1>4. ASSUME NEW k PROVE Value(k)' = IF k \in D THEN Value(k) + gain(k) ELSE 0
  <2>1. Value(k)' = IF k \in DOMAIN body' THEN body'[k] ELSE 0
    BY DEF Value
  <2>2. DOMAIN body' = D
    BY <1>2
  <2> HIDE DEF D
  <2>3. k \in D => body'[k] = Value(k) + gain(k)
    BY <1>2
  <2> QED BY <2>1, <2>2, <2>3
<1>5. ASSUME NEW c \in C PROVE Value(c[1])' = Value(c[1]) + c[2]
  <2>1. gain(c[1]) = c[2] /\ c[2] \in Nat
    BY <1>1
  <2>2. CASE c[2] > 0
    <3>1. c[1] \in D
      BY <2>2
    <3> QED BY <3>1, <2>1, <1>4
  <2>3. CASE c[2] = 0 /\ c[1] \in D
    BY <2>3, <2>1, <1>4
  <2>4. CASE c[2] = 0 /\ c[1] \notin D
    <3>1. Value(c[1]) = 0
      BY <2>4 DEF Value
    <3> QED BY <3>1, <2>4, <1>4
  <2> QED BY <2>1, <2>2, <2>3, <2>4
<1>6. ASSUME NEW k, \A c \in C : c[1] # k PROVE Value(k)' = Value(k)
  <2>1. gain(k) = 0
    BY <1>1, <1>6
  <2>2. k \notin D => Value(k) = 0
    BY DEF Value
  <2> QED BY <2>1, <2>2, <1>3, <1>4
<1>7. \A k \in D : body'[k] = Value(k) + gain(k)
  <2> HIDE DEF D
  <2> QED BY <1>2
<1>8. DOMAIN body' = D
  BY <1>2
<1>9. \A k \in DOMAIN body' : body'[k] \in Nat
  <2> SUFFICES ASSUME NEW k \in DOMAIN body' PROVE body'[k] \in Nat
    OBVIOUS
  <2>1. gain(k) \in Nat /\ Value(k) \in Nat
    BY <1>1, <1>3
  <2>2. body'[k] = Value(k) + gain(k)
    BY <1>7, <1>8
  <2> QED BY <2>1, <2>2
<1>10. \A k \in DOMAIN body' \ DOMAIN body : \E c \in C : c[1] = k
  BY <1>8
<1>11. DOMAIN body \subseteq DOMAIN body'
  BY <1>8
<1> QED BY <1>5, <1>6, <1>9, <1>10, <1>11

\* Serving moves what was done, the cached tokens by at most as much and
\* the other tokens by exactly as much.
LEMMA ServeCounts ==
  ASSUME TypeOK, BodyInv, Serve
  PROVE  /\ BodyInv'
         /\ \A k \in DOMAIN body' : body'[k] \in Nat
         /\ \E r \in Requests :
              /\ r \in Counts /\ r.hits <= r.prompt /\ r.prompt + r.generation > 0
              /\ done' = [f \in DOMAIN done |-> done[f] + r[f]]
              /\ \E h \in {0, r.hits} : Hits' = Hits + h
              /\ Queries' = Queries + r.prompt
              /\ Prompt' = Prompt + r.prompt
              /\ Generation' = Generation + r.generation
<1>1. PICK r \in Requests, source \in {"device", "host", "total"}, streaming \in {"streamed", "whole"} :
       LET C == Counted(r, source, streaming)
           counted == {c \in C : c[2] > 0}
           value(k) == IF k \in DOMAIN body THEN body[k] ELSE 0
           gain(k)  == SumFunction([c \in {d \in counted : d[1] = k} |-> c[2]])
       IN /\ engine = "vllm" => source = "device" /\ streaming = "whole"
          /\ body' = [ k \in DOMAIN body \cup {c[1] : c \in counted} |-> value(k) + gain(k) ]
          /\ done' = [ f \in DOMAIN done |-> done[f] + r[f] ]
  BY DEF Serve
<1> DEFINE C == Counted(r, source, streaming)
<1>2. r \in Counts /\ r.hits <= r.prompt /\ r.prompt + r.generation > 0
  BY CountersAssumption
<1>3. engine \in {"vllm", "sglang"} /\ engine' = engine
  BY DEF TypeOK, Serve
<1>4. /\ \A c \in C : c[2] \in Nat
      /\ \A c, d \in C : c[1] = d[1] => c = d
      /\ \A c \in C : c[1] \in IF engine = "vllm" THEN VllmLines ELSE SglangLines
  BY <1>2, <1>3, CountedOnce
<1>5. \A k \in DOMAIN body : body[k] \in Nat
  BY DEF TypeOK
<1> HIDE DEF C
<1>6. /\ \A c \in C : Value(c[1])' = Value(c[1]) + c[2]
      /\ \A k : (\A c \in C : c[1] # k) => Value(k)' = Value(k)
      /\ \A k \in DOMAIN body' : body'[k] \in Nat
      /\ DOMAIN body \subseteq DOMAIN body'
      /\ \A k \in DOMAIN body' \ DOMAIN body : \E c \in C : c[1] = k
  BY <1>1, <1>4, <1>5, LinesGrow DEF C
<1>7. BodyInv'
  BY <1>3, <1>4, <1>6 DEF BodyInv
<1>8. \A k : Value(k) \in Nat
  BY <1>5 DEF Value
<1>9. ASSUME NEW k, NEW n, <<k, n>> \in C PROVE Value(k)' = Value(k) + n
  <2>1. Value(<<k, n>>[1])' = Value(<<k, n>>[1]) + <<k, n>>[2]
    BY <1>6, <1>9
  <2> QED BY <2>1
<1>10. CASE engine = "vllm"
  <2>1. C = { <<<<"prefix_cache_hits", "">>, r.hits>>, <<<<"prefix_cache_queries", "">>, r.prompt>>,
              <<<<"prompt_tokens", "">>, r.prompt>>, <<<<"generation_tokens", "">>, r.generation>>,
              <<<<"prefill_time", "">>, r.prefill>>, <<<<"decode_time", "">>, r.decode>> }
    BY <1>10 DEF Counted, C
  <2>2. LineOf("prefix_cache_hits", "")' = LineOf("prefix_cache_hits", "") + r.hits
    BY <2>1, <1>9 DEF LineOf
  <2>3. LineOf("prefix_cache_queries", "")' = LineOf("prefix_cache_queries", "") + r.prompt
    BY <2>1, <1>9 DEF LineOf
  <2>4. LineOf("prompt_tokens", "")' = LineOf("prompt_tokens", "") + r.prompt
    BY <2>1, <1>9 DEF LineOf
  <2>5. LineOf("generation_tokens", "")' = LineOf("generation_tokens", "") + r.generation
    BY <2>1, <1>9 DEF LineOf
  <2>6. Hits' = Hits + r.hits /\ Queries' = Queries + r.prompt /\ Prompt' = Prompt + r.prompt
        /\ Generation' = Generation + r.generation
    BY <2>2, <2>3, <2>4, <2>5, <1>3, <1>10 DEF Hits, Queries, Prompt, Generation
  <2> QED BY <2>6, <1>1, <1>2, <1>6, <1>7
<1>11. CASE engine = "sglang"
  <2>1. C = { <<<<"cached_tokens", source>>, r.hits>>, <<<<"prompt_tokens", streaming>>, r.prompt>>,
              <<<<"generation_tokens", streaming>>, r.generation>> }
    BY <1>11 DEF Counted, C
  <2>2. LineOf("cached_tokens", source)' = LineOf("cached_tokens", source) + r.hits
    BY <2>1, <1>9 DEF LineOf
  <2>3. \A l \in {"device", "host", "total"} \ {source} :
          LineOf("cached_tokens", l)' = LineOf("cached_tokens", l)
    <3> SUFFICES ASSUME NEW l \in {"device", "host", "total"} \ {source}
                 PROVE  Value(<<"cached_tokens", l>>)' = Value(<<"cached_tokens", l>>)
      BY DEF LineOf
    <3>1. \A c \in C : c[1] # <<"cached_tokens", l>>
      BY <2>1
    <3> QED BY <3>1, <1>6
  <2>4. \E h \in {0, r.hits} : Hits' = Hits + h
    <3>1. CASE source = "total"
      BY <3>1, <2>3, <1>3, <1>8, <1>11 DEF Hits, LineOf
    <3>2. CASE source = "device"
      BY <3>2, <2>2, <2>3, <1>2, <1>3, <1>8, <1>11 DEF Hits, LineOf, Counts
    <3>3. CASE source = "host"
      BY <3>3, <2>2, <2>3, <1>2, <1>3, <1>8, <1>11 DEF Hits, LineOf, Counts
    <3> QED BY <3>1, <3>2, <3>3
  <2>5. ASSUME NEW name \in {"prompt_tokens", "generation_tokens"}, NEW n \in Nat,
               <<<<name, streaming>>, n>> \in C
        PROVE  Streams(name)' = Streams(name) + n
    <3>1. LineOf(name, streaming)' = LineOf(name, streaming) + n
      BY <2>5, <1>9 DEF LineOf
    <3>2. ASSUME NEW l \in {"streamed", "whole"} \ {streaming}
          PROVE  LineOf(name, l)' = LineOf(name, l)
      <4>1. \A c \in C : c[1] # <<name, l>>
        BY <2>1
      <4> QED BY <4>1, <1>6 DEF LineOf
    <3>3. CASE streaming = "streamed"
      BY <3>1, <3>2, <3>3, <1>8 DEF Streams, LineOf
    <3>4. CASE streaming = "whole"
      BY <3>1, <3>2, <3>4, <1>8 DEF Streams, LineOf
    <3> QED BY <3>3, <3>4
  <2>6. r.prompt \in Nat /\ r.generation \in Nat
    BY <1>2 DEF Counts
  <2>7. Streams("prompt_tokens")' = Streams("prompt_tokens") + r.prompt
    BY <2>1, <2>5, <2>6
  <2>8. Streams("generation_tokens")' = Streams("generation_tokens") + r.generation
    BY <2>1, <2>5, <2>6
  <2>9. Queries' = Queries + r.prompt /\ Prompt' = Prompt + r.prompt
        /\ Generation' = Generation + r.generation
    BY <2>7, <2>8, <1>3, <1>11 DEF Queries, Prompt, Generation
  <2> QED BY <2>4, <2>9, <1>1, <1>2, <1>6, <1>7
<1> QED BY <1>3, <1>10, <1>11

-----------------------------------------------------------------------------
(* What a scrape reads.                                                    *)

\* A pair is made of its parts.
LEMMA PairHasItsParts ==
  \A A, B : \A k \in A \X B : k = <<k[1], k[2]>> /\ k[1] \in A /\ k[2] \in B
OBVIOUS

\* The sum over one line.
LEMMA SumOfOneLine ==
  ASSUME NEW a \in DOMAIN body, body[a] \in Nat
  PROVE  SumFunctionOnSet(body, {a}) = body[a]
<1>1. IsFiniteSet({}) /\ {} \cup {a} = {a} /\ a \notin {} /\ body[a] \in Int
  BY FS_EmptySet
<1>2. SumFunctionOnSet(body, {} \cup {a}) = body[a] + SumFunctionOnSet(body, {})
  BY <1>1, SumAdd
<1> QED BY <1>1, <1>2, SumOfNone

\* The sum over those of two lines that are exposed.
LEMMA SumOfTwoLines ==
  ASSUME NEW a, NEW b, a # b, \A k \in DOMAIN body : body[k] \in Nat
  PROVE  SumFunctionOnSet(body, {a, b} \cap DOMAIN body) = Value(a) + Value(b)
<1>1. CASE a \notin DOMAIN body /\ b \notin DOMAIN body
  <2>1. {a, b} \cap DOMAIN body = {}
    BY <1>1
  <2> QED BY <2>1, <1>1, SumOfNone DEF Value
<1>2. CASE a \in DOMAIN body /\ b \notin DOMAIN body
  <2>1. {a, b} \cap DOMAIN body = {a} /\ body[a] \in Nat
    BY <1>2
  <2> QED BY <2>1, <1>2, SumOfOneLine DEF Value
<1>3. CASE a \notin DOMAIN body /\ b \in DOMAIN body
  <2>1. {a, b} \cap DOMAIN body = {b} /\ body[b] \in Nat
    BY <1>3
  <2> QED BY <2>1, <1>3, SumOfOneLine DEF Value
<1>4. CASE a \in DOMAIN body /\ b \in DOMAIN body
  <2>1. {a, b} \cap DOMAIN body = {a} \cup {b} /\ IsFiniteSet({a}) /\ b \notin {a}
    BY <1>4, FS_Singleton
  <2>2. body[a] \in Nat /\ body[b] \in Nat
    BY <1>4
  <2>3. SumFunctionOnSet(body, {a} \cup {b}) = body[b] + SumFunctionOnSet(body, {a})
    BY <2>1, <2>2, SumAdd
  <2> QED BY <2>1, <2>2, <2>3, <1>4, SumOfOneLine DEF Value
<1> QED BY <1>1, <1>2, <1>3, <1>4

\* Each series reads nothing or what has been counted.
LEMMA Readings ==
  ASSUME TypeOK, BodyInv
  PROVE  /\ ParseSeries(Schema(engine).hit_numerator) \in {None, Hits}
         /\ ParseSeries(Schema(engine).hit_denominator) \in {None, Queries}
         /\ ParseSeries(Schema(engine).prompt_tokens) \in {None, Prompt}
         /\ ParseSeries(Schema(engine).generation_tokens) \in {None, Generation}
         /\ Hits \in Nat /\ Queries \in Nat /\ Prompt \in Nat /\ Generation \in Nat
<1>1. \A k \in DOMAIN body : body[k] \in Nat
  BY DEF TypeOK
<1>2. \A k : Value(k) \in Nat
  BY <1>1 DEF Value
<1>3. Hits \in Nat /\ Queries \in Nat /\ Prompt \in Nat /\ Generation \in Nat
  <2>1. \A name, label : LineOf(name, label) \in Nat
    BY <1>2 DEF LineOf
  <2>2. \A name : Streams(name) \in Nat
    BY <2>1 DEF Streams
  <2>3. Hits \in Nat
    <3>1. /\ LineOf("prefix_cache_hits", "") \in Nat
          /\ LineOf("cached_tokens", "device") \in Nat /\ LineOf("cached_tokens", "host") \in Nat
      BY <2>1
    <3>2. LineOf("cached_tokens", "device") + LineOf("cached_tokens", "host") \in Nat
      <4>1. \A x, y \in Nat : x + y \in Nat
        OBVIOUS
      <4> QED BY <3>1, <4>1
    <3> QED BY <3>1, <3>2 DEF Hits
  <2>4. Queries \in Nat
    BY <2>1, <2>2 DEF Queries
  <2>5. Prompt \in Nat
    BY <2>1, <2>2 DEF Prompt
  <2>6. Generation \in Nat
    BY <2>1, <2>2 DEF Generation
  <2> QED BY <2>3, <2>4, <2>5, <2>6
<1>4. CASE engine = "vllm"
  <2>1. ASSUME NEW name \in {"prefix_cache_hits", "prefix_cache_queries", "prompt_tokens",
                             "generation_tokens"}
        PROVE  ParseSeries(Series(name, "single")) = LineOf(name, "")
    <3>1. DOMAIN body = VllmLines
      BY <1>4 DEF BodyInv
    <3>2. {k \in DOMAIN body : k[1] = name} = {<<name, "">>}
      <4>1. <<name, "">> \in VllmLines /\ <<name, "">>[1] = name
        BY DEF VllmLines, VllmNames
      <4>2. ASSUME NEW k \in VllmLines, k[1] = name PROVE k = <<name, "">>
        <5>1. k \in VllmNames \X {""}
          BY <4>2 DEF VllmLines
        <5>2. k = <<k[1], k[2]>> /\ k[2] \in {""}
          <6> DEFINE B == {""}
          <6>1. k \in VllmNames \X B
            BY <5>1
          <6> HIDE DEF B
          <6>2. k = <<k[1], k[2]>> /\ k[2] \in B
            BY <6>1, PairHasItsParts
          <6> QED BY <6>2 DEF B
        <5> QED BY <5>2, <4>2
      <4> HIDE DEF VllmLines
      <4> QED BY <3>1, <4>1, <4>2
    <3>3. ParseSeries(Series(name, "single")) = SumFunctionOnSet(body, {<<name, "">>})
      BY <3>2 DEF ParseSeries, Series
    <3>4. <<name, "">> \in DOMAIN body
      BY <3>1 DEF VllmLines, VllmNames
    <3> QED BY <3>3, <3>4, <1>1, SumOfOneLine DEF LineOf, Value
  <2> QED BY <2>1, <1>3, <1>4 DEF Schema, Hits, Queries, Prompt, Generation
<1>5. CASE engine = "sglang"
  <2>1. DOMAIN body \subseteq SglangLines
    BY <1>5 DEF BodyInv
  <2>2. ASSUME NEW name \in {"prompt_tokens", "generation_tokens"}
        PROVE  ParseSeries(Series(name, "sum_over_all")) \in {None, Streams(name)}
    <3> DEFINE a == <<name, "streamed">>
               b == <<name, "whole">>
    <3>1. {k \in DOMAIN body : k[1] = name} = {a, b} \cap DOMAIN body
      BY <2>1 DEF SglangLines
    <3>2. ParseSeries(Series(name, "sum_over_all"))
            \in {None, SumFunctionOnSet(body, {k \in DOMAIN body : k[1] = name})}
      BY DEF ParseSeries, Series
    <3>3. a # b
      OBVIOUS
    <3>4. SumFunctionOnSet(body, {a, b} \cap DOMAIN body) = Value(a) + Value(b)
      BY <3>3, <1>1, SumOfTwoLines
    <3> QED BY <3>1, <3>2, <3>4 DEF Streams, LineOf
  <2>3. ParseSeries(Series("cached_tokens", "sum_but_total")) \in {None, Hits}
    <3> DEFINE a == <<"cached_tokens", "device">>
               b == <<"cached_tokens", "host">>
               S == {k \in DOMAIN body : k[1] = "cached_tokens" /\ k[2] # "total"}
    <3>1. S = {a, b} \cap DOMAIN body
      BY <2>1 DEF SglangLines
    <3>2. ParseSeries(Series("cached_tokens", "sum_but_total"))
            \in {None, SumFunctionOnSet(body, S)}
      BY DEF ParseSeries, Series
    <3>3. a # b
      OBVIOUS
    <3>4. SumFunctionOnSet(body, {a, b} \cap DOMAIN body) = Value(a) + Value(b)
      BY <3>3, <1>1, SumOfTwoLines
    <3> QED BY <3>1, <3>2, <3>4, <1>5 DEF Hits, LineOf
  <2> QED BY <2>2, <2>3, <1>3, <1>5 DEF Schema, Queries, Prompt, Generation
<1> QED BY <1>4, <1>5 DEF TypeOK

\* An engine that has just started has counted nothing.
LEMMA FreshCountsNothing ==
  engine \in {"vllm", "sglang"} /\ body = Fresh(engine) =>
    /\ BodyInv
    /\ \A k \in DOMAIN body : body[k] \in Nat
    /\ Hits = 0 /\ Queries = 0 /\ Prompt = 0 /\ Generation = 0
<1> SUFFICES ASSUME engine \in {"vllm", "sglang"}, body = Fresh(engine)
             PROVE  /\ BodyInv
                    /\ \A k \in DOMAIN body : body[k] \in Nat
                    /\ Hits = 0 /\ Queries = 0 /\ Prompt = 0 /\ Generation = 0
  OBVIOUS
<1>1. BodyInv /\ \A k \in DOMAIN body : body[k] = 0
  <2>1. CASE engine = "vllm"
    <3>1. body = [k \in VllmLines |-> 0]
      BY <2>1 DEF Fresh, VllmLines, VllmNames
    <3> HIDE DEF VllmLines
    <3> QED BY <3>1, <2>1 DEF BodyInv
  <2>2. CASE engine = "sglang"
    <3>1. DOMAIN body = {}
      BY <2>2 DEF Fresh
    <3> QED BY <3>1, <2>2 DEF BodyInv
  <2> QED BY <2>1, <2>2
<1>2. \A k : Value(k) = 0
  BY <1>1 DEF Value
<1>3. \A name, label : LineOf(name, label) = 0
  BY <1>2 DEF LineOf
<1>4. \A name : Streams(name) = 0
  BY <1>3 DEF Streams
<1>5. Hits = 0
  <2>1. /\ LineOf("prefix_cache_hits", "") = 0
        /\ LineOf("cached_tokens", "device") = 0 /\ LineOf("cached_tokens", "host") = 0
    BY <1>3
  <2>2. LineOf("cached_tokens", "device") + LineOf("cached_tokens", "host") = 0
    <3>1. \A x, y : x = 0 /\ y = 0 => x + y = 0
      OBVIOUS
    <3> QED BY <2>1, <3>1
  <2> QED BY <2>1, <2>2 DEF Hits
<1>6. Queries = 0
  BY <1>3, <1>4 DEF Queries
<1>7. Prompt = 0
  BY <1>3, <1>4 DEF Prompt
<1>8. Generation = 0
  BY <1>3, <1>4 DEF Generation
<1> QED BY <1>1, <1>5, <1>6, <1>7, <1>8

-----------------------------------------------------------------------------
(* How a sample stands before a later one.                                 *)

PhaseCounts == [prompt : Nat, generation : Nat, done : Counts, restarts : Nat]

\* A sample stands before itself.
LEMMA BeforeItself ==
  /\ \A p \in KvCacheSamples : KvBefore(p, p)
  /\ \A p \in PhaseCounts : PhaseBefore(p, p)
BY DEF KvBefore, PhaseBefore, Before, KvCacheSamples, PhaseCounts, Counts

\* What a request does keeps a sample before.
LEMMA ServedSince ==
  ASSUME NEW r \in Counts, r.prompt + r.generation > 0,
         NEW p, NEW q, NEW n, p.done \in Counts, q.done \in Counts, n.done \in Counts,
         \A f \in {"hits", "prompt", "generation"} : n.done[f] = q.done[f] + r[f],
         p.restarts \in Nat, q.restarts \in Nat, n.restarts = q.restarts, Before(p, q)
  PROVE  Before(p, n)
<1>1. /\ n.done.hits = q.done.hits + r.hits
      /\ n.done.prompt = q.done.prompt + r.prompt
      /\ n.done.generation = q.done.generation + r.generation
  OBVIOUS
<1>2. /\ p.done.hits <= q.done.hits /\ p.done.prompt <= q.done.prompt
      /\ p.done.generation <= q.done.generation
  BY DEF Before
<1>3. p.done.prompt + p.done.generation < n.done.prompt + n.done.generation
  BY <1>1, <1>2 DEF Counts
<1>4. \A f \in {"hits", "prompt", "generation"} : p.done[f] <= n.done[f]
  BY <1>1, <1>2 DEF Counts
<1> QED BY <1>3, <1>4 DEF Before

\* A request served keeps a sample of the hit rate before what a scrape reads.
LEMMA KvServedSince ==
  ASSUME NEW r \in Counts, r.hits <= r.prompt, r.prompt + r.generation > 0, NEW h \in {0, r.hits},
         NEW p \in KvCacheSamples, NEW q \in KvCacheSamples, NEW n \in KvCacheSamples,
         n.hits = q.hits + h, n.queries = q.queries + r.prompt, n.restarts = q.restarts,
         \A f \in {"hits", "prompt", "generation"} : n.done[f] = q.done[f] + r[f],
         KvBefore(p, q)
  PROVE  KvBefore(p, n)
<1>1. Before(p, n)
  BY ServedSince DEF KvBefore, KvCacheSamples
<1>2. n.done.hits = q.done.hits + r.hits /\ n.done.prompt = q.done.prompt + r.prompt
  OBVIOUS
<1> QED BY <1>1, <1>2 DEF KvBefore, KvCacheSamples, Counts

\* The same of a sample of the phases.
LEMMA PhaseServedSince ==
  ASSUME NEW r \in Counts, r.prompt + r.generation > 0,
         NEW p, p.prompt \in Nat, p.generation \in Nat, p.done \in Counts, p.restarts \in Nat,
         NEW q \in PhaseCounts, NEW n \in PhaseCounts,
         n.prompt = q.prompt + r.prompt, n.generation = q.generation + r.generation,
         n.restarts = q.restarts,
         \A f \in {"hits", "prompt", "generation"} : n.done[f] = q.done[f] + r[f],
         PhaseBefore(p, q)
  PROVE  PhaseBefore(p, n)
<1>1. Before(p, n)
  BY ServedSince DEF PhaseBefore, PhaseCounts
<1>2. n.done.prompt = q.done.prompt + r.prompt
      /\ n.done.generation = q.done.generation + r.generation
  OBVIOUS
<1> QED BY <1>1, <1>2 DEF PhaseBefore, PhaseCounts, Counts

\* A restart, which starts the counters again at zero, keeps a sample before.
LEMMA RestartedSince ==
  /\ \A p, q, n \in KvCacheSamples :
       /\ KvBefore(p, q)
       /\ n.hits = 0 /\ n.queries = 0 /\ n.done = q.done /\ n.restarts = q.restarts + 1
       => KvBefore(p, n)
  /\ \A p : \A q, n \in PhaseCounts :
       /\ PhaseBefore(p, q) /\ p.done \in Counts /\ p.restarts \in Nat
       /\ n.prompt = 0 /\ n.generation = 0 /\ n.done = q.done /\ n.restarts = q.restarts + 1
       => PhaseBefore(p, n)
<1>1. ASSUME NEW p \in KvCacheSamples, NEW q \in KvCacheSamples, NEW n \in KvCacheSamples,
             KvBefore(p, q), n.hits = 0, n.queries = 0, n.done = q.done,
             n.restarts = q.restarts + 1
      PROVE  KvBefore(p, n)
  <2>1. p.done.hits <= n.done.hits /\ p.done.prompt <= n.done.prompt
    BY <1>1 DEF KvBefore, Before
  <2>2. p.restarts # n.restarts /\ Before(p, n)
    BY <1>1 DEF KvBefore, Before, KvCacheSamples
  <2> QED BY <1>1, <2>1, <2>2 DEF KvBefore, KvCacheSamples, Counts
<1>2. ASSUME NEW p, NEW q \in PhaseCounts, NEW n \in PhaseCounts, PhaseBefore(p, q),
             p.done \in Counts, p.restarts \in Nat, n.prompt = 0, n.generation = 0,
             n.done = q.done, n.restarts = q.restarts + 1
      PROVE  PhaseBefore(p, n)
  <2>1. p.done.generation <= n.done.generation /\ p.done.prompt <= n.done.prompt
    BY <1>2 DEF PhaseBefore, Before
  <2>2. p.restarts # n.restarts /\ Before(p, n)
    BY <1>2 DEF PhaseBefore, Before, PhaseCounts
  <2> QED BY <1>2, <2>1, <2>2 DEF PhaseBefore, PhaseCounts, Counts
<1> QED BY <1>1, <1>2

-----------------------------------------------------------------------------
(* The invariant is inductive.                                             *)

\* What a scrape reads has the types of a sample.
LEMMA NowIsTyped ==
  TypeOK /\ BodyInv => KvNow \in KvCacheSamples /\ PhaseNow \in PhaseCounts
BY Readings DEF TypeOK, KvNow, PhaseNow, KvCacheSamples, PhaseCounts

\* The invariant holds of an engine that has served nothing.
LEMMA InvariantInit == Init => IInv
<1> SUFFICES ASSUME Init PROVE IInv
  OBVIOUS
<1>1. engine \in {"vllm", "sglang"} /\ body = Fresh(engine)
  BY DEF Init
<1>2. BodyInv /\ \A k \in DOMAIN body : body[k] \in Nat
  BY <1>1, FreshCountsNothing
<1>3. Len(kv) = 0 /\ Len(phase) = 0 /\ kv \in Seq(KvCacheSamples) /\ phase \in Seq(PhaseSamples)
  BY DEF Init
<1>4. done \in Counts /\ restarts \in 0..MaxRestarts /\ served \in 0..MaxRequests
  BY CountersAssumption DEF Init, Zero, Counts
<1>5. TypeOK
  BY <1>1, <1>2, <1>3, <1>4 DEF TypeOK, Init
<1>6. KvHistory /\ PhaseHistory
  BY <1>3 DEF KvHistory, PhaseHistory
<1>7. ReportInv
  BY DEF ReportInv, Init
<1> QED BY <1>2, <1>5, <1>6, <1>7 DEF IInv

\* A request keeps the invariant.
LEMMA ServeKeeps ==
  ASSUME IInv, Serve
  PROVE  IInv'
<1>1. TypeOK /\ BodyInv
  BY DEF IInv
<1>2. /\ BodyInv'
      /\ \A k \in DOMAIN body' : body'[k] \in Nat
  BY <1>1, ServeCounts
<1>3. PICK r \in Requests :
        /\ r \in Counts /\ r.hits <= r.prompt /\ r.prompt + r.generation > 0
        /\ done' = [f \in DOMAIN done |-> done[f] + r[f]]
        /\ \E h \in {0, r.hits} : Hits' = Hits + h
        /\ Queries' = Queries + r.prompt
        /\ Prompt' = Prompt + r.prompt
        /\ Generation' = Generation + r.generation
  BY <1>1, ServeCounts
<1>4. PICK h \in {0, r.hits} : Hits' = Hits + h
  BY <1>3
<1>5. done \in Counts /\ done' \in Counts
      /\ \A f \in {"hits", "prompt", "generation"} : done'[f] = done[f] + r[f]
  <2>1. done \in Counts /\ DOMAIN done = {"hits", "prompt", "generation", "prefill", "decode"}
    BY <1>1 DEF TypeOK, Counts
  <2>2. done' = [ hits |-> done.hits + r.hits, prompt |-> done.prompt + r.prompt,
                  generation |-> done.generation + r.generation,
                  prefill |-> done.prefill + r.prefill, decode |-> done.decode + r.decode ]
    BY <1>3, <2>1
  <2> QED BY <1>3, <2>1, <2>2 DEF Counts
<1>6. UNCHANGED <<engine, restarts, kv, phase, total, report>> /\ served' = served + 1
      /\ served < MaxRequests
  BY DEF Serve
<1>7. TypeOK'
  BY <1>1, <1>2, <1>5, <1>6, CountersAssumption DEF TypeOK
<1>8. /\ KvNow \in KvCacheSamples /\ PhaseNow \in PhaseCounts
      /\ KvNow' \in KvCacheSamples /\ PhaseNow' \in PhaseCounts
  <2>1. (TypeOK /\ BodyInv => KvNow \in KvCacheSamples /\ PhaseNow \in PhaseCounts)'
    BY NowIsTyped, PTL
  <2> QED BY <2>1, <1>1, <1>2, <1>7, NowIsTyped
<1>9. /\ KvNow'.hits = KvNow.hits + h /\ KvNow'.queries = KvNow.queries + r.prompt
      /\ KvNow'.restarts = KvNow.restarts
      /\ \A f \in {"hits", "prompt", "generation"} : KvNow'.done[f] = KvNow.done[f] + r[f]
  BY <1>3, <1>4, <1>5, <1>6 DEF KvNow
<1>10. /\ PhaseNow'.prompt = PhaseNow.prompt + r.prompt
       /\ PhaseNow'.generation = PhaseNow.generation + r.generation
       /\ PhaseNow'.restarts = PhaseNow.restarts
       /\ \A f \in {"hits", "prompt", "generation"} : PhaseNow'.done[f] = PhaseNow.done[f] + r[f]
  BY <1>3, <1>5, <1>6 DEF PhaseNow
<1>11. KvHistory'
  <2>1. ASSUME NEW i \in 1..Len(kv) PROVE KvBefore(kv[i], KvNow')
    <3>1. kv[i] \in KvCacheSamples /\ KvBefore(kv[i], KvNow)
      BY <1>1 DEF TypeOK, IInv, KvHistory
    <3> QED BY <3>1, <1>3, <1>8, <1>9, KvServedSince
  <2> QED BY <2>1, <1>6 DEF IInv, KvHistory
<1>12. PhaseHistory'
  <2>1. ASSUME NEW i \in 1..Len(phase) PROVE PhaseBefore(phase[i], PhaseNow')
    <3>1. phase[i] \in PhaseSamples /\ PhaseBefore(phase[i], PhaseNow)
      BY <1>1 DEF TypeOK, IInv, PhaseHistory
    <3>2. /\ phase[i].prompt \in Nat /\ phase[i].generation \in Nat
          /\ phase[i].done \in Counts /\ phase[i].restarts \in Nat
      BY <3>1 DEF PhaseSamples
    <3> QED BY <3>1, <3>2, <1>3, <1>8, <1>10, PhaseServedSince
  <2> QED BY <2>1, <1>6 DEF IInv, PhaseHistory
<1>13. ReportInv'
  BY <1>6 DEF IInv, ReportInv
<1> QED BY <1>2, <1>7, <1>11, <1>12, <1>13 DEF IInv

\* So does a restart.
LEMMA RestartKeeps ==
  ASSUME IInv, Restart
  PROVE  IInv'
<1>1. TypeOK /\ BodyInv
  BY DEF IInv
<1>2. UNCHANGED <<engine, done, served, kv, phase, total, report>> /\ restarts' = restarts + 1
      /\ restarts < MaxRestarts /\ body' = Fresh(engine')
  BY DEF Restart
<1>3. /\ BodyInv'
      /\ \A k \in DOMAIN body' : body'[k] \in Nat
      /\ Hits' = 0 /\ Queries' = 0 /\ Prompt' = 0 /\ Generation' = 0
  <2>1. engine' \in {"vllm", "sglang"}
    BY <1>1, <1>2 DEF TypeOK
  <2>2. ( engine \in {"vllm", "sglang"} /\ body = Fresh(engine) =>
            /\ BodyInv
            /\ \A k \in DOMAIN body : body[k] \in Nat
            /\ Hits = 0 /\ Queries = 0 /\ Prompt = 0 /\ Generation = 0 )'
    BY FreshCountsNothing, PTL
  <2> QED BY <1>2, <2>1, <2>2
<1>4. TypeOK'
  BY <1>1, <1>2, <1>3, CountersAssumption DEF TypeOK
<1>5. /\ KvNow \in KvCacheSamples /\ PhaseNow \in PhaseCounts
      /\ KvNow' \in KvCacheSamples /\ PhaseNow' \in PhaseCounts
  <2>1. (TypeOK /\ BodyInv => KvNow \in KvCacheSamples /\ PhaseNow \in PhaseCounts)'
    BY NowIsTyped, PTL
  <2> QED BY <2>1, <1>1, <1>3, <1>4, NowIsTyped
<1>6. /\ KvNow'.hits = 0 /\ KvNow'.queries = 0 /\ KvNow'.done = KvNow.done
      /\ KvNow'.restarts = KvNow.restarts + 1
      /\ PhaseNow'.prompt = 0 /\ PhaseNow'.generation = 0 /\ PhaseNow'.done = PhaseNow.done
      /\ PhaseNow'.restarts = PhaseNow.restarts + 1
  BY <1>2, <1>3 DEF KvNow, PhaseNow
<1>7. KvHistory'
  <2>1. ASSUME NEW i \in 1..Len(kv) PROVE KvBefore(kv[i], KvNow')
    <3>1. kv[i] \in KvCacheSamples /\ KvBefore(kv[i], KvNow)
      BY <1>1 DEF TypeOK, IInv, KvHistory
    <3> QED BY <3>1, <1>5, <1>6, RestartedSince
  <2> QED BY <2>1, <1>2 DEF IInv, KvHistory
<1>8. PhaseHistory'
  <2>1. ASSUME NEW i \in 1..Len(phase) PROVE PhaseBefore(phase[i], PhaseNow')
    <3>1. phase[i] \in PhaseSamples /\ PhaseBefore(phase[i], PhaseNow)
      BY <1>1 DEF TypeOK, IInv, PhaseHistory
    <3>2. phase[i].done \in Counts /\ phase[i].restarts \in Nat
      BY <3>1 DEF PhaseSamples
    <3> QED BY <3>1, <3>2, <1>5, <1>6, RestartedSince
  <2> QED BY <2>1, <1>2 DEF IInv, PhaseHistory
<1>9. ReportInv'
  BY <1>2 DEF IInv, ReportInv
<1> QED BY <1>3, <1>4, <1>7, <1>8, <1>9 DEF IInv

\* A timing family is read by vLLM's schema only.
LEMMA TimesAreTyped ==
  ASSUME TypeOK, BodyInv
  PROVE  /\ ParseTime(Schema(engine).prefill_time_sum) \in {None} \cup Nat
         /\ ParseTime(Schema(engine).decode_time_sum) \in {None} \cup Nat
         /\ (ParseTime(Schema(engine).prefill_time_sum) = None) = (engine = "sglang")
         /\ (ParseTime(Schema(engine).decode_time_sum) = None) = (engine = "sglang")
<1>1. CASE engine = "vllm"
  <2>1. \A x : Some({x}) = x
    BY DEF Some
  <2>2. \A name \in {"prefill_time", "decode_time"} : body[<<name, "">>] \in Nat
    BY <1>1 DEF TypeOK, BodyInv, VllmLines, VllmNames
  <2>3. \A name \in {"prefill_time", "decode_time"} : ParseTime({name}) \in Nat
    BY <2>1, <2>2 DEF ParseTime
  <2> QED BY <2>3, <1>1 DEF Schema, None
<1>2. CASE engine = "sglang"
  BY <1>2 DEF Schema, ParseTime
<1> QED BY <1>1, <1>2 DEF TypeOK

\* A scrape of the cache counters adds what they say now.
LEMMA ScrapeKvKeeps ==
  ASSUME IInv, ScrapeKv
  PROVE  IInv'
<1>1. TypeOK /\ BodyInv /\ UNCHANGED <<engine, body, done, restarts, served, phase, total, report>>
  BY DEF IInv, ScrapeKv
<1>2. kv' = Append(kv, KvNow)
  BY <1>1, Readings DEF ScrapeKv, KvNow
<1>3. KvNow \in KvCacheSamples /\ kv \in Seq(KvCacheSamples)
  BY <1>1, NowIsTyped DEF TypeOK
<1>4. /\ kv' \in Seq(KvCacheSamples) /\ Len(kv') = Len(kv) + 1
      /\ \A i \in 1..Len(kv) : kv'[i] = kv[i]
      /\ kv'[Len(kv) + 1] = KvNow
  BY <1>2, <1>3
<1>5. TypeOK'
  BY <1>1, <1>4 DEF TypeOK
<1>6. BodyInv'
  BY <1>1 DEF BodyInv
<1>7. KvNow' = KvNow /\ PhaseNow' = PhaseNow
  BY <1>1 DEF KvNow, PhaseNow, Hits, Queries, Prompt, Generation, Streams, LineOf, Value
<1>8. KvHistory'
  <2>1. KvBefore(KvNow, KvNow)
    BY <1>3, BeforeItself
  <2>2. \A i \in 1..Len(kv) :
          KvBefore(kv[i], KvNow) /\ \A j \in (i + 1)..Len(kv) : KvBefore(kv[i], kv[j])
    BY DEF IInv, KvHistory
  <2>3. Len(kv) \in Nat
    BY <1>3
  <2>4. ASSUME NEW i \in 1..Len(kv'), NEW j \in (i + 1)..Len(kv') PROVE KvBefore(kv'[i], kv'[j])
    <3>1. i \in 1..Len(kv) /\ kv'[i] = kv[i]
      BY <1>4, <2>3
    <3>2. CASE j \in (i + 1)..Len(kv)
      BY <3>1, <3>2, <1>4, <2>2, <2>3
    <3>3. CASE j = Len(kv) + 1
      BY <3>1, <3>3, <1>4, <2>2
    <3> QED BY <3>2, <3>3, <1>4, <2>3
  <2>5. ASSUME NEW i \in 1..Len(kv') PROVE KvBefore(kv'[i], KvNow)
    <3>1. CASE i \in 1..Len(kv)
      BY <3>1, <1>4, <2>2
    <3>2. CASE i = Len(kv) + 1
      BY <3>2, <1>4, <2>1
    <3> QED BY <3>1, <3>2, <1>4, <2>3
  <2> QED BY <2>4, <2>5, <1>7 DEF KvHistory
<1>9. PhaseHistory'
  BY <1>1, <1>7 DEF IInv, PhaseHistory
<1>10. ReportInv'
  BY <1>1 DEF ReportInv, IInv, ScrapeKv
<1> QED BY <1>5, <1>6, <1>8, <1>9, <1>10 DEF IInv

\* So does one of the phases.
LEMMA ScrapePhaseKeeps ==
  ASSUME IInv, ScrapePhase
  PROVE  IInv'
<1> DEFINE sample == [ prompt |-> ParseSeries(Schema(engine).prompt_tokens),
                       generation |-> ParseSeries(Schema(engine).generation_tokens),
                       prefill_ns |-> ParseTime(Schema(engine).prefill_time_sum),
                       decode_ns |-> ParseTime(Schema(engine).decode_time_sum),
                       done |-> done, restarts |-> restarts ]
<1>1. TypeOK /\ BodyInv /\ UNCHANGED <<engine, body, done, restarts, served, kv, total, report>>
  BY DEF IInv, ScrapePhase
<1>2. phase' = Append(phase, sample)
  BY DEF ScrapePhase
<1>3. /\ sample.prompt = Prompt /\ sample.generation = Generation
      /\ sample.done = done /\ sample.restarts = restarts
      /\ sample \in PhaseSamples
      /\ (sample.prefill_ns = None) = (engine = "sglang")
  BY <1>1, Readings, TimesAreTyped DEF ScrapePhase, PhaseSamples, TypeOK
<1> HIDE DEF sample
<1>4. PhaseNow \in PhaseCounts /\ phase \in Seq(PhaseSamples)
  BY <1>1, NowIsTyped DEF TypeOK
<1>5. /\ phase' \in Seq(PhaseSamples) /\ Len(phase') = Len(phase) + 1
      /\ DOMAIN phase = 1..Len(phase) /\ DOMAIN phase' = 1..(Len(phase) + 1)
      /\ \A i \in 1..Len(phase) : phase'[i] = phase[i]
      /\ phase'[Len(phase) + 1] = sample
  BY <1>2, <1>3, <1>4
<1>6. Len(phase) \in Nat
  BY <1>4
<1>7. TypeOK'
  <2>1. ASSUME NEW i \in DOMAIN phase' PROVE (phase'[i].prefill_ns = None) = (engine = "sglang")
    <3>1. CASE i \in 1..Len(phase)
      BY <3>1, <1>1, <1>5 DEF TypeOK
    <3>2. CASE i = Len(phase) + 1
      BY <3>2, <1>3, <1>5
    <3> QED BY <3>1, <3>2, <1>5, <1>6
  <2> QED BY <2>1, <1>1, <1>5 DEF TypeOK
<1>8. BodyInv'
  BY <1>1 DEF BodyInv
<1>9. KvNow' = KvNow /\ PhaseNow' = PhaseNow
  BY <1>1 DEF KvNow, PhaseNow, Hits, Queries, Prompt, Generation, Streams, LineOf, Value
<1>10. PhaseHistory'
  <2>1. PhaseBefore(PhaseNow, PhaseNow)
    BY <1>4, BeforeItself
  <2>2. \A i \in 1..Len(phase) :
          PhaseBefore(phase[i], PhaseNow) /\ \A j \in (i + 1)..Len(phase) : PhaseBefore(phase[i], phase[j])
    BY DEF IInv, PhaseHistory
  <2>3. /\ PhaseBefore(sample, PhaseNow)
        /\ \A p : PhaseBefore(p, PhaseNow) => PhaseBefore(p, sample)
    BY <2>1, <1>3 DEF PhaseBefore, Before, PhaseNow
  <2>4. ASSUME NEW i \in 1..Len(phase'), NEW j \in (i + 1)..Len(phase')
        PROVE  PhaseBefore(phase'[i], phase'[j])
    <3>1. i \in 1..Len(phase) /\ phase'[i] = phase[i]
      BY <1>5, <1>6
    <3>2. CASE j \in (i + 1)..Len(phase)
      BY <3>1, <3>2, <1>5, <1>6, <2>2
    <3>3. CASE j = Len(phase) + 1
      BY <3>1, <3>3, <1>5, <2>2, <2>3
    <3> QED BY <3>2, <3>3, <1>5, <1>6
  <2>5. ASSUME NEW i \in 1..Len(phase') PROVE PhaseBefore(phase'[i], PhaseNow)
    <3>1. CASE i \in 1..Len(phase)
      BY <3>1, <1>5, <2>2
    <3>2. CASE i = Len(phase) + 1
      BY <3>2, <1>5, <2>3
    <3> QED BY <3>1, <3>2, <1>5, <1>6
  <2> QED BY <2>4, <2>5, <1>9 DEF PhaseHistory
<1>11. KvHistory'
  BY <1>1, <1>9 DEF IInv, KvHistory
<1>12. ReportInv'
  BY <1>1 DEF ReportInv, IInv, ScrapePhase
<1> QED BY <1>7, <1>8, <1>10, <1>11, <1>12 DEF IInv

\* The derivation reads the timelines and leaves them alone.
LEMMA DeriveKeeps ==
  ASSUME IInv, Derive
  PROVE  IInv'
<1>1. /\ UNCHANGED <<engine, body, done, restarts, served, kv, phase>> /\ total' \in Totals
      /\ report' = [ kvcache |-> DeriveKvcache(kv), phase_energy |-> DerivePhaseEnergy(phase, total') ]
  BY DEF Derive
<1>2. total' # None
  BY <1>1, CountersAssumption DEF None
<1>3. TypeOK' /\ BodyInv'
  BY <1>1 DEF IInv, TypeOK, BodyInv
<1>4. KvNow' = KvNow /\ PhaseNow' = PhaseNow
  BY <1>1 DEF KvNow, PhaseNow, Hits, Queries, Prompt, Generation, Streams, LineOf, Value
<1>5. KvHistory' /\ PhaseHistory'
  BY <1>1, <1>4 DEF IInv, KvHistory, PhaseHistory
<1>6. DeriveKvcache(kv)' = DeriveKvcache(kv)
      /\ DerivePhaseEnergy(phase, total)' = DerivePhaseEnergy(phase, total')
  BY <1>1
<1>7. ReportInv'
  BY <1>1, <1>2, <1>6 DEF ReportInv
<1> QED BY <1>3, <1>5, <1>7 DEF IInv

\* Every step keeps the invariant.
LEMMA InvariantStep == IInv /\ [Next]_vars => IInv'
<1> SUFFICES ASSUME IInv, [Next]_vars PROVE IInv'
  OBVIOUS
<1>1. CASE UNCHANGED vars
  <2>1. UNCHANGED <<engine, body, done, restarts, served, kv, phase, total, report>>
    BY <1>1 DEF vars
  <2>2. KvNow' = KvNow /\ PhaseNow' = PhaseNow
    BY <2>1 DEF KvNow, PhaseNow, Hits, Queries, Prompt, Generation, Streams, LineOf, Value
  <2>3. TypeOK' /\ BodyInv' /\ ReportInv'
    BY <2>1 DEF IInv, TypeOK, BodyInv, ReportInv
  <2>4. KvHistory' /\ PhaseHistory'
    BY <2>1, <2>2 DEF IInv, KvHistory, PhaseHistory
  <2> QED BY <2>3, <2>4 DEF IInv
<1> QED BY <1>1, ServeKeeps, RestartKeeps, ScrapeKvKeeps, ScrapePhaseKeeps, DeriveKeeps DEF Next

\* The invariant always holds.
LEMMA InvariantHolds == Spec => []IInv
BY InvariantInit, InvariantStep, PTL DEF Spec

-----------------------------------------------------------------------------
(* What the figures say.                                                   *)

\* A share is a part of what is shared.
LEMMA ShareIsPart ==
  ASSUME NEW mj \in Nat, NEW a \in Nat, NEW b \in Nat, a + b > 0
  PROVE  Share(mj, a, b) \in 0..mj
<1> DEFINE n == 2 * mj * a + a + b
           u == 2 * (a + b)
           q == n \div u
<1>1. n \in Nat /\ u \in Nat \ {0}
  <2>1. mj * a \in Nat
    OBVIOUS
  <2> QED BY <2>1
<1>2. q \in Nat /\ u * q <= n
  <2> HIDE DEF n, u
  <2> QED BY <1>1, Division
<1>3. n < u * (mj + 1)
  <2>1. u * (mj + 1) = 2 * (mj * a) + 2 * (mj * b) + 2 * a + 2 * b
    OBVIOUS
  <2>2. mj * a \in Nat /\ mj * b \in Nat /\ n = 2 * (mj * a) + a + b
    OBVIOUS
  <2> HIDE DEF n, u
  <2> QED BY <2>1, <2>2
<1>4. q <= mj
  <2> HIDE DEF n, u, q
  <2> SUFFICES ASSUME q >= mj + 1 PROVE FALSE
    BY <1>2
  <2>1. u * q >= u * (mj + 1)
    BY <1>1, <1>2
  <2>2. u * q \in Int /\ u * (mj + 1) \in Int
    BY <1>1, <1>2
  <2> QED BY <2>1, <2>2, <1>1, <1>2, <1>3
<1> QED BY <1>2, <1>4 DEF Share

\* The first sample stands before the last.
LEMMA FirstBeforeFinal ==
  ASSUME IInv
  PROVE  /\ Len(kv) \in Nat /\ Len(phase) \in Nat
         /\ Len(kv) >= 2 => /\ KvBefore(First(kv), Final(kv))
                            /\ First(kv) \in KvCacheSamples /\ Final(kv) \in KvCacheSamples
         /\ Len(phase) >= 2 => /\ PhaseBefore(First(phase), Final(phase))
                               /\ First(phase) \in PhaseSamples /\ Final(phase) \in PhaseSamples
                               /\ (First(phase).prefill_ns = None) = (engine = "sglang")
                               /\ (Final(phase).prefill_ns = None) = (engine = "sglang")
<1>1. kv \in Seq(KvCacheSamples) /\ phase \in Seq(PhaseSamples)
  BY DEF IInv, TypeOK
<1>2. Len(kv) \in Nat /\ Len(phase) \in Nat
  BY <1>1
<1>3. ASSUME Len(kv) >= 2
      PROVE  /\ KvBefore(First(kv), Final(kv))
             /\ First(kv) \in KvCacheSamples /\ Final(kv) \in KvCacheSamples
  <2>1. 1 \in 1..Len(kv) /\ Len(kv) \in 1..Len(kv) /\ Len(kv) \in (1 + 1)..Len(kv)
    BY <1>2, <1>3
  <2> QED BY <2>1, <1>1 DEF IInv, KvHistory, First, Final
<1>4. ASSUME Len(phase) >= 2
      PROVE  /\ PhaseBefore(First(phase), Final(phase))
             /\ First(phase) \in PhaseSamples /\ Final(phase) \in PhaseSamples
             /\ (First(phase).prefill_ns = None) = (engine = "sglang")
             /\ (Final(phase).prefill_ns = None) = (engine = "sglang")
  <2>1. 1 \in 1..Len(phase) /\ Len(phase) \in 1..Len(phase) /\ Len(phase) \in (1 + 1)..Len(phase)
    BY <1>2, <1>4
  <2>2. DOMAIN phase = 1..Len(phase)
    BY <1>1
  <2> QED BY <2>1, <2>2, <1>1 DEF IInv, TypeOK, PhaseHistory, First, Final
<1> QED BY <1>2, <1>3, <1>4

\* A rate that is given is of two samples in order.
LEMMA KvcacheGiven ==
  ASSUME IInv, report.kvcache # Withheld
  PROVE  LET p == First(kv)
             q == Final(kv)
         IN /\ KvBefore(p, q) /\ p \in KvCacheSamples /\ q \in KvCacheSamples
            /\ report.kvcache = [ hits_delta |-> q.hits - p.hits, queries_delta |-> q.queries - p.queries ]
<1>1. total # None
  BY DEF IInv, ReportInv
<1>2. report.kvcache = DeriveKvcache(kv)
  BY <1>1 DEF IInv, ReportInv
<1>3. ~(Len(kv) < 2)
  BY <1>2 DEF DeriveKvcache
<1>4. report.kvcache = [ hits_delta |-> Final(kv).hits - First(kv).hits,
                         queries_delta |-> Final(kv).queries - First(kv).queries ]
  BY <1>2 DEF DeriveKvcache
<1> QED BY <1>3, <1>4, FirstBeforeFinal

\* Phase figures that are given are of two samples in order, neither of
\* which lost tokens, and have a time share unless the engine has none.
LEMMA PhaseEnergyGiven ==
  ASSUME IInv, report.phase_energy # Withheld
  PROVE  LET p == First(phase)
             q == Final(phase)
             prompt == q.prompt - p.prompt
             generation == q.generation - p.generation
         IN /\ PhaseBefore(p, q) /\ p \in PhaseSamples /\ q \in PhaseSamples
            /\ total \in Nat /\ prompt \in Nat /\ generation \in Nat /\ prompt + generation > 0
            /\ TimeShare(p, q, total) # Withheld
            /\ report.phase_energy =
                 [ prompt_delta     |-> prompt,
                   generation_delta |-> generation,
                   by_tokens |-> [ prefill |-> Share(total, prompt, generation),
                                   decode  |-> total - Share(total, prompt, generation) ],
                   by_time   |-> TimeShare(p, q, total) ]
<1>1. total # None
  BY DEF IInv, ReportInv
<1>2. report.phase_energy = DerivePhaseEnergy(phase, total)
  BY <1>1 DEF IInv, ReportInv
<1>3. total \in Nat
  BY <1>1, CountersAssumption DEF IInv, TypeOK
<1>4. ~(Len(phase) < 2)
  BY <1>2 DEF DerivePhaseEnergy
<1>5. First(phase) \in PhaseSamples /\ Final(phase) \in PhaseSamples
      /\ PhaseBefore(First(phase), Final(phase))
  BY <1>4, FirstBeforeFinal
<1>6. /\ Final(phase).prompt - First(phase).prompt \in Int
      /\ Final(phase).generation - First(phase).generation \in Int
  BY <1>5 DEF PhaseSamples
<1> QED BY <1>2, <1>3, <1>5, <1>6 DEF DerivePhaseEnergy

\* Figures are not mistaken for what is withheld.
LEMMA FiguresAreGiven ==
  /\ \A a, b : [prefill |-> a, decode |-> b] # Withheld
  /\ \A a, b : [hits_delta |-> a, queries_delta |-> b] # Withheld
  /\ \A a, b, c, d :
       [prompt_delta |-> a, generation_delta |-> b, by_tokens |-> c, by_time |-> d] # Withheld
<1>1. DOMAIN Withheld = {"withheld"}
  BY DEF Withheld
<1>2. ASSUME NEW a, NEW b PROVE [prefill |-> a, decode |-> b] # Withheld
  <2>1. "prefill" \in DOMAIN [prefill |-> a, decode |-> b]
    OBVIOUS
  <2> QED BY <1>1, <2>1
<1>3. ASSUME NEW a, NEW b PROVE [hits_delta |-> a, queries_delta |-> b] # Withheld
  <2>1. "hits_delta" \in DOMAIN [hits_delta |-> a, queries_delta |-> b]
    OBVIOUS
  <2> QED BY <1>1, <2>1
<1>4. ASSUME NEW a, NEW b, NEW c, NEW d
      PROVE  [prompt_delta |-> a, generation_delta |-> b, by_tokens |-> c, by_time |-> d] # Withheld
  <2>1. "by_time" \in
          DOMAIN [prompt_delta |-> a, generation_delta |-> b, by_tokens |-> c, by_time |-> d]
    OBVIOUS
  <2> QED BY <1>1, <2>1
<1> QED BY <1>2, <1>3, <1>4

(* However often the engine is restarted between the first and the last    *)
(* sample, and whatever was served: no delta of a report is more than what *)
(* the requests between the two samples did (derive_kvcache,               *)
(* derive_phase_energy), and the state keeps its types.                    *)
THEOREM DeltasAreOfTheRequests == Spec => []DeltasNeverOverstate
<1>1. ASSUME IInv PROVE DeltasNeverOverstate
  <2>1. TypeOK
    BY <1>1 DEF IInv
  <2>2. ASSUME report.kvcache # Withheld
        PROVE  /\ report.kvcache.hits_delta <= Final(kv).done.hits - First(kv).done.hits
               /\ report.kvcache.queries_delta <= Final(kv).done.prompt - First(kv).done.prompt
    <3> DEFINE p == First(kv)
               q == Final(kv)
    <3>1. /\ KvBefore(p, q) /\ p \in KvCacheSamples /\ q \in KvCacheSamples
          /\ report.kvcache.hits_delta = q.hits - p.hits
          /\ report.kvcache.queries_delta = q.queries - p.queries
      BY <1>1, <2>2, KvcacheGiven
    <3> HIDE DEF p, q
    <3>2. /\ q.hits - p.hits <= q.done.hits - p.done.hits
          /\ q.queries - p.queries <= q.done.prompt - p.done.prompt
      BY <3>1 DEF KvBefore, KvCacheSamples, Counts
    <3> QED BY <3>1, <3>2 DEF p, q
  <2>3. ASSUME report.phase_energy # Withheld
        PROVE  /\ report.phase_energy.prompt_delta
                    <= Final(phase).done.prompt - First(phase).done.prompt
               /\ report.phase_energy.generation_delta
                    <= Final(phase).done.generation - First(phase).done.generation
    <3> DEFINE p == First(phase)
               q == Final(phase)
    <3>1. /\ PhaseBefore(p, q) /\ p \in PhaseSamples /\ q \in PhaseSamples
          /\ report.phase_energy.prompt_delta = q.prompt - p.prompt
          /\ report.phase_energy.generation_delta = q.generation - p.generation
      BY <1>1, <2>3, PhaseEnergyGiven
    <3> HIDE DEF p, q
    <3>2. /\ q.prompt - p.prompt <= q.done.prompt - p.done.prompt
          /\ q.generation - p.generation <= q.done.generation - p.done.generation
      BY <3>1 DEF PhaseBefore, PhaseSamples, Counts
    <3> QED BY <3>1, <3>2 DEF p, q
  <2> QED BY <2>1, <2>2, <2>3 DEF DeltasNeverOverstate
<1>2. IInv => DeltasNeverOverstate
  BY <1>1
<1> QED BY <1>2, InvariantHolds, PTL

(* On either engine, however its series are split and read, an engine that *)
(* was not restarted between the two samples never shows more hits than    *)
(* queries (derive_kvcache).                                               *)
THEOREM HitRateAtMostOne == Spec => []RateAtMostOne
<1>1. ASSUME IInv, report.kvcache # Withheld, First(kv).restarts = Final(kv).restarts
      PROVE  report.kvcache.hits_delta <= report.kvcache.queries_delta
  BY <1>1, KvcacheGiven DEF KvBefore
<1>2. IInv => RateAtMostOne
  BY <1>1 DEF RateAtMostOne
<1> QED BY <1>2, InvariantHolds, PTL

(* Both splits of a run's energy sum to the energy and give neither phase  *)
(* less than nothing, and an engine without the timing family has figures  *)
(* for every window it did something in (derive_phase_energy).             *)
THEOREM EnergyIsConserved == Spec => []SplitsConserveEnergy
<1>1. ASSUME IInv, report.phase_energy # Withheld,
             NEW split \in {report.phase_energy.by_tokens}
                             \cup ({report.phase_energy.by_time} \ {NoTimeShare})
      PROVE  /\ split.prefill + split.decode = total
             /\ split.prefill \in Nat /\ split.decode \in Nat
  <2> DEFINE p == First(phase)
             q == Final(phase)
             prompt == q.prompt - p.prompt
             generation == q.generation - p.generation
             r == report.phase_energy
  <2>1. /\ p \in PhaseSamples /\ q \in PhaseSamples
        /\ total \in Nat /\ prompt \in Nat /\ generation \in Nat /\ prompt + generation > 0
        /\ TimeShare(p, q, total) # Withheld
        /\ r.by_tokens = [ prefill |-> Share(total, prompt, generation),
                           decode  |-> total - Share(total, prompt, generation) ]
        /\ r.by_time = TimeShare(p, q, total)
    BY <1>1, PhaseEnergyGiven
  <2> HIDE DEF p, q, prompt, generation, r
  <2>2. ASSUME NEW share \in 0..total, split = [prefill |-> share, decode |-> total - share]
        PROVE  /\ split.prefill + split.decode = total
               /\ split.prefill \in Nat /\ split.decode \in Nat
    BY <2>1, <2>2
  <2>3. CASE split = r.by_tokens
    BY <2>1, <2>2, <2>3, ShareIsPart
  <2>4. CASE split = r.by_time /\ split # NoTimeShare
    <3> DEFINE prefill == q.prefill_ns - p.prefill_ns
               decode  == q.decode_ns - p.decode_ns
    <3>1. split = DeriveTimeShare(p, q, total) /\ split # Withheld /\ Timed(p) /\ Timed(q)
      BY <2>1, <2>4 DEF TimeShare
    <3>2. /\ p.prefill_ns \in Nat /\ p.decode_ns \in Nat
          /\ q.prefill_ns \in Nat /\ q.decode_ns \in Nat
      BY <2>1, <3>1 DEF Timed, PhaseSamples
    <3>3. prefill \in Nat /\ decode \in Nat /\ prefill + decode > 0
      BY <3>1, <3>2 DEF DeriveTimeShare
    <3>4. split = [prefill |-> Share(total, prefill, decode), decode |-> total - Share(total, prefill, decode)]
      BY <3>1 DEF DeriveTimeShare
    <3> HIDE DEF prefill, decode
    <3> QED BY <2>1, <2>2, <3>3, <3>4, ShareIsPart
  <2> QED BY <2>3, <2>4, <1>1 DEF r
<1>2. ASSUME IInv, engine = "sglang", total \in Nat \ {0}, Len(phase) >= 2,
             First(phase).restarts = Final(phase).restarts, First(phase).done # Final(phase).done
      PROVE  report.phase_energy # Withheld
  <2> DEFINE p == First(phase)
             q == Final(phase)
             prompt == q.prompt - p.prompt
             generation == q.generation - p.generation
  <2>1. /\ PhaseBefore(p, q) /\ p \in PhaseSamples /\ q \in PhaseSamples
        /\ p.prefill_ns = None /\ q.prefill_ns = None
    BY <1>2, FirstBeforeFinal
  <2>2. report.phase_energy = DerivePhaseEnergy(phase, total)
    BY <1>2 DEF IInv, ReportInv, None
  <2>3. Len(phase) \in Nat /\ ~(Len(phase) < 2)
    BY <1>2, FirstBeforeFinal
  <2>4. prompt >= 0 /\ generation >= 0 /\ prompt + generation > 0
    <3>1. p.restarts = q.restarts /\ p.done # q.done
      BY <1>2
    <3> HIDE DEF p, q
    <3> QED BY <2>1, <3>1 DEF PhaseBefore, Before, PhaseSamples, Counts
  <2>5. TimeShare(p, q, total) = NoTimeShare
    <3>1. ~Timed(p) /\ ~Timed(q)
      BY <2>1 DEF Timed
    <3> HIDE DEF p, q
    <3> QED BY <3>1 DEF TimeShare
  <2>6. NoTimeShare # Withheld
    BY FiguresAreGiven DEF NoTimeShare
  <2>7. DerivePhaseEnergy(phase, total) =
          [ prompt_delta |-> prompt, generation_delta |-> generation,
            by_tokens |-> [ prefill |-> Share(total, prompt, generation),
                            decode  |-> total - Share(total, prompt, generation) ],
            by_time |-> TimeShare(p, q, total) ]
    BY <1>2, <2>3, <2>4, <2>5, <2>6, <2>1 DEF DerivePhaseEnergy, PhaseSamples
  <2> QED BY <2>2, <2>7, FiguresAreGiven
<1>3. IInv => SplitsConserveEnergy
  BY <1>1, <1>2 DEF SplitsConserveEnergy
<1> QED BY <1>3, InvariantHolds, PTL

(* A run that scraped an endpoint states its rate in the text, or the      *)
(* reason why there is none (render.rs).                                   *)
THEOREM TextSaysWhy == Spec => []TextTellsTheRate
<1>1. ASSUME IInv, total # None
      PROVE  /\ Len(Text) = 1
             /\ "withheld" \in DOMAIN Text[1] =>
                  CASE Len(kv) = 0 -> Text[1].withheld = "no usable scrape"
                    [] Len(kv) = 1 -> Text[1].withheld = "one scrape"
                    [] OTHER -> /\ Text[1].withheld = "regressed or no queries"
                                /\ \/ First(kv).restarts # Final(kv).restarts
                                   \/ First(kv).done.prompt = Final(kv).done.prompt
  <2>1. \A x : Some({x}) = x
    BY DEF Some
  <2>2. report.kvcache = DeriveKvcache(kv)
    BY <1>1 DEF IInv, ReportInv
  <2>3. CASE report.kvcache # Withheld
    <3> DEFINE figures == [ hits_delta |-> report.kvcache.hits_delta,
                            queries_delta |-> report.kvcache.queries_delta,
                            accounting |-> {"block_aligned"} ]
    <3>1. Text = <<KvCache(figures, {})>>
      BY <2>3, <2>1 DEF Text, KvCacheSection, Shown
    <3>2. DOMAIN KvCache(figures, {}) = {"section", "rate", "accounting"}
      BY DEF KvCache
    <3> QED BY <3>1, <3>2
  <2>4. CASE report.kvcache = Withheld
    <3>1. Text = <<KvCacheWithheld(kv)>>
      BY <2>4, <2>1 DEF Text, KvCacheSection, Shown
    <3>2. Len(Text) = 1 /\ Text[1].withheld = WithheldReason(kv)
      BY <3>1 DEF KvCacheWithheld
    <3>3. ASSUME Len(kv) # 0, Len(kv) # 1
          PROVE  \/ First(kv).restarts # Final(kv).restarts
                 \/ First(kv).done.prompt = Final(kv).done.prompt
      <4> DEFINE p == First(kv)
                 q == Final(kv)
      <4>1. Len(kv) >= 2
        <5>1. Len(kv) \in Nat
          BY <1>1, FirstBeforeFinal
        <5>2. \A n \in Nat : n # 0 /\ n # 1 => n >= 2
          OBVIOUS
        <5> QED BY <5>1, <5>2, <3>3
      <4>2. KvBefore(p, q) /\ p \in KvCacheSamples /\ q \in KvCacheSamples
        BY <1>1, <4>1, FirstBeforeFinal
      <4>3. q.hits < p.hits \/ q.queries < p.queries \/ q.queries = p.queries
        BY <1>1, <2>2, <2>4, <4>1, FiguresAreGiven DEF DeriveKvcache
      <4> HIDE DEF p, q
      <4>4. p.restarts # q.restarts \/ p.done.prompt = q.done.prompt
        BY <4>2, <4>3 DEF KvBefore, Before, KvCacheSamples, Counts
      <4> QED BY <4>4 DEF p, q
    <3>4. CASE Len(kv) = 0
      <4>1. ~(Len(kv) = 1)
        BY <3>4
      <4>2. Text[1].withheld = "no usable scrape"
        BY <3>2, <3>4, <4>1 DEF WithheldReason
      <4> QED BY <3>2, <3>4, <4>1, <4>2
    <3>5. CASE Len(kv) = 1
      <4>1. ~(Len(kv) = 0)
        BY <3>5
      <4>2. Text[1].withheld = "one scrape"
        BY <3>2, <3>5, <4>1 DEF WithheldReason
      <4> QED BY <3>2, <3>5, <4>1, <4>2
    <3>6. CASE Len(kv) # 0 /\ Len(kv) # 1
      <4>1. Text[1].withheld = "regressed or no queries"
        BY <3>2, <3>6 DEF WithheldReason
      <4> QED BY <3>2, <3>3, <3>6, <4>1
    <3> QED BY <3>4, <3>5, <3>6
  <2> QED BY <2>3, <2>4
<1>2. IInv => TextTellsTheRate
  BY <1>1 DEF TextTellsTheRate
<1> QED BY <1>2, InvariantHolds, PTL

-----------------------------------------------------------------------------
(* Labels.                                                                 *)

\* What is a text, symbol by symbol, is that text.
LEMMA PartIsText ==
  ASSUME NEW T, NEW s \in Seq(T), NEW text \in Seq(T), NEW p \in Nat, NEW q \in Nat, p >= 1,
         q <= Len(s), q - p + 1 = Len(text), \A k \in 1..Len(text) : s[p + k - 1] = text[k]
  PROVE  SubSeq(s, p, q) = text
OBVIOUS

\* What extract_label finds is the label as the engine wrote it.
LEMMA ExtractsLabelled ==
  ASSUME NEW T, NEW labels \in Seq(T), NEW text \in Seq(T),
         NEW key, \A p, q \in Starts(labels, key) : p = q
  PROVE  ExtractLabel(labels, key) = {text} <=> Labelled(labels, key, text)
<1> DEFINE at == Starts(labels, key)
           ends == {p \in DOMAIN labels : p > Min(at) /\ labels[p] = "quote"}
<1>1. DOMAIN labels = 1..Len(labels) /\ Len(labels) \in Nat
  OBVIOUS
<1>2. \A p \in at : p \in 1..Len(labels) /\ Min(at) = p
  <2> SUFFICES ASSUME NEW p \in at PROVE p \in 1..Len(labels) /\ Min(at) = p
    OBVIOUS
  <2>1. p \in 1..Len(labels)
    BY <1>1 DEF Starts
  <2>2. at = {p}
    OBVIOUS
  <2> QED BY <2>1, <2>2 DEF Min
<1>3. ends # {} => Min(ends) \in ends /\ \A q \in ends : Min(ends) <= q
  <2>1. IsFiniteSet(1..Len(labels)) /\ ends \in SUBSET (1..Len(labels))
    BY <1>1, FS_Interval
  <2> HIDE DEF ends
  <2>2. IsFiniteSet(ends) /\ ends \in SUBSET Int
    <3>1. IsFiniteSet(ends)
      BY <2>1, FS_Subset
    <3> QED BY <3>1, <2>1, <1>1
  <2> QED BY <2>2, MinIsLeast
<1>4. ExtractLabel(labels, key) =
        IF at = {} \/ ends = {} THEN {} ELSE {SubSeq(labels, Min(at) + 1, Min(ends) - 1)}
  BY DEF ExtractLabel
<1>5. ASSUME ExtractLabel(labels, key) = {text} PROVE Labelled(labels, key, text)
  <2>1. at # {} /\ ends # {} /\ text = SubSeq(labels, Min(at) + 1, Min(ends) - 1)
    BY <1>4, <1>5
  <2>2. PICK p \in at : p \in 1..Len(labels) /\ Min(at) = p
    BY <1>2, <2>1
  <2> DEFINE q == Min(ends)
  <2>3. /\ q \in 1..Len(labels) /\ q > p /\ labels[q] = "quote"
        /\ \A r \in 1..Len(labels) : r > p /\ labels[r] = "quote" => q <= r
    BY <1>1, <1>3, <2>1, <2>2
  <2> HIDE DEF q
  <2>4. Len(text) = q - p - 1 /\ \A k \in DOMAIN text : k \in 1..(q - p - 1) /\ text[k] = labels[p + k]
    <3>1. text = SubSeq(labels, p + 1, q - 1)
      BY <2>1, <2>2 DEF q
    <3> QED BY <3>1, <2>2, <2>3, <1>1
  <2>5. \A k \in DOMAIN text : text[k] # "quote" /\ labels[p + k] = text[k]
    BY <2>4, <2>3, <2>2
  <2> QED BY <2>2, <2>3, <2>4, <2>5, <1>1 DEF Labelled
<1>6. ASSUME Labelled(labels, key, text) PROVE ExtractLabel(labels, key) = {text}
  <2> DEFINE q(p) == p + Len(text) + 1
  <2>1. PICK p \in at : /\ q(p) \in DOMAIN labels /\ labels[q(p)] = "quote"
                        /\ \A k \in DOMAIN text : text[k] # "quote" /\ labels[p + k] = text[k]
    BY <1>6 DEF Labelled
  <2>2. p \in 1..Len(labels) /\ Min(at) = p /\ Len(text) \in Nat /\ DOMAIN text = 1..Len(text)
    BY <1>2
  <2>3. q(p) \in ends
    BY <2>1, <2>2, <1>1
  <2>4. \A r \in ends : q(p) <= r
    <3> SUFFICES ASSUME NEW r \in ends, r < q(p) PROVE FALSE
      BY <2>2, <1>1
    <3>1. r - p \in DOMAIN text /\ p + (r - p) = r
      BY <2>2, <1>1
    <3> QED BY <3>1, <2>1
  <2>5. Min(ends) = q(p)
    <3>1. \A r \in ends : r \in Int
      BY <1>1
    <3> HIDE DEF ends
    <3>2. Min(ends) \in ends /\ Min(ends) <= q(p) /\ q(p) <= Min(ends)
      BY <1>3, <2>3, <2>4
    <3> QED BY <3>2, <3>1, <2>3
  <2>6. SubSeq(labels, p + 1, q(p) - 1) = text
    <3> DEFINE a == p + 1
               z == q(p) - 1
    <3>1. a \in Nat /\ z \in Nat /\ a >= 1 /\ z <= Len(labels) /\ z - a + 1 = Len(text)
      BY <2>1, <2>2, <1>1
    <3>2. \A k \in 1..Len(text) : a + k - 1 = p + k
      BY <2>2
    <3>3. \A k \in 1..Len(text) : labels[a + k - 1] = text[k]
      BY <3>2, <2>1, <2>2
    <3> HIDE DEF a, z
    <3>4. SubSeq(labels, a, z) = text
      BY <3>1, <3>3, PartIsText
    <3> QED BY <3>4 DEF a, z
  <2>7. at # {} /\ ends # {}
    BY <2>3
  <2> QED BY <1>4, <2>2, <2>5, <2>6, <2>7
<1> QED BY <1>5, <1>6

-----------------------------------------------------------------------------
(* What is read of which engine.                                           *)

\* What the plan of a scrape knows of a series.
PlanFacts(kind, e, j, s) ==
  /\ s.unit \in {"count", "seconds"}
  /\ s.required \in BOOLEAN
  /\ s.required => kind \in {"kvcache", "phase"}
  /\ s.aggregation = {"sum_but_total"} => s.name = {"cached_tokens"}
  /\ s.name = {} => kind = "spec" \/ (kind = "phase" /\ e = "sglang" /\ j > 2)

Known(names, aggregations, unit, required) ==
  [name |-> names, aggregation |-> aggregations, unit |-> unit, required |-> required]

\* The series of a family that is declared.
LEMMA CounterOfOne ==
  ASSUME NEW name, NEW aggregation, NEW required
  PROVE  Counter({Series(name, aggregation)}, required)
           = Known({name}, {aggregation}, "count", required)
<1> DEFINE s == Series(name, aggregation)
<1>1. s.name = name /\ s.aggregation = aggregation
  BY DEF Series
<1> HIDE DEF s
<1>2. {t.name : t \in {s}} = {name} /\ {t.aggregation : t \in {s}} = {aggregation}
  BY <1>1
<1>3. Counter({s}, required) = Known({name}, {aggregation}, "count", required)
  BY <1>2 DEF Counter, Known
<1> QED BY <1>3 DEF s

\* The series of what is not declared.
LEMMA CounterOfNone ==
  ASSUME NEW required
  PROVE  Counter({}, required) = Known({}, {}, "count", required)
<1>1. {s.name : s \in {}} = {} /\ {s.aggregation : s \in {}} = {}
  OBVIOUS
<1> QED BY <1>1 DEF Counter, Known

\* A plan whose series are known; LoRA has none.
PlanIs(kind, e, plan) ==
  /\ Len(plan) \in Nat /\ DOMAIN plan = 1..Len(plan)
  /\ kind = "lora" => plan = <<>>
  /\ \A j \in DOMAIN plan : PlanFacts(kind, e, j, plan[j])

\* What is known of a series from its parts.
LEMMA KnownFacts ==
  ASSUME NEW kind, NEW e, NEW j, NEW names, NEW aggregation, NEW aggregations,
         aggregations = {} \/ (aggregations = {aggregation} /\ aggregation # "sum_but_total")
           \/ names = {"cached_tokens"},
         names = {} => kind = "spec" \/ (kind = "phase" /\ e = "sglang" /\ j > 2),
         NEW unit \in {"count", "seconds"},
         NEW required \in BOOLEAN, required => kind \in {"kvcache", "phase"}
  PROVE  PlanFacts(kind, e, j, Known(names, aggregations, unit, required))
BY DEF PlanFacts, Known

\* What is known of a plan of two series from what is known of each.
LEMMA FactsOfTwo ==
  ASSUME NEW kind, kind # "lora", NEW e, NEW plan, NEW a, NEW b, plan = <<a, b>>,
         PlanFacts(kind, e, 1, a), PlanFacts(kind, e, 2, b)
  PROVE  PlanIs(kind, e, plan)
<1>1. Len(plan) = 2 /\ DOMAIN plan = 1..2 /\ plan[1] = a /\ plan[2] = b
  OBVIOUS
<1>2. \A j \in 1..2 : j = 1 \/ j = 2
  OBVIOUS
<1> QED BY <1>1, <1>2 DEF PlanIs

\* The same, of three series.
LEMMA FactsOfThree ==
  ASSUME NEW kind, kind # "lora", NEW e, NEW plan, NEW a, NEW b, NEW c, plan = <<a, b, c>>,
         PlanFacts(kind, e, 1, a), PlanFacts(kind, e, 2, b), PlanFacts(kind, e, 3, c)
  PROVE  PlanIs(kind, e, plan)
<1>1. Len(plan) = 3 /\ DOMAIN plan = 1..3 /\ plan[1] = a /\ plan[2] = b /\ plan[3] = c
  OBVIOUS
<1>2. \A j \in 1..3 : j = 1 \/ j = 2 \/ j = 3
  OBVIOUS
<1> QED BY <1>1, <1>2 DEF PlanIs

\* The same, of four series.
LEMMA FactsOfFour ==
  ASSUME NEW kind, kind # "lora", NEW e, NEW plan, NEW a, NEW b, NEW c, NEW d,
         plan = <<a, b, c, d>>, PlanFacts(kind, e, 1, a), PlanFacts(kind, e, 2, b),
         PlanFacts(kind, e, 3, c), PlanFacts(kind, e, 4, d)
  PROVE  PlanIs(kind, e, plan)
<1>1. /\ Len(plan) = 4 /\ DOMAIN plan = 1..4
      /\ plan[1] = a /\ plan[2] = b /\ plan[3] = c /\ plan[4] = d
  OBVIOUS
<1>2. \A j \in 1..4 : j = 1 \/ j = 2 \/ j = 3 \/ j = 4
  OBVIOUS
<1> QED BY <1>1, <1>2 DEF PlanIs

\* What each kind of scrape reads of either engine.
LEMMA PlanOfScrape ==
  ASSUME NEW kind \in {"kvcache", "phase", "spec", "lora"}, NEW e \in {"vllm", "sglang"}
  PROVE  PlanIs(kind, e, Reads(kind, e))
<1>1. CASE kind = "lora"
  BY <1>1 DEF Reads, PlanIs
<1>2. CASE kind = "kvcache" /\ e = "vllm"
  <2>1. Reads(kind, e) = << Known({"prefix_cache_hits"}, {"single"}, "count", FALSE),
                            Known({"prefix_cache_queries"}, {"single"}, "count", TRUE) >>
    BY <1>2, CounterOfOne DEF Reads, Schema
  <2>2. PlanFacts(kind, e, 1, Known({"prefix_cache_hits"}, {"single"}, "count", FALSE))
    BY <1>2, KnownFacts
  <2>3. PlanFacts(kind, e, 2, Known({"prefix_cache_queries"}, {"single"}, "count", TRUE))
    BY <1>2, KnownFacts
  <2> QED BY <2>1, <2>2, <2>3, <1>2, FactsOfTwo
<1>3. CASE kind = "kvcache" /\ e = "sglang"
  <2>1. Reads(kind, e) = << Known({"cached_tokens"}, {"sum_but_total"}, "count", FALSE),
                            Known({"prompt_tokens"}, {"sum_over_all"}, "count", TRUE) >>
    BY <1>3, CounterOfOne DEF Reads, Schema
  <2>2. PlanFacts(kind, e, 1, Known({"cached_tokens"}, {"sum_but_total"}, "count", FALSE))
    BY <1>3, KnownFacts
  <2>3. PlanFacts(kind, e, 2, Known({"prompt_tokens"}, {"sum_over_all"}, "count", TRUE))
    BY <1>3, KnownFacts
  <2> QED BY <2>1, <2>2, <2>3, <1>3, FactsOfTwo
<1>4. CASE kind = "phase" /\ e = "vllm"
  <2>1. Reads(kind, e) = << Known({"prompt_tokens"}, {"single"}, "count", TRUE),
                            Known({"generation_tokens"}, {"single"}, "count", TRUE),
                            Known({"prefill_time"}, {"single"}, "seconds", TRUE),
                            Known({"decode_time"}, {"single"}, "seconds", TRUE) >>
    BY <1>4, CounterOfOne DEF Reads, Schema, Seconds, Known
  <2>2. PlanFacts(kind, e, 1, Known({"prompt_tokens"}, {"single"}, "count", TRUE))
    BY <1>4, KnownFacts
  <2>3. PlanFacts(kind, e, 2, Known({"generation_tokens"}, {"single"}, "count", TRUE))
    BY <1>4, KnownFacts
  <2>4. PlanFacts(kind, e, 3, Known({"prefill_time"}, {"single"}, "seconds", TRUE))
    BY <1>4, KnownFacts
  <2>5. PlanFacts(kind, e, 4, Known({"decode_time"}, {"single"}, "seconds", TRUE))
    BY <1>4, KnownFacts
  <2> QED BY <2>1, <2>2, <2>3, <2>4, <2>5, <1>4, FactsOfFour
<1>5. CASE kind = "phase" /\ e = "sglang"
  <2>1. Reads(kind, e) = << Known({"prompt_tokens"}, {"sum_over_all"}, "count", TRUE),
                            Known({"generation_tokens"}, {"sum_over_all"}, "count", TRUE),
                            Known({}, {"single"}, "seconds", TRUE),
                            Known({}, {"single"}, "seconds", TRUE) >>
    BY <1>5, CounterOfOne DEF Reads, Schema, Seconds, Known
  <2>2. PlanFacts(kind, e, 1, Known({"prompt_tokens"}, {"sum_over_all"}, "count", TRUE))
    BY <1>5, KnownFacts DEF PlanFacts, Known
  <2>3. PlanFacts(kind, e, 2, Known({"generation_tokens"}, {"sum_over_all"}, "count", TRUE))
    BY <1>5, KnownFacts DEF PlanFacts, Known
  <2>4. PlanFacts(kind, e, 3, Known({}, {"single"}, "seconds", TRUE))
    BY <1>5, KnownFacts DEF PlanFacts, Known
  <2>5. PlanFacts(kind, e, 4, Known({}, {"single"}, "seconds", TRUE))
    BY <1>5, KnownFacts DEF PlanFacts, Known
  <2> QED BY <2>1, <2>2, <2>3, <2>4, <2>5, <1>5, FactsOfFour
<1>6. CASE kind = "spec" /\ e = "vllm"
  <2>1. Reads(kind, e) = << Known({"spec_draft_tokens"}, {"single"}, "count", FALSE),
                            Known({"spec_accepted_tokens"}, {"single"}, "count", FALSE),
                            Known({"spec_drafts"}, {"single"}, "count", FALSE) >>
    BY <1>6, CounterOfOne DEF Reads, Schema, SpecSeries
  <2>2. PlanFacts(kind, e, 1, Known({"spec_draft_tokens"}, {"single"}, "count", FALSE))
    BY <1>6, KnownFacts
  <2>3. PlanFacts(kind, e, 2, Known({"spec_accepted_tokens"}, {"single"}, "count", FALSE))
    BY <1>6, KnownFacts
  <2>4. PlanFacts(kind, e, 3, Known({"spec_drafts"}, {"single"}, "count", FALSE))
    BY <1>6, KnownFacts
  <2> QED BY <2>1, <2>2, <2>3, <2>4, <1>6, FactsOfThree
<1>7. CASE kind = "spec" /\ e = "sglang"
  <2>1. Reads(kind, e) = << Known({}, {}, "count", FALSE), Known({}, {}, "count", FALSE),
                            Known({}, {}, "count", FALSE) >>
    BY <1>7, CounterOfNone DEF Reads, Schema, SpecSeries
  <2>2. PlanFacts(kind, e, 1, Known({}, {}, "count", FALSE))
    BY <1>7, KnownFacts
  <2>3. PlanFacts(kind, e, 2, Known({}, {}, "count", FALSE))
    BY <1>7, KnownFacts
  <2>4. PlanFacts(kind, e, 3, Known({}, {}, "count", FALSE))
    BY <1>7, KnownFacts
  <2> QED BY <2>1, <2>2, <2>3, <2>4, <1>7, FactsOfThree
<1> QED BY <1>1, <1>2, <1>3, <1>4, <1>5, <1>6, <1>7

-----------------------------------------------------------------------------
(* The lines of a body.                                                    *)

\* What is scraped is among what may be, and stays so.
ScrapedInv ==
  /\ <<scrape.kind, scrape.engine>> \in DOMAIN Lines
  /\ scrape.body \in Seq(Lines[<<scrape.kind, scrape.engine>>])

\* The plan of the scrape at hand.
LEMMA PlanIsKnown ==
  ASSUME ScrapedInv
  PROVE  /\ scrape.kind \in {"kvcache", "phase", "spec", "lora"}
         /\ scrape.engine \in {"vllm", "sglang"}
         /\ PlanIs(scrape.kind, scrape.engine, Plan)
<1>1. scrape.kind \in {"kvcache", "phase", "spec", "lora"} /\ scrape.engine \in {"vllm", "sglang"}
  BY ExpositionAssumption DEF ScrapedInv
<1> QED BY <1>1, PlanOfScrape DEF Plan

\* A sample that is scraped is one an engine wrote.
LEMMA LinesAreWritten ==
  ASSUME ScrapedInv, NEW i \in DOMAIN scrape.body, scrape.body[i].shape = "sample"
  PROVE  Written(scrape.body[i])
BY ExpositionAssumption DEF ScrapedInv

\* The lines of a body are finitely many.
LEMMA BodyIsFinite ==
  ASSUME ScrapedInv
  PROVE  /\ Len(scrape.body) \in Nat /\ DOMAIN scrape.body = 1..Len(scrape.body)
         /\ IsFiniteSet(DOMAIN scrape.body)
         /\ \A j : IsFiniteSet(Meant(j)) /\ Meant(j) \subseteq DOMAIN scrape.body
<1>1. Len(scrape.body) \in Nat /\ DOMAIN scrape.body = 1..Len(scrape.body)
  BY DEF ScrapedInv
<1>2. IsFiniteSet(DOMAIN scrape.body)
  BY <1>1, FS_Interval
<1>3. ASSUME NEW j PROVE IsFiniteSet(Meant(j)) /\ Meant(j) \subseteq DOMAIN scrape.body
  <2>1. Meant(j) \in SUBSET DOMAIN scrape.body
    BY DEF Meant
  <2> QED BY <2>1, <1>2, FS_Subset
<1> QED BY <1>1, <1>2, <1>3

\* A text of one symbol.
LEMMA OneSymbol == \A S : \A symbol \in S : <<symbol>> \in Seq(S)
OBVIOUS

\* The lines parse_series selects are those the engine means: the labels
\* tell the model, and the part of a family that repeats the whole.
LEMMA SelectedIsMeant ==
  ASSUME ScrapedInv, NEW i \in DOMAIN scrape.body, Len(fields) + 1 \in DOMAIN Plan
  PROVE  Selected(scrape.body[i]) <=> i \in Meant(Len(fields) + 1)
<1> DEFINE line == scrape.body[i]
           j == Len(fields) + 1
<1> SUFFICES ASSUME line.shape = "sample", {line.name} = Plan[j].name
             PROVE  Selected(line) <=> i \in Meant(j)
  BY DEF Selected, SplitLine, Meant, Wanted
<1>1. Written(line)
  BY LinesAreWritten
<1>2. Plan[j].aggregation = {"sum_but_total"} => line.name = "cached_tokens"
  BY PlanIsKnown DEF PlanIs, PlanFacts
<1> DEFINE m == <<"m">>
           whole == <<"total">>
           Symbols == STRING \cup {"m", "total"}
<1>3. m \in Seq(Symbols) /\ whole \in Seq(Symbols) /\ line.labels \in Seq(Symbols)
  <2>1. "m" \in Symbols /\ "total" \in Symbols
    OBVIOUS
  <2>2. line.labels \in Seq(STRING)
    BY <1>1 DEF Written
  <2>3. line.labels \in Seq(Symbols)
    BY <2>2
  <2> QED BY <2>1, <2>3, OneSymbol, Zenon
<1>4. ExtractLabel(line.labels, "model_name") = {m} <=> line.of.model = "m"
  <2>1. Labelled(line.labels, "model_name", m) <=> line.of.model = "m"
    BY <1>1 DEF Written
  <2>2. \A p, q \in Starts(line.labels, "model_name") : p = q
    BY <1>1 DEF Written
  <2> HIDE DEF m, line, Symbols
  <2> QED BY <2>1, <2>2, <1>3, ExtractsLabelled
<1>5. line.name = "cached_tokens" /\ line.of.model = "m" =>
        (ExtractLabel(line.labels, "cache_source") = {whole} <=> line.of.part = "total")
  <2> SUFFICES ASSUME line.name = "cached_tokens", line.of.model = "m"
               PROVE  ExtractLabel(line.labels, "cache_source") = {whole} <=> line.of.part = "total"
    OBVIOUS
  <2>1. Labelled(line.labels, "cache_source", whole) <=> line.of.part = "total"
    BY <1>1 DEF Written
  <2>2. \A p, q \in Starts(line.labels, "cache_source") : p = q
    BY <1>1 DEF Written
  <2> HIDE DEF whole, line, Symbols
  <2> QED BY <2>1, <2>2, <1>3, ExtractsLabelled
<1>6. i \in Meant(j) <=>
        /\ line.of.model = "m"
        /\ ~(Plan[j].aggregation = {"sum_but_total"} /\ line.of.part = "total")
  BY DEF Meant
<1>7. Selected(line) <=>
        /\ ExtractLabel(line.labels, "model_name") = {m}
        /\ ~( /\ Plan[j].aggregation = {"sum_but_total"}
              /\ ExtractLabel(line.labels, "cache_source") = {whole} )
  BY DEF Selected, SplitLine, Wanted
<1> HIDE DEF line, j, m, whole
<1> QED BY <1>2, <1>4, <1>5, <1>6, <1>7

-----------------------------------------------------------------------------
(* What the lines count.                                                   *)

\* What is parsed of a line.
Parsed(line, unit) == IF unit = "count" THEN ParseCounter(line.value) ELSE ParseSeconds(line.value)

\* Half a second is a whole number of nanoseconds.
LEMMA RoundingIsTruncating ==
  ASSUME NEW v \in Nat
  PROVE  /\ v * NanosPerSecond \in Nat
         /\ (v * NanosPerSecond + 1) \div 2 = (v * NanosPerSecond) \div 2
<1> DEFINE h == NanosPerSecond \div 2
           n == v * h
<1>1. h \in Nat /\ NanosPerSecond = 2 * h
  BY ExpositionAssumption
<1> HIDE DEF h
<1>2. n \in Nat /\ v * NanosPerSecond = 2 * n
  BY <1>1
<1> HIDE DEF n
<1> QED BY <1>2

\* What is parsed of a valid line is what it counts, and nothing of another.
LEMMA ParsedIsAmount ==
  ASSUME ScrapedInv, NEW i \in DOMAIN scrape.body, scrape.body[i].shape = "sample",
         NEW unit \in {"count", "seconds"}
  PROVE  /\ ~Valid(i) => Parsed(scrape.body[i], unit) = {}
         /\ Valid(i) => /\ Parsed(scrape.body[i], unit) = {Amount(i, unit)}
                        /\ Amount(i, unit) \in 0..MaxCount
<1> DEFINE value == scrape.body[i].value
<1>1. \A u, v \in value : u \in Int /\ u = v
  BY LinesAreWritten DEF Written
<1>2. ASSUME ~Valid(i) PROVE Parsed(scrape.body[i], unit) = {}
  <2>1. {u \in value : u >= 0} = {}
    BY <1>2 DEF Valid
  <2> QED BY <2>1 DEF Parsed, ParseCounter, ParseSeconds
<1>3. ASSUME Valid(i)
      PROVE  /\ Parsed(scrape.body[i], unit) = {Amount(i, unit)}
             /\ Amount(i, unit) \in 0..MaxCount
  <2>1. PICK v \in value : v >= 0
    BY <1>3 DEF Valid
  <2>2. v \in Nat /\ value = {v} /\ {u \in value : u >= 0} = {v} /\ (CHOOSE u \in value : TRUE) = v
    BY <1>1, <2>1
  <2> DEFINE counted == v \div 2
             timed   == (v * NanosPerSecond) \div 2
  <2>3. counted \in Nat /\ timed \in Nat /\ MaxCount \in Nat
    BY <2>2, RoundingIsTruncating, ExpositionAssumption
  <2>4. /\ Amount(i, "count") = Min({MaxCount, counted})
        /\ Amount(i, "seconds") = Min({MaxCount, timed})
    BY <2>2 DEF Amount
  <2>5. /\ ParseCounter(value) = {Min({counted, MaxCount})}
        /\ ParseSeconds(value) = {Min({timed, MaxCount})}
    <3>1. (v * NanosPerSecond + 1) \div 2 = timed
      BY <2>2, RoundingIsTruncating
    <3>2. ParseCounter(value) = {Min({u \div 2, MaxCount}) : u \in {v}}
      BY <2>2 DEF ParseCounter
    <3>3. ParseSeconds(value) = {Min({(u * NanosPerSecond + 1) \div 2, MaxCount}) : u \in {v}}
      BY <2>2 DEF ParseSeconds
    <3> HIDE DEF timed, value
    <3> QED BY <3>1, <3>2, <3>3
  <2>6. {counted, MaxCount} = {MaxCount, counted} /\ {timed, MaxCount} = {MaxCount, timed}
    OBVIOUS
  <2>7. Min({MaxCount, counted}) \in 0..MaxCount /\ Min({MaxCount, timed}) \in 0..MaxCount
    <3> HIDE DEF counted, timed
    <3>1. ASSUME NEW n \in Nat PROVE Min({MaxCount, n}) \in 0..MaxCount
      <4>1. n \in Int /\ MaxCount \in Int
        BY <2>3
      <4>2. Min({MaxCount, n}) = IF MaxCount <= n THEN MaxCount ELSE n
        BY <4>1, OfTwo
      <4> QED BY <4>2, <2>3
    <3> QED BY <2>3, <3>1
  <2> HIDE DEF counted, timed
  <2>8. CASE unit = "count"
    BY <2>8, <2>4, <2>5, <2>6, <2>7 DEF Parsed
  <2>9. CASE unit = "seconds"
    BY <2>9, <2>4, <2>5, <2>6, <2>7 DEF Parsed
  <2> QED BY <2>8, <2>9
<1> QED BY <1>2, <1>3

-----------------------------------------------------------------------------
(* The inductive invariant.  Between two lines, what was read of the       *)
(* series is the sum of the lines before the next one.                     *)

\* The lines that were read of the series that is looked for.
ReadSoFar(j) == {i \in Meant(j) : i < next}

SumSoFar(j) == SumFunctionOnSet(Amounts(Plan[j].unit), ReadSoFar(j))

\* While a series is read: nothing yet, or the sum of the lines so far.
AccInv ==
  pc # "end" /\ scrape.kind # "lora" /\ Len(fields) < Len(Plan) =>
    \/ acc = {} /\ ReadSoFar(Len(fields) + 1) = {}
    \/ /\ acc = {SumSoFar(Len(fields) + 1)} /\ ReadSoFar(Len(fields) + 1) # {}
       /\ Plan[Len(fields) + 1].aggregation # {"single"}
       /\ \A i \in ReadSoFar(Len(fields) + 1) : Valid(i)

\* What was read is what was meant.
FieldsInv == \A j \in DOMAIN fields : AsMeant(j, fields[j])

\* A sample is kept once all of its series were read.
KeptInv ==
  timeline # <<>> =>
    /\ Len(fields) = Len(Plan)
    /\ IF scrape.kind = "spec" THEN \A i \in DOMAIN fields : fields[i] # {} ELSE Complete

\* The inductive invariant of a scrape.
ReadingInv == ScrapedInv /\ ScrapeTypeOK /\ AccInv /\ FieldsInv /\ KeptInv /\ FailureHasACause

\* What depends on the body alone does not change.
LEMMA OfTheBody ==
  ASSUME scrape' = scrape
  PROVE  /\ Plan' = Plan
         /\ \A j : Meant(j)' = Meant(j) /\ AmountOf(j)' = AmountOf(j)
         /\ \A unit : Amounts(unit)' = Amounts(unit)
         /\ \A i : Valid(i)' = Valid(i)
         /\ \A j : Refusable(j)' = Refusable(j)
         /\ \A j, value : AsMeant(j, value)' = AsMeant(j, value)
         /\ ScrapedInv' = ScrapedInv
<1>1. Plan' = Plan
  BY DEF Plan
<1>2. \A i : Valid(i)' = Valid(i)
  BY DEF Valid
<1>3. \A i, unit : Amount(i, unit)' = Amount(i, unit)
  BY DEF Amount
<1>4. \A unit : Amounts(unit)' = Amounts(unit)
  BY <1>3 DEF Amounts
<1>5. \A j : Meant(j)' = Meant(j)
  BY <1>1 DEF Meant
<1>6. \A j : AmountOf(j)' = AmountOf(j)
  BY <1>1, <1>4, <1>5 DEF AmountOf
<1>7. \A j : Refusable(j)' = Refusable(j)
  BY <1>1, <1>2, <1>5, <1>6 DEF Refusable
<1>8. \A j, value : AsMeant(j, value)' = AsMeant(j, value)
  BY <1>1, <1>2, <1>3, <1>5, <1>6 DEF AsMeant
<1>9. ScrapedInv' = ScrapedInv
  BY DEF ScrapedInv
<1> QED BY <1>1, <1>2, <1>4, <1>5, <1>6, <1>7, <1>8, <1>9

-----------------------------------------------------------------------------
(* The ways on from a line.                                                *)

\* What is there is an option.
LEMMA OptionOf ==
  ASSUME NEW S, NEW v \in S
  PROVE  {v} \in Option(S)
BY DEF Option

\* Nothing is an option.
LEMMA OptionOfNone == ASSUME NEW S PROVE {} \in Option(S)
BY DEF Option

\* A series is read as it was meant: the next one is looked for.
LEMMA KeepKeeps ==
  ASSUME ReadingInv, ReadsOn, NEW value \in Option(0..MaxCount),
         AsMeant(Len(fields) + 1, value), Keep(value)
  PROVE  ReadingInv'
<1> USE DEF ReadingInv
<1>1. /\ scrape' = scrape /\ pc' = pc /\ outcome' = outcome /\ timeline' = timeline /\ lora' = lora
      /\ fields' = Append(fields, value) /\ next' = 1 /\ acc' = {}
  BY DEF Keep
<1>2. /\ fields \in Seq(Option(0..MaxCount)) /\ Len(fields) < Len(Plan) /\ pc = "line"
      /\ scrape.kind # "lora"
  BY DEF ScrapeTypeOK, ReadsOn
<1>3. /\ fields' \in Seq(Option(0..MaxCount)) /\ Len(fields') = Len(fields) + 1
      /\ DOMAIN fields' = 1..(Len(fields) + 1)
      /\ \A j \in DOMAIN fields : fields'[j] = fields[j]
      /\ fields'[Len(fields) + 1] = value
      /\ DOMAIN fields = 1..Len(fields) /\ Len(fields) \in Nat
  BY <1>1, <1>2
<1>4. outcome = "pending" /\ timeline = <<>>
  BY <1>2 DEF ScrapeTypeOK
<1>5. Plan' = Plan /\ ScrapedInv' /\ Len(Plan) \in Nat
  BY <1>1, OfTheBody, PlanIsKnown DEF PlanIs
<1>6. ScrapeTypeOK'
  <2>1. next' \in 1..(Len(scrape'.body) + 1) /\ acc' \in Option(0..MaxCount)'
    BY <1>1, BodyIsFinite DEF Option
  <2>2. fields' \in Seq(Option(0..MaxCount))' /\ Len(fields') <= Len(Plan')
    BY <1>2, <1>3, <1>5 DEF Option
  <2>3. Cardinality(lora') = IF pc' = "end" /\ scrape'.kind = "lora" THEN 1 ELSE 0
    BY <1>1 DEF ScrapeTypeOK
  <2> QED BY <1>1, <1>2, <1>4, <2>1, <2>2, <2>3 DEF ScrapeTypeOK
<1>7. FieldsInv'
  <2>1. ASSUME NEW j \in DOMAIN fields' PROVE AsMeant(j, fields'[j])
    BY <1>3 DEF FieldsInv
  <2> QED BY <2>1, <1>1, OfTheBody DEF FieldsInv
<1>8. AccInv'
  <2>1. ASSUME NEW j PROVE ReadSoFar(j)' = {}
    <3>1. ReadSoFar(j)' = {i \in Meant(j) : i < 1}
      BY <1>1, OfTheBody DEF ReadSoFar
    <3> QED BY <3>1, BodyIsFinite
  <2> QED BY <2>1, <1>1 DEF AccInv
<1>9. KeptInv' /\ FailureHasACause'
  BY <1>1, <1>4 DEF KeptInv, FailureHasACause
<1> QED BY <1>5, <1>6, <1>7, <1>8, <1>9

\* A scrape that fails has cause to.
LEMMA FailKeeps ==
  ASSUME ReadingInv, pc # "end", NEW error \in {"http", "parse"}, Fail(error),
         error = "parse" /\ scrape.kind # "lora" => \E j \in DOMAIN Plan : Refusable(j)
  PROVE  ReadingInv'
<1> USE DEF ReadingInv
<1>1. /\ scrape' = scrape /\ pc' = "end" /\ outcome' = error /\ timeline' = timeline
      /\ fields' = fields /\ next' = next /\ acc' = acc
      /\ lora' = IF scrape.kind = "lora" THEN {[found |-> "read_failed"]} ELSE {}
  BY DEF Fail
<1>2. outcome = "pending" /\ timeline = <<>>
  BY DEF ScrapeTypeOK
<1>3. Plan' = Plan /\ ScrapedInv'
  BY <1>1, OfTheBody
<1>4. ScrapeTypeOK'
  <2>1. Cardinality(lora') = IF pc' = "end" /\ scrape'.kind = "lora" THEN 1 ELSE 0
    BY <1>1, FS_Singleton, FS_EmptySet
  <2>2. next' \in 1..(Len(scrape'.body) + 1) /\ acc' \in Option(0..MaxCount)'
    BY <1>1 DEF ScrapeTypeOK, Option
  <2>3. fields' \in Seq(Option(0..MaxCount))' /\ Len(fields') <= Len(Plan')
    BY <1>1, <1>3 DEF ScrapeTypeOK, Option
  <2> QED BY <1>1, <1>2, <2>1, <2>2, <2>3 DEF ScrapeTypeOK
<1>5. FieldsInv'
  BY <1>1, OfTheBody DEF FieldsInv
<1>6. AccInv' /\ KeptInv'
  BY <1>1, <1>2 DEF AccInv, KeptInv
<1>7. FailureHasACause'
  BY <1>1, OfTheBody DEF FailureHasACause
<1> QED BY <1>3, <1>4, <1>5, <1>6, <1>7

\* Whatever else a step does, it moves on to the next line.
LEMMA AdvanceKeeps ==
  ASSUME ReadingInv, pc = "line", next <= Len(scrape.body), Advance, lora' = lora,
         acc' \in Option(0..MaxCount), AccInv'
  PROVE  ReadingInv'
<1> USE DEF ReadingInv
<1>1. /\ scrape' = scrape /\ pc' = pc /\ outcome' = outcome /\ timeline' = timeline
      /\ fields' = fields /\ next' = next + 1
  BY DEF Advance
<1>2. outcome = "pending" /\ timeline = <<>>
  BY DEF ScrapeTypeOK
<1>3. Plan' = Plan /\ ScrapedInv'
  BY <1>1, OfTheBody
<1>4. ScrapeTypeOK'
  <2>1. Cardinality(lora') = IF pc' = "end" /\ scrape'.kind = "lora" THEN 1 ELSE 0
    BY <1>1 DEF ScrapeTypeOK
  <2>2. next' \in 1..(Len(scrape'.body) + 1)
    BY <1>1, BodyIsFinite DEF ScrapeTypeOK
  <2>3. fields' \in Seq(Option(0..MaxCount))' /\ Len(fields') <= Len(Plan')
    BY <1>1, <1>3 DEF ScrapeTypeOK, Option
  <2>4. acc' \in Option(0..MaxCount)'
    BY DEF Option
  <2> QED BY <1>1, <1>2, <2>1, <2>2, <2>3, <2>4 DEF ScrapeTypeOK
<1>5. FieldsInv'
  BY <1>1, OfTheBody DEF FieldsInv
<1>6. KeptInv' /\ FailureHasACause'
  BY <1>1, <1>2 DEF KeptInv, FailureHasACause
<1> QED BY <1>3, <1>4, <1>5, <1>6

-----------------------------------------------------------------------------
(* The steps.                                                              *)

\* What is known while a series is looked for.
LEMMA Looking ==
  ASSUME ReadingInv, ReadsOn
  PROVE  /\ Len(fields) + 1 \in DOMAIN Plan
         /\ PlanFacts(scrape.kind, scrape.engine, Len(fields) + 1, Plan[Len(fields) + 1])
         /\ Wanted = Plan[Len(fields) + 1]
         /\ outcome = "pending" /\ pc = "line" /\ scrape.kind # "lora"
         /\ Len(fields) < Len(Plan) /\ Len(fields) \in Nat
         /\ next \in Nat /\ next >= 1
<1>1. Len(fields) \in Nat /\ Len(fields) < Len(Plan) /\ pc = "line" /\ scrape.kind # "lora"
  BY DEF ReadingInv, ScrapeTypeOK, ReadsOn
<1>2. Len(Plan) \in Nat /\ DOMAIN Plan = 1..Len(Plan)
      /\ \A j \in DOMAIN Plan : PlanFacts(scrape.kind, scrape.engine, j, Plan[j])
  BY PlanIsKnown DEF ReadingInv, PlanIs
<1>3. next \in Nat /\ next >= 1 /\ outcome = "pending"
  BY <1>1, BodyIsFinite DEF ReadingInv, ScrapeTypeOK
<1> QED BY <1>1, <1>2, <1>3 DEF Wanted

\* What is not declared is not in the body.
LEMMA PassUndeclaredKeeps == ASSUME ReadingInv, PassUndeclared PROVE ReadingInv'
<1>1. ReadsOn /\ Wanted.name = {} /\ Keep({})
  BY DEF PassUndeclared
<1>2. Wanted = Plan[Len(fields) + 1]
  BY <1>1, Looking
<1>3. Meant(Len(fields) + 1) = {}
  BY <1>1, <1>2 DEF Meant
<1>4. AsMeant(Len(fields) + 1, {})
  BY <1>3 DEF AsMeant
<1> QED BY <1>1, <1>4, OptionOfNone, KeepKeeps

\* The lines read of a series once the next line is.
LEMMA OneMoreRead ==
  ASSUME ReadingInv, ReadsOn, Advance, next <= Len(scrape.body)
  PROVE  LET j == Len(fields) + 1 IN
         /\ next \notin Meant(j) => ReadSoFar(j)' = ReadSoFar(j) /\ SumSoFar(j)' = SumSoFar(j)
         /\ next \in Meant(j) => /\ ReadSoFar(j)' = ReadSoFar(j) \cup {next}
                                 /\ next \notin ReadSoFar(j)
         /\ (Len(fields) + 1)' = Len(fields) + 1
         /\ Plan' = Plan /\ Amounts(Plan[j].unit)' = Amounts(Plan[j].unit)
         /\ \A i : Valid(i)' = Valid(i)
<1> DEFINE j == Len(fields) + 1
<1>1. scrape' = scrape /\ fields' = fields /\ next' = next + 1
  BY DEF Advance
<1>2. Meant(j)' = Meant(j) /\ Plan' = Plan /\ \A unit : Amounts(unit)' = Amounts(unit)
  BY <1>1, OfTheBody
<1>3. next \in Nat /\ next >= 1 /\ Meant(j) \subseteq 1..Len(scrape.body)
  BY Looking, BodyIsFinite DEF ReadingInv
<1>4. ReadSoFar(j)' = {i \in Meant(j) : i < next + 1}
  BY <1>1, <1>2 DEF ReadSoFar
<1>5. next \notin Meant(j) => ReadSoFar(j)' = ReadSoFar(j)
  BY <1>3, <1>4 DEF ReadSoFar
<1>6. next \in Meant(j) => /\ ReadSoFar(j)' = ReadSoFar(j) \cup {next}
                           /\ next \notin ReadSoFar(j)
  BY <1>3, <1>4 DEF ReadSoFar
<1>7. next \notin Meant(j) => SumSoFar(j)' = SumSoFar(j)
  BY <1>1, <1>2, <1>5 DEF SumSoFar
<1> QED BY <1>1, <1>2, <1>5, <1>6, <1>7, OfTheBody

\* A line that is skipped was not meant.
LEMMA SkipLineKeeps == ASSUME ReadingInv, SkipLine PROVE ReadingInv'
<1> DEFINE j == Len(fields) + 1
<1>1. /\ ReadsOn /\ next <= Len(scrape.body) /\ ~Selected(Line) /\ Advance /\ acc' = acc
      /\ pc' = pc /\ scrape' = scrape /\ fields' = fields /\ lora' = lora
  BY DEF SkipLine, Advance
<1>2. next \in DOMAIN scrape.body /\ j \in DOMAIN Plan /\ ScrapedInv
  BY <1>1, Looking, BodyIsFinite DEF ReadingInv
<1>3. next \notin Meant(j)
  BY <1>1, <1>2, SelectedIsMeant DEF Line
<1>4. /\ ReadSoFar(j)' = ReadSoFar(j) /\ SumSoFar(j)' = SumSoFar(j) /\ Plan' = Plan
      /\ \A i : Valid(i)' = Valid(i)
  BY <1>1, <1>3, OneMoreRead
<1>5. AccInv'
  BY <1>1, <1>4 DEF ReadingInv, AccInv
<1>6. acc' \in Option(0..MaxCount) /\ pc = "line"
  BY <1>1, Looking DEF ReadingInv, ScrapeTypeOK
<1> QED BY <1>1, <1>5, <1>6, AdvanceKeeps

\* The amounts of the lines of a series that are valid add up.
LEMMA AmountsAddUp ==
  ASSUME ScrapedInv, NEW j \in DOMAIN Plan, NEW S \in SUBSET Meant(j), \A i \in S : Valid(i)
  PROVE  /\ IsFiniteSet(S)
         /\ \A i \in S : Amounts(Plan[j].unit)[i] = Amount(i, Plan[j].unit)
         /\ \A i \in S : Amounts(Plan[j].unit)[i] \in Nat
         /\ SumFunctionOnSet(Amounts(Plan[j].unit), S) \in Nat
<1>1. IsFiniteSet(S) /\ S \subseteq DOMAIN scrape.body
  BY BodyIsFinite, FS_Subset
<1>2. Plan[j].unit \in {"count", "seconds"}
  BY PlanIsKnown DEF PlanIs, PlanFacts
<1>3. \A i \in S : Amounts(Plan[j].unit)[i] = Amount(i, Plan[j].unit)
  BY <1>1 DEF Amounts
<1>4. ASSUME NEW i \in S PROVE Amount(i, Plan[j].unit) \in Nat
  <2>1. i \in DOMAIN scrape.body /\ scrape.body[i].shape = "sample"
    BY DEF Meant
  <2>2. Amount(i, Plan[j].unit) \in 0..MaxCount
    BY <1>2, <2>1, ParsedIsAmount
  <2> QED BY <2>2
<1>5. \A i \in S : Amounts(Plan[j].unit)[i] \in Nat
  BY <1>3, <1>4
<1> DEFINE f == Amounts(Plan[j].unit)
<1>6. SumFunctionOnSet(f, S) \in Nat
  <2>1. \A i \in S : f[i] \in Nat
    BY <1>5
  <2> HIDE DEF f
  <2> QED BY <1>1, <2>1, SumIsNat
<1> QED BY <1>1, <1>3, <1>5, <1>6

\* A line that is taken was meant: it is refused, it is the value of the
\* series, or the sum so far grows by what it counts.
LEMMA TakeLineKeeps == ASSUME ReadingInv, TakeLine PROVE ReadingInv'
<1> DEFINE j == Len(fields) + 1
           unit == Plan[j].unit
           value == Parsed(Line, unit)
           sum == SumSet(acc) + SumSet(value)
           f == Amounts(unit)
<1>1. /\ ReadsOn /\ next <= Len(scrape.body) /\ Selected(Line)
      /\ Wanted = Plan[j] /\ j \in DOMAIN Plan /\ next \in DOMAIN scrape.body
      /\ ScrapedInv /\ pc = "line" /\ scrape.kind # "lora"
  <2>1. ReadsOn /\ next <= Len(scrape.body) /\ Selected(Line)
    BY DEF TakeLine
  <2> QED BY <2>1, Looking, BodyIsFinite DEF ReadingInv
<1>2. (CASE value = {} -> Fail("parse")
         [] value # {} /\ Plan[j].aggregation = {"single"} -> Keep(value)
         [] OTHER -> IF sum > MaxCount THEN Fail("parse")
                     ELSE Advance /\ acc' = {sum} /\ UNCHANGED series)
  BY <1>1 DEF TakeLine, Parsed
<1>3. next \in Meant(j)
  BY <1>1, SelectedIsMeant DEF Line
<1>4. unit \in {"count", "seconds"} /\ Line.shape = "sample"
  BY <1>1, PlanIsKnown DEF PlanIs, PlanFacts, Selected, SplitLine
<1>5. /\ ~Valid(next) => value = {}
      /\ Valid(next) => value = {Amount(next, unit)} /\ Amount(next, unit) \in 0..MaxCount
  BY <1>1, <1>4, ParsedIsAmount DEF Line
<1>6. CASE value = {}
  <2>1. Fail("parse")
    BY <1>2, <1>6
  <2>2. ~Valid(next)
    BY <1>5, <1>6
  <2>3. Refusable(j)
    BY <1>3, <2>2 DEF Refusable
  <2> QED BY <1>1, <2>1, <2>3, FailKeeps
<1>7. CASE value # {} /\ Plan[j].aggregation = {"single"}
  <2>1. Keep(value)
    BY <1>2, <1>7
  <2>2. Valid(next) /\ value = {Amount(next, unit)} /\ Amount(next, unit) \in 0..MaxCount
    BY <1>5, <1>7
  <2>3. AsMeant(j, value)
    BY <1>3, <1>7, <2>2 DEF AsMeant
  <2>4. value \in Option(0..MaxCount)
    BY <2>2, OptionOf
  <2> HIDE DEF value
  <2> QED BY <1>1, <2>1, <2>3, <2>4, KeepKeeps
<1>8. CASE value # {} /\ Plan[j].aggregation # {"single"}
  <2>1. IF sum > MaxCount THEN Fail("parse") ELSE Advance /\ acc' = {sum} /\ UNCHANGED series
    BY <1>2, <1>8
  <2>2. Valid(next) /\ value = {Amount(next, unit)} /\ Amount(next, unit) \in 0..MaxCount
    BY <1>5, <1>8
  <2> DEFINE read == ReadSoFar(j)
             now == read \cup {next}
  <2>3. /\ now \in SUBSET Meant(j) /\ read \in SUBSET Meant(j) /\ next \notin read
        /\ \A i \in read : Valid(i)
    <3>1. read \in SUBSET Meant(j) /\ next \notin read
      BY Looking, <1>1, BodyIsFinite DEF ReadSoFar
    <3>2. \A i \in read : Valid(i)
      BY <1>1, Looking DEF ReadingInv, AccInv
    <3> QED BY <3>1, <3>2, <1>3
  <2>4. SumSet(acc) = SumFunctionOnSet(f, read) /\ SumFunctionOnSet(f, read) \in Nat
    <3>1. SumFunctionOnSet(f, read) \in Nat
      BY <1>1, <2>3, AmountsAddUp
    <3>2. CASE acc = {} /\ read = {}
      BY <3>2, SumSetOfNone, SumOfNone
    <3>3. CASE acc = {SumSoFar(j)}
      <4>1. SumSet({SumFunctionOnSet(f, read)}) = SumFunctionOnSet(f, read)
        <5> HIDE DEF f, read
        <5> QED BY <3>1, SumSetOfOne
      <4> QED BY <3>1, <3>3, <4>1 DEF SumSoFar
    <3> QED BY <3>1, <3>2, <3>3, <1>1, Looking DEF ReadingInv, AccInv
  <2>5. sum = SumFunctionOnSet(f, now) /\ sum \in Nat
    <3>1. IsFiniteSet(now) /\ IsFiniteSet(read) /\ \A i \in now : f[i] \in Nat
      BY <1>1, <2>2, <2>3, AmountsAddUp
    <3>2. f[next] = Amount(next, unit)
      BY <1>1 DEF Amounts
    <3>3. SumSet(value) = Amount(next, unit)
      <4>1. Amount(next, unit) \in Int
        BY <2>2
      <4>2. SumSet({Amount(next, unit)}) = Amount(next, unit)
        BY <4>1, SumSetOfOne
      <4> QED BY <4>2, <2>2
    <3>4. SumFunctionOnSet(f, read \cup {next}) = f[next] + SumFunctionOnSet(f, read)
      <4>1. \A i \in read \cup {next} : f[i] \in Int
        BY <3>1
      <4> HIDE DEF f, read
      <4> QED BY <4>1, <3>1, <2>3, SumAdd
    <3> HIDE DEF f, read, value
    <3> QED BY <3>2, <3>3, <3>4, <2>4, <2>2
  <2>6. CASE sum > MaxCount
    <3>1. Fail("parse")
      BY <2>1, <2>6
    <3>2. Refusable(j)
      <4> SUFFICES ASSUME \A i \in Meant(j) : Valid(i) PROVE AmountOf(j) > MaxCount
        BY DEF Refusable
      <4>1. IsFiniteSet(Meant(j)) /\ (\A i \in Meant(j) : f[i] \in Nat) /\ AmountOf(j) \in Nat
        BY <1>1, AmountsAddUp DEF AmountOf
      <4>2. SumFunctionOnSet(f, now) <= SumFunctionOnSet(f, Meant(j))
        <5> HIDE DEF f, now
        <5> QED BY <4>1, <2>3, SumOfSubset
      <4>3. SumFunctionOnSet(f, Meant(j)) = AmountOf(j)
        BY DEF AmountOf
      <4> HIDE DEF f, sum
      <4> QED BY <4>1, <4>2, <4>3, <2>5, <2>6, ExpositionAssumption
    <3> QED BY <1>1, <3>1, <3>2, FailKeeps
  <2>7. CASE ~(sum > MaxCount)
    <3>1. Advance /\ acc' = {sum}
      BY <2>1, <2>7
    <3>2. /\ ReadSoFar(j)' = now /\ Plan' = Plan /\ (Len(fields) + 1)' = j
          /\ Amounts(Plan[j].unit)' = f /\ \A i : Valid(i)' = Valid(i)
      BY <1>1, <1>3, <3>1, OneMoreRead
    <3>3. acc' \in Option(0..MaxCount)
      <4>1. sum \in 0..MaxCount
        BY <2>5, <2>7, ExpositionAssumption
      <4> HIDE DEF sum
      <4> QED BY <3>1, <4>1, OptionOf
    <3>4. AccInv'
      <4>1. SumSoFar(j)' = SumFunctionOnSet(f, now)
        BY <3>2 DEF SumSoFar
      <4>2. acc' = {SumSoFar(j)'}
        BY <3>1, <4>1, <2>5
      <4> HIDE DEF f, now, sum, value
      <4>3. now # {}
        BY DEF now
      <4>4. \A i \in now : Valid(i)
        BY <2>2, <2>3 DEF now
      <4> QED BY <3>1, <3>2, <4>2, <4>3, <4>4, <1>8 DEF AccInv, Advance
    <3> QED BY <1>1, <3>1, <3>3, <3>4, AdvanceKeeps DEF Advance
  <2> QED BY <2>6, <2>7
<1> QED BY <1>6, <1>7, <1>8

\* At the end of the body the sum so far is that of the series.
LEMMA SeriesEndsKeeps == ASSUME ReadingInv, SeriesEnds PROVE ReadingInv'
<1> DEFINE j == Len(fields) + 1
<1>1. /\ ReadsOn /\ next > Len(scrape.body) /\ Plan[j].name # {} /\ j \in DOMAIN Plan
      /\ PlanFacts(scrape.kind, scrape.engine, j, Plan[j]) /\ Wanted = Plan[j]
      /\ pc = "line" /\ scrape.kind # "lora" /\ Len(fields) < Len(Plan) /\ next \in Nat
      /\ IF acc = {} /\ Plan[j].required THEN Fail("parse") ELSE Keep(acc)
  BY Looking DEF SeriesEnds
<1>2. ReadSoFar(j) = Meant(j)
  BY <1>1, BodyIsFinite DEF ReadingInv, ReadSoFar
<1>3. \/ acc = {} /\ Meant(j) = {}
      \/ /\ acc = {AmountOf(j)} /\ Meant(j) # {} /\ Plan[j].aggregation # {"single"}
         /\ \A i \in Meant(j) : Valid(i)
  BY <1>1, <1>2 DEF ReadingInv, AccInv, SumSoFar, AmountOf
<1>4. CASE acc = {} /\ Plan[j].required
  <2>1. Refusable(j)
    BY <1>1, <1>3, <1>4 DEF PlanFacts, Refusable
  <2>2. Fail("parse")
    BY <1>1, <1>4
  <2> QED BY <1>1, <2>1, <2>2, FailKeeps
<1>5. CASE ~(acc = {} /\ Plan[j].required)
  <2>1. Keep(acc)
    BY <1>1, <1>5
  <2>2. AsMeant(j, acc)
    BY <1>3 DEF AsMeant
  <2>3. acc \in Option(0..MaxCount)
    BY DEF ReadingInv, ScrapeTypeOK
  <2> QED BY <1>1, <2>1, <2>2, <2>3, KeepKeeps
<1> QED BY <1>4, <1>5

\* What is kept of the reading.
LEMMA FinishKeeps == ASSUME ReadingInv, Finish PROVE ReadingInv'
<1> USE DEF ReadingInv
<1> DEFINE kept == IF scrape.kind = "spec" THEN \A i \in DOMAIN fields : fields[i] # {}
                                           ELSE Complete
           incomplete == scrape.kind = "kvcache" /\ ~Complete
<1>1. /\ scrape' = scrape /\ fields' = fields /\ next' = next /\ acc' = acc /\ lora' = lora
      /\ pc = "line" /\ pc' = "end" /\ scrape.kind # "lora" /\ Len(fields) = Len(Plan)
      /\ outcome' = IF incomplete THEN "parse" ELSE "ok"
      /\ timeline' = IF kept THEN Append(timeline, fields) ELSE timeline
  BY DEF Finish
<1>2. outcome = "pending" /\ timeline = <<>>
  BY <1>1 DEF ScrapeTypeOK
<1>3. timeline' = IF kept THEN <<fields>> ELSE <<>>
  BY <1>1, <1>2
<1>4. Plan' = Plan /\ ScrapedInv' /\ (kept' <=> kept)
  BY <1>1, OfTheBody DEF Complete
<1>5. ScrapeTypeOK'
  <2>1. Cardinality(lora') = IF pc' = "end" /\ scrape'.kind = "lora" THEN 1 ELSE 0
    BY <1>1 DEF ScrapeTypeOK
  <2>2. next' \in 1..(Len(scrape'.body) + 1) /\ acc' \in Option(0..MaxCount)'
    BY <1>1 DEF ScrapeTypeOK, Option
  <2>3. fields' \in Seq(Option(0..MaxCount))' /\ Len(fields') <= Len(Plan')
    BY <1>1, <1>4 DEF ScrapeTypeOK, Option
  <2>4. kept => ~incomplete
    OBVIOUS
  <2> HIDE DEF kept, incomplete
  <2> QED BY <1>1, <1>3, <2>1, <2>2, <2>3, <2>4 DEF ScrapeTypeOK
<1>6. FieldsInv'
  BY <1>1, OfTheBody DEF FieldsInv
<1>7. AccInv'
  BY <1>1 DEF AccInv
<1>8. KeptInv'
  <2>1. timeline' # <<>> => kept'
    BY <1>3, <1>4
  <2> QED BY <1>1, <1>4, <2>1 DEF KeptInv
<1>9. FailureHasACause'
  <2> SUFFICES ASSUME incomplete PROVE \E j \in DOMAIN Plan : Refusable(j)
    BY <1>1, OfTheBody DEF FailureHasACause
  <2>1. PICK j \in DOMAIN fields : fields[j] = {} /\ Plan[j].name # {}
    BY DEF Complete
  <2>2. j \in DOMAIN Plan
    BY <1>1, PlanIsKnown DEF PlanIs, ScrapeTypeOK
  <2>3. Meant(j) = {}
    BY <2>1 DEF FieldsInv, AsMeant
  <2> QED BY <2>1, <2>2, <2>3 DEF Refusable
<1> QED BY <1>4, <1>5, <1>6, <1>7, <1>8, <1>9

\* A body that was fetched is not read yet.
LEMMA FetchKeeps == ASSUME ReadingInv, Fetch PROVE ReadingInv'
<1> USE DEF ReadingInv
<1>1. /\ scrape' = scrape /\ fields' = fields /\ next' = next /\ acc' = acc /\ lora' = lora
      /\ pc = "fetch" /\ pc' = "line" /\ outcome' = outcome /\ timeline' = timeline
  BY DEF Fetch
<1>2. outcome = "pending" /\ timeline = <<>>
  BY <1>1 DEF ScrapeTypeOK
<1>3. Plan' = Plan /\ ScrapedInv'
  BY <1>1, OfTheBody
<1>4. ScrapeTypeOK'
  <2>1. Cardinality(lora') = IF pc' = "end" /\ scrape'.kind = "lora" THEN 1 ELSE 0
    BY <1>1 DEF ScrapeTypeOK
  <2>2. next' \in 1..(Len(scrape'.body) + 1) /\ acc' \in Option(0..MaxCount)'
    BY <1>1 DEF ScrapeTypeOK, Option
  <2>3. fields' \in Seq(Option(0..MaxCount))' /\ Len(fields') <= Len(Plan')
    BY <1>1, <1>3 DEF ScrapeTypeOK, Option
  <2> QED BY <1>1, <1>2, <2>1, <2>2, <2>3 DEF ScrapeTypeOK
<1>5. FieldsInv'
  BY <1>1, OfTheBody DEF FieldsInv
<1>6. AccInv'
  <2>1. \A j : ReadSoFar(j)' = ReadSoFar(j) /\ SumSoFar(j)' = SumSoFar(j)
    BY <1>1, OfTheBody DEF ReadSoFar, SumSoFar
  <2> QED BY <1>1, <1>3, <2>1, OfTheBody DEF AccInv
<1>7. KeptInv' /\ FailureHasACause'
  BY <1>1, <1>2 DEF KeptInv, FailureHasACause
<1> QED BY <1>3, <1>4, <1>5, <1>6, <1>7

\* LoRA reads no series of a plan.
LEMMA LoraKeepsReading ==
  ASSUME ReadingInv, SkipLora \/ TakeLora \/ FinishLora
  PROVE  ReadingInv'
<1>1. pc = "line" /\ scrape.kind = "lora" /\ acc \in Option(0..MaxCount)
  BY DEF SkipLora, TakeLora, FinishLora, ReadsLora, ReadingInv, ScrapeTypeOK
<1>2. ASSUME next <= Len(scrape.body), Advance, acc' = acc PROVE ReadingInv'
  <2>1. AccInv' /\ lora' = lora
    BY <1>1, <1>2 DEF Advance, AccInv
  <2> QED BY <1>1, <1>2, <2>1, AdvanceKeeps
<1>3. CASE SkipLora
  BY <1>2, <1>3 DEF SkipLora
<1>4. CASE TakeLora
  <2>1. CASE Fail("parse")
    BY <1>1, <2>1, FailKeeps
  <2>2. CASE Advance /\ acc' = acc
    BY <1>2, <1>4, <2>2 DEF TakeLora
  <2> QED BY <1>4, <2>1, <2>2 DEF TakeLora
<1>5. CASE FinishLora
  <2> USE DEF ReadingInv
  <2>1. /\ scrape' = scrape /\ fields' = fields /\ next' = next /\ acc' = acc
        /\ pc' = "end" /\ outcome' = "ok" /\ timeline' = timeline /\ lora' = {Observation}
    BY <1>5 DEF FinishLora
  <2>2. outcome = "pending" /\ timeline = <<>>
    BY <1>1 DEF ScrapeTypeOK
  <2>3. Plan' = Plan /\ ScrapedInv'
    BY <2>1, OfTheBody
  <2>4. ScrapeTypeOK'
    <3>1. Cardinality(lora') = IF pc' = "end" /\ scrape'.kind = "lora" THEN 1 ELSE 0
      BY <1>1, <2>1, FS_Singleton
    <3>2. next' \in 1..(Len(scrape'.body) + 1) /\ acc' \in Option(0..MaxCount)'
      BY <2>1 DEF ScrapeTypeOK, Option
    <3>3. fields' \in Seq(Option(0..MaxCount))' /\ Len(fields') <= Len(Plan')
      BY <2>1, <2>3 DEF ScrapeTypeOK, Option
    <3> QED BY <2>1, <2>2, <3>1, <3>2, <3>3 DEF ScrapeTypeOK
  <2>5. FieldsInv'
    BY <2>1, OfTheBody DEF FieldsInv
  <2>6. AccInv' /\ KeptInv' /\ FailureHasACause'
    BY <1>1, <2>1, <2>2 DEF AccInv, KeptInv, FailureHasACause
  <2> QED BY <2>3, <2>4, <2>5, <2>6
<1> QED BY <1>3, <1>4, <1>5

\* Nothing happens.
LEMMA StutterKeeps == ASSUME ReadingInv, UNCHANGED scrapeVars PROVE ReadingInv'
<1> USE DEF ReadingInv
<1>1. /\ scrape' = scrape /\ fields' = fields /\ next' = next /\ acc' = acc /\ lora' = lora
      /\ pc' = pc /\ outcome' = outcome /\ timeline' = timeline
  BY DEF scrapeVars
<1>2. Plan' = Plan /\ ScrapedInv'
  BY <1>1, OfTheBody
<1>3. ScrapeTypeOK'
  BY <1>1, <1>2 DEF ScrapeTypeOK, Option
<1>4. FieldsInv'
  BY <1>1, OfTheBody DEF FieldsInv
<1>5. AccInv'
  <2>1. \A j : ReadSoFar(j)' = ReadSoFar(j) /\ SumSoFar(j)' = SumSoFar(j)
    BY <1>1, OfTheBody DEF ReadSoFar, SumSoFar
  <2> QED BY <1>1, <1>2, <2>1, OfTheBody DEF AccInv
<1>6. KeptInv' /\ FailureHasACause'
  BY <1>1, <1>2, OfTheBody DEF KeptInv, FailureHasACause, Complete
<1> QED BY <1>2, <1>3, <1>4, <1>5, <1>6

\* Nothing was read.
LEMMA ReadingInit == ASSUME ScrapeInit PROVE ReadingInv
<1>1. PICK of \in DOMAIN Lines : \E n \in 0..MaxLines[of] : \E lines \in [1..n -> Lines[of]] :
        scrape = [kind |-> of[1], engine |-> of[2], body |-> lines]
  BY DEF ScrapeInit
<1>2. PICK n \in 0..MaxLines[of] : \E lines \in [1..n -> Lines[of]] :
        scrape = [kind |-> of[1], engine |-> of[2], body |-> lines]
  BY <1>1
<1>3. PICK lines \in [1..n -> Lines[of]] :
        scrape = [kind |-> of[1], engine |-> of[2], body |-> lines]
  BY <1>2
<1>4. /\ pc = "fetch" /\ next = 1 /\ acc = {} /\ fields = <<>> /\ outcome = "pending"
      /\ timeline = <<>> /\ lora = {}
  BY DEF ScrapeInit
<1>5. ScrapedInv
  <2>1. n \in Nat /\ of = <<of[1], of[2]>>
    BY ExpositionAssumption
  <2>2. lines \in Seq(Lines[of])
    BY <2>1
  <2> QED BY <1>3, <2>1, <2>2 DEF ScrapedInv
<1>6. ScrapeTypeOK
  <2>1. Len(fields) <= Len(Plan) /\ fields \in Seq(Option(0..MaxCount))
    BY <1>4, <1>5, PlanIsKnown DEF PlanIs
  <2>2. next \in 1..(Len(scrape.body) + 1)
    BY <1>4, <1>5, BodyIsFinite
  <2>3. Cardinality(lora) = 0
    BY <1>4, FS_EmptySet
  <2> QED BY <1>4, <2>1, <2>2, <2>3, OptionOfNone DEF ScrapeTypeOK
<1>7. AccInv
  <2>1. \A j : ReadSoFar(j) = {}
    BY <1>4, <1>5, BodyIsFinite DEF ReadSoFar
  <2> QED BY <2>1, <1>4 DEF AccInv
<1>8. FieldsInv /\ KeptInv /\ FailureHasACause
  BY <1>4 DEF FieldsInv, KeptInv, FailureHasACause
<1> QED BY <1>5, <1>6, <1>7, <1>8 DEF ReadingInv

(* The invariant of the readings: the sum so far is that of the lines read *)
(* so far, each value that was read is what was meant, and a sample is     *)
(* kept once it is whole.                                                  *)
THEOREM ReadingsHold == ScrapeSpec => []ReadingInv
<1>1. ScrapeInit => ReadingInv
  BY ReadingInit
<1>2. ReadingInv /\ [ScrapeNext]_scrapeVars => ReadingInv'
  <2> SUFFICES ASSUME ReadingInv, [ScrapeNext]_scrapeVars PROVE ReadingInv'
    OBVIOUS
  <2>1. CASE FetchFails
    <3>1. pc # "end" /\ Fail("http")
      BY <2>1 DEF FetchFails
    <3> QED BY <3>1, FailKeeps
  <2>2. CASE Fetch
    BY <2>2, FetchKeeps
  <2>3. CASE PassUndeclared
    BY <2>3, PassUndeclaredKeeps
  <2>4. CASE SkipLine
    BY <2>4, SkipLineKeeps
  <2>5. CASE TakeLine
    BY <2>5, TakeLineKeeps
  <2>6. CASE SeriesEnds
    BY <2>6, SeriesEndsKeeps
  <2>7. CASE Finish
    BY <2>7, FinishKeeps
  <2>8. CASE SkipLora \/ TakeLora \/ FinishLora
    BY <2>8, LoraKeepsReading
  <2>9. CASE UNCHANGED scrapeVars
    BY <2>9, StutterKeeps
  <2> QED BY <2>1, <2>2, <2>3, <2>4, <2>5, <2>6, <2>7, <2>8, <2>9 DEF ScrapeNext
<1> QED BY <1>1, <1>2, PTL DEF ScrapeSpec

(* Whatever an engine writes, in whatever order: a scrape that succeeds    *)
(* (parse_series, scrape.rs) read of each series what the engine means for *)
(* the model, and nothing where there is no line.                          *)
THEOREM ReadingsAreMeant == ScrapeSpec => []ReadingIsWhatTheEngineMeant
<1>1. ReadingInv => ReadingIsWhatTheEngineMeant
  BY DEF ReadingInv, FieldsInv, ReadingIsWhatTheEngineMeant
<1> QED BY <1>1, ReadingsHold, PTL

(* A scrape that is refused had cause in the model's own lines.            *)
THEOREM FailuresAreCaused == ScrapeSpec => []FailureHasACause
<1>1. ReadingInv => FailureHasACause
  BY DEF ReadingInv
<1> QED BY <1>1, ReadingsHold, PTL

(* A sample that is kept holds every counter its kind stands for, and each *)
(* is a u64.                                                               *)
THEOREM SamplesAreComplete == ScrapeSpec => []SamplesAreWhole
<1>1. ReadingInv => SamplesAreWhole
  <2> SUFFICES ASSUME ReadingInv, timeline # <<>>, NEW j \in DOMAIN Plan
               PROVE  \/ Meant(j) # {} /\ timeline[1][j] # {}
                      \/ /\ scrape.kind = "phase" /\ scrape.engine = "sglang" /\ j > 2
                         /\ timeline[1][j] = {}
    BY DEF SamplesAreWhole, ReadingInv
  <2>1. timeline[1] = fields /\ j \in DOMAIN fields
    BY PlanIsKnown DEF ReadingInv, ScrapeTypeOK, KeptInv, PlanIs
  <2>2. AsMeant(j, fields[j])
    BY <2>1 DEF ReadingInv, FieldsInv
  <2>3. CASE fields[j] # {}
    BY <2>1, <2>2, <2>3 DEF AsMeant
  <2>4. CASE fields[j] = {}
    <3>1. scrape.kind # "spec" /\ Plan[j].name = {}
      BY <2>1, <2>4 DEF ReadingInv, KeptInv, Complete
    <3>2. PlanFacts(scrape.kind, scrape.engine, j, Plan[j])
      BY PlanIsKnown DEF ReadingInv, PlanIs
    <3> QED BY <2>1, <2>4, <3>1, <3>2 DEF PlanFacts
  <2> QED BY <2>3, <2>4
<1> QED BY <1>1, ReadingsHold, PTL

-----------------------------------------------------------------------------
(* The adapters.  The series that were read are what the lines so far say, *)
(* one each, so that the newest of the series are the newest of the lines. *)

\* The series the LoRA lines say, and the lines read so far.
Parses == UNION {ParseLoraSeries(scrape.body[i]) : i \in LoraLines}

ReadLora == {i \in LoraLines : i < next}

\* The series are what the lines say, one each.
OneEach(lines) ==
  \E f \in Bijection(DOMAIN series, lines) :
    \A t \in DOMAIN series : ParseLoraSeries(scrape.body[f[t]]) = {series[t]}

SeriesInv ==
  scrape.kind = "lora" /\ pc # "end" => series \in Seq(Parses) /\ OneEach(ReadLora)

LoraInv ==
  /\ SeriesInv
  /\ pc # "end" \/ scrape.kind # "lora" => lora = {}
  /\ LoraIsTheNewest

\* The adapters of a line are those its label says.
LEMMA SaysItsAdapters ==
  ASSUME ScrapedInv, NEW i \in LoraLines, NEW running,
         ExtractLabel(scrape.body[i].labels, "running_lora_adapters") = {running}
  PROVE  scrape.body[i].of.running = Names(running)
<1> DEFINE labels == scrape.body[i].labels
           key == "running_lora_adapters"
           at == Starts(labels, key)
           ends == {p \in DOMAIN labels : p > Min(at) /\ labels[p] = "quote"}
<1>1. Written(scrape.body[i]) /\ scrape.body[i].name = "lora_requests_info"
  BY LinesAreWritten DEF LoraLines
<1>2. labels \in Seq(STRING) /\ (\A p, q \in at : p = q) /\ DOMAIN labels = 1..Len(labels)
      /\ Len(labels) \in Nat
  BY <1>1 DEF Written
<1>3. /\ at # {} /\ ends # {} /\ running = SubSeq(labels, Min(at) + 1, Min(ends) - 1)
  BY DEF ExtractLabel
<1>4. Min(at) \in DOMAIN labels
  <2>1. PICK p \in at : at = {p}
    BY <1>2, <1>3
  <2>2. p \in DOMAIN labels /\ p \in Int
    BY <1>2, <2>1 DEF Starts
  <2> QED BY <2>1, <2>2 DEF Min
<1>5. Min(ends) \in ends
  <2>1. IsFiniteSet(1..Len(labels)) /\ ends \in SUBSET (1..Len(labels))
    BY <1>2, FS_Interval
  <2> HIDE DEF ends
  <2>2. IsFiniteSet(ends)
    BY <2>1, FS_Subset
  <2>3. ends \in SUBSET Int
    BY <2>1, <1>2
  <2> QED BY <1>3, <2>2, <2>3, MinIsLeast
<1> DEFINE a == Min(at) + 1
           b == Min(ends) - 1
<1>6. a \in DOMAIN labels /\ b \in DOMAIN labels
  BY <1>2, <1>4, <1>5
<1>7. running \in Seq(STRING)
  <2> HIDE DEF a, b, labels
  <2>1. SubSeq(labels, a, b) \in Seq(STRING)
    BY <1>2, <1>6
  <2> QED BY <2>1, <1>3 DEF a, b
<1>8. Labelled(labels, key, running)
  <2> HIDE DEF labels, key
  <2>1. ExtractLabel(labels, key) = {running}
    BY DEF labels, key
  <2> QED BY <1>2, <1>7, <2>1, ExtractsLabelled
<1> HIDE DEF a, b
<1>9. running = SubSeq(labels, a, b)
  BY <1>3 DEF a, b
<1> QED BY <1>1, <1>6, <1>8, <1>9 DEF Written

\* A LoRA line that can be read says one series.
LEMMA ParsesOne ==
  ASSUME ScrapedInv, NEW i \in LoraLines, ParseLoraSeries(scrape.body[i]) # {}
  PROVE  \E s : /\ ParseLoraSeries(scrape.body[i]) = {s}
                /\ s.value \in Int /\ scrape.body[i].value = {s.value}
                /\ s.running = scrape.body[i].of.running
<1> DEFINE line == scrape.body[i]
           runs == ExtractLabel(line.labels, "running_lora_adapters")
           waits == ExtractLabel(line.labels, "waiting_lora_adapters")
           max == ExtractLabel(line.labels, "max_lora")
           says(r, w, v) ==
             [running |-> Names(r), waiting |-> Names(w), max_lora |-> max, value |-> v]
<1>1. \A key : \A r, w \in ExtractLabel(line.labels, key) : r = w
  BY DEF ExtractLabel
<1>2. \A u, v \in line.value : u \in Int /\ u = v
  BY LinesAreWritten DEF LoraLines, Written
<1>3. /\ runs # {} /\ waits # {} /\ line.value # {}
      /\ ParseLoraSeries(line) = {says(r, w, v) : r \in runs, w \in waits, v \in line.value}
  BY DEF ParseLoraSeries
<1>4. PICK r \in runs, w \in waits, v \in line.value : TRUE
  BY <1>3
<1>5. runs = {r} /\ waits = {w} /\ line.value = {v} /\ v \in Int
  BY <1>1, <1>2, <1>4
<1>6. line.of.running = Names(r)
  <2> HIDE DEF runs
  <2>1. ExtractLabel(scrape.body[i].labels, "running_lora_adapters") = {r}
    BY <1>5 DEF runs
  <2> QED BY <2>1, SaysItsAdapters
<1> DEFINE s == says(r, w, v)
<1>7. ParseLoraSeries(line) = {s}
  <2> HIDE DEF says, runs, waits, line
  <2> QED BY <1>3, <1>5 DEF s
<1>8. s.value = v /\ s.running = Names(r)
  OBVIOUS
<1> HIDE DEF s, says, runs, waits
<1> QED BY <1>5, <1>6, <1>7, <1>8

\* A new series of a new line.
LEMMA OneMoreEach ==
  ASSUME OneEach(ReadLora), series \in Seq(Parses),
         ReadLora' = ReadLora \cup {next}, next \notin ReadLora,
         NEW s, series' = Append(series, s), scrape' = scrape,
         ParseLoraSeries(scrape.body[next]) = {s}
  PROVE  OneEach(ReadLora)'
<1> DEFINE lines == ReadLora
           n == next
<1>1. PICK f \in Bijection(DOMAIN series, lines) :
        \A t \in DOMAIN series : ParseLoraSeries(scrape.body[f[t]]) = {series[t]}
  BY DEF OneEach
<1> DEFINE len == Len(series)
           g == [t \in 1..(len + 1) |-> IF t = len + 1 THEN n ELSE f[t]]
<1>2. /\ len \in Nat /\ DOMAIN series = 1..len /\ DOMAIN series' = 1..(len + 1)
      /\ series'[len + 1] = s /\ \A t \in 1..len : series'[t] = series[t]
  OBVIOUS
<1>3. /\ f \in [1..len -> lines] /\ (\A a, b \in 1..len : f[a] = f[b] => a = b)
      /\ \A k \in lines : \E t \in 1..len : f[t] = k
  BY <1>1, <1>2 DEF Bijection, Injection, IsInjective, Surjection
<1> HIDE DEF len
<1>4. \A t \in 1..(len + 1) : t = len + 1 \/ (t \in 1..len /\ t # len + 1)
  BY <1>2
<1>5. g \in [1..(len + 1) -> lines \cup {n}]
  BY <1>3, <1>4
<1>6. \A a, b \in 1..(len + 1) : g[a] = g[b] => a = b
  BY <1>3, <1>4
<1>7. \A k \in lines \cup {n} : \E t \in 1..(len + 1) : g[t] = k
  <2>1. len + 1 \in 1..(len + 1) /\ 1..len \subseteq 1..(len + 1) /\ \A t \in 1..len : t # len + 1
    BY <1>2
  <2> QED BY <2>1, <1>3
<1>8. g \in Bijection(1..(len + 1), lines \cup {n})
  <2> HIDE DEF g
  <2>1. DOMAIN g = 1..(len + 1)
    BY <1>5
  <2> QED BY <1>5, <1>6, <1>7, <2>1 DEF Bijection, Injection, IsInjective, Surjection
<1>9. \A t \in 1..(len + 1) : ParseLoraSeries(scrape.body[g[t]]) = {series'[t]}
  BY <1>1, <1>2, <1>4
<1>10. \A line : ParseLoraSeries(line)' = ParseLoraSeries(line)
  BY DEF ParseLoraSeries
<1> HIDE DEF g
<1>11. \A t \in DOMAIN series' : ParseLoraSeries(scrape'.body[g[t]]) = {series'[t]}
  BY <1>2, <1>9
<1>12. g \in Bijection(DOMAIN series', lines \cup {n})
  BY <1>2, <1>8
<1>13. g \in Bijection(DOMAIN series', ReadLora')
  BY <1>12
<1> QED BY <1>11, <1>13 DEF OneEach

\* What is known of the series once all lines were read.
LEMMA NewestOfAll ==
  ASSUME ScrapedInv, series \in Seq(Parses), series # <<>>,
         NEW f \in Bijection(DOMAIN series, LoraLines),
         \A t \in DOMAIN series : ParseLoraSeries(scrape.body[f[t]]) = {series[t]}
  PROVE  /\ Newest \in Int /\ Top # {} /\ Top \subseteq DOMAIN series /\ IsFiniteSet(Top)
         /\ \A t \in DOMAIN series :
              /\ f[t] \in LoraLines /\ series[t].value \in Int /\ series[t].value <= Newest
              /\ scrape.body[f[t]].value = {series[t].value}
              /\ Max(scrape.body[f[t]].value) = series[t].value
              /\ series[t].running = scrape.body[f[t]].of.running
         /\ \A t \in DOMAIN series : t \in Top <=> series[t].value = Newest
         /\ \A k \in LoraLines : \E t \in DOMAIN series : f[t] = k
         /\ \A a, b \in DOMAIN series : f[a] = f[b] => a = b
<1>1. /\ f \in [DOMAIN series -> LoraLines] /\ (\A a, b \in DOMAIN series : f[a] = f[b] => a = b)
      /\ \A k \in LoraLines : \E t \in DOMAIN series : f[t] = k
  BY DEF Bijection, Injection, IsInjective, Surjection
<1>2. ASSUME NEW t \in DOMAIN series
      PROVE  /\ f[t] \in LoraLines /\ series[t].value \in Int
             /\ scrape.body[f[t]].value = {series[t].value}
             /\ series[t].running = scrape.body[f[t]].of.running
  <2>1. f[t] \in LoraLines /\ ParseLoraSeries(scrape.body[f[t]]) = {series[t]}
    BY <1>1
  <2> DEFINE i == f[t]
  <2>2. i \in LoraLines /\ ParseLoraSeries(scrape.body[i]) = {series[t]}
    BY <2>1
  <2> HIDE DEF i
  <2>3. PICK s : /\ ParseLoraSeries(scrape.body[i]) = {s}
                 /\ s.value \in Int /\ scrape.body[i].value = {s.value}
                 /\ s.running = scrape.body[i].of.running
    BY <2>2, ParsesOne
  <2>4. s = series[t]
    BY <2>2, <2>3
  <2> QED BY <2>1, <2>3, <2>4 DEF i
<1> DEFINE len == Len(series)
           values == {series[t].value : t \in DOMAIN series}
<1>3. len \in Nat /\ DOMAIN series = 1..len /\ len # 0
  OBVIOUS
<1>4. IsFiniteSet(DOMAIN series)
  <2> HIDE DEF len
  <2> QED BY <1>3, FS_Interval
<1>5. values \in SUBSET Int /\ values # {} /\ IsFiniteSet(values)
  <2>1. values \in SUBSET Int /\ values # {}
    BY <1>2, <1>3
  <2>2. IsFiniteSet(values)
    <3> DEFINE g == [t \in DOMAIN series |-> series[t].value]
    <3>1. g \in Surjection(DOMAIN series, values)
      BY DEF Surjection
    <3> HIDE DEF g, values
    <3> QED BY <1>4, <3>1, FS_Surjection
  <2> QED BY <2>1, <2>2
<1>6. Newest \in values /\ \A v \in values : v <= Newest
  <2>1. Newest = Max(values)
    BY DEF Newest
  <2> HIDE DEF values
  <2> QED BY <1>5, <2>1, MaxIsGreatest
<1>7. Top # {} /\ Top \in SUBSET DOMAIN series /\ Newest \in Int
  BY <1>5, <1>6 DEF Top
<1>8. IsFiniteSet(Top)
  BY <1>4, <1>7, FS_Subset
<1>9. \A x \in Int : Max({x}) = x
  <2> SUFFICES ASSUME NEW x \in Int PROVE Max({x}) = x
    OBVIOUS
  <2>1. IsFiniteSet({x}) /\ {x} \in SUBSET Int /\ {x} # {}
    BY FS_Singleton
  <2> QED BY <2>1, MaxIsGreatest
<1>10. \A t \in DOMAIN series : t \in Top <=> series[t].value = Newest
  BY DEF Top
<1>11. \A t \in DOMAIN series : Max(scrape.body[f[t]].value) = series[t].value
  BY <1>2, <1>9
<1>12. \A t \in DOMAIN series : series[t].value <= Newest
  BY <1>6
<1> QED BY <1>1, <1>2, <1>7, <1>8, <1>10, <1>11, <1>12

\* What depends on the body and the series alone does not change.
LEMMA OfTheLora ==
  ASSUME scrape' = scrape
  PROVE  /\ LoraLines' = LoraLines /\ Parses' = Parses
         /\ series' = series => \A lines : OneEach(lines)' = OneEach(lines)
         /\ next' = next => ReadLora' = ReadLora
         /\ \A value : LinesAt(value)' = LinesAt(value)
<1>1. LoraLines' = LoraLines
  BY DEF LoraLines
<1>2. \A line : ParseLoraSeries(line)' = ParseLoraSeries(line)
  BY DEF ParseLoraSeries
<1>3. Parses' = Parses
  BY <1>1, <1>2 DEF Parses
<1>4. series' = series => \A lines : OneEach(lines)' = OneEach(lines)
  BY <1>2 DEF OneEach
<1>5. next' = next => ReadLora' = ReadLora
  BY <1>1 DEF ReadLora
<1>6. \A value : LinesAt(value)' = LinesAt(value)
  BY <1>1 DEF LinesAt
<1> QED BY <1>1, <1>3, <1>4, <1>5, <1>6

\* The other kinds of scrape observe no adapters.
LEMMA OtherKeepsLora ==
  ASSUME scrape' = scrape, scrape.kind # "lora", lora' = {}
  PROVE  LoraInv'
BY DEF LoraInv, SeriesInv, LoraIsTheNewest

\* A read that fails is told as one.
LEMMA FailKeepsLora ==
  ASSUME ScrapedInv, LoraInv, NEW error, Fail(error),
         error = "http" \/ \E i \in LoraLines : ParseLoraSeries(scrape.body[i]) = {}
  PROVE  LoraInv'
<1>1. scrape' = scrape /\ pc' = "end" /\ outcome' = error
      /\ lora' = IF scrape.kind = "lora" THEN {[found |-> "read_failed"]} ELSE {}
  BY DEF Fail
<1>2. CASE scrape.kind # "lora"
  BY <1>1, <1>2, OtherKeepsLora
<1>3. CASE scrape.kind = "lora"
  <2>1. SeriesInv' /\ lora' = {[found |-> "read_failed"]}
    BY <1>1, <1>3 DEF SeriesInv
  <2>2. LoraLines' = LoraLines
    BY <1>1, OfTheLora
  <2>3. LoraIsTheNewest'
    BY <1>1, <2>1, <2>2 DEF LoraIsTheNewest
  <2> QED BY <1>1, <1>3, <2>1, <2>3 DEF LoraInv
<1> QED BY <1>2, <1>3

\* A step that reads no series.
LEMMA NoSeriesKeepsLora ==
  ASSUME LoraInv, scrape.kind = "lora", pc # "end", scrape' = scrape, series' = series,
         ReadLora' = ReadLora, lora' = lora, pc' # "end"
  PROVE  LoraInv'
<1>1. lora' = {} /\ series \in Seq(Parses) /\ OneEach(ReadLora)
  BY DEF LoraInv, SeriesInv
<1>2. Parses' = Parses /\ \A lines : OneEach(lines)' = OneEach(lines)
  BY OfTheLora
<1>3. SeriesInv'
  BY <1>1, <1>2 DEF SeriesInv
<1>4. LoraIsTheNewest'
  BY <1>1 DEF LoraIsTheNewest
<1> QED BY <1>1, <1>3, <1>4 DEF LoraInv

\* The LoRA lines read once the next line is.
LEMMA OneMoreLora ==
  ASSUME ReadingInv, pc = "line", next <= Len(scrape.body), Advance
  PROVE  /\ next \notin LoraLines => ReadLora' = ReadLora
         /\ next \in LoraLines => ReadLora' = ReadLora \cup {next}
         /\ next \notin ReadLora
<1>1. scrape' = scrape /\ next' = next + 1
  BY DEF Advance
<1>2. next \in Nat /\ LoraLines \subseteq Nat
  <2>1. Len(scrape.body) \in Nat /\ DOMAIN scrape.body = 1..Len(scrape.body)
    BY BodyIsFinite DEF ReadingInv
  <2> QED BY <2>1 DEF ReadingInv, ScrapeTypeOK, LoraLines
<1>3. LoraLines' = LoraLines
  BY <1>1, OfTheLora
<1>4. ReadLora' = {i \in LoraLines : i < next + 1}
  BY <1>1, <1>3 DEF ReadLora
<1> DEFINE before == {i \in LoraLines : i < next}
           upTo == {i \in LoraLines : i < next + 1}
<1>8. \A i \in LoraLines : i < next + 1 <=> i < next \/ i = next
  BY <1>2
<1>5. next \notin LoraLines => upTo = before
  BY <1>8
<1>6. next \in LoraLines => upTo = before \cup {next}
  BY <1>8
<1>7. next \notin {i \in LoraLines : i < next}
  BY <1>2
<1> QED BY <1>4, <1>5, <1>6, <1>7 DEF ReadLora

\* A line that is skipped is none of LoRA.
LEMMA SkipLoraKeeps == ASSUME ReadingInv, LoraInv, SkipLora PROVE LoraInv'
<1>1. /\ pc = "line" /\ scrape.kind = "lora" /\ next <= Len(scrape.body) /\ Advance
      /\ series' = series /\ scrape' = scrape /\ lora' = lora /\ pc' = pc
  BY DEF SkipLora, ReadsLora, Advance
<1>2. next \notin LoraLines
  BY DEF SkipLora, LoraLines, Line, SplitLine
<1>3. ReadLora' = ReadLora
  BY <1>1, <1>2, OneMoreLora
<1> QED BY <1>1, <1>3, NoSeriesKeepsLora

\* A line that is taken says a series more, or cannot be read.
LEMMA TakeLoraKeeps == ASSUME ReadingInv, LoraInv, TakeLora PROVE LoraInv'
<1> DEFINE parsed == ParseLoraSeries(Line)
<1>1. /\ pc = "line" /\ scrape.kind = "lora" /\ next <= Len(scrape.body)
      /\ IF parsed = {} THEN Fail("parse")
         ELSE Advance /\ series' = Append(series, CHOOSE s \in parsed : TRUE) /\ UNCHANGED acc
  BY DEF TakeLora, ReadsLora
<1>2. next \in LoraLines /\ parsed = ParseLoraSeries(scrape.body[next]) /\ ScrapedInv
  <2>1. next \in DOMAIN scrape.body
    BY <1>1, BodyIsFinite DEF ReadingInv, ScrapeTypeOK
  <2> QED BY <2>1 DEF TakeLora, LoraLines, Line, SplitLine, ReadingInv
<1>3. CASE parsed = {}
  BY <1>1, <1>2, <1>3, FailKeepsLora
<1>4. CASE parsed # {}
  <2>1. PICK s : parsed = {s}
    BY <1>2, <1>4, ParsesOne
  <2> HIDE DEF parsed
  <2>2. /\ Advance /\ series' = Append(series, s) /\ scrape' = scrape /\ lora' = lora /\ pc' = pc
    BY <1>1, <1>4, <2>1 DEF Advance
  <2>3. ReadLora' = ReadLora \cup {next} /\ next \notin ReadLora
    BY <1>1, <1>2, <2>2, OneMoreLora
  <2>4. series \in Seq(Parses) /\ OneEach(ReadLora) /\ lora = {}
    BY <1>1 DEF LoraInv, SeriesInv
  <2>5. OneEach(ReadLora)'
    BY <1>2, <2>1, <2>2, <2>3, <2>4, OneMoreEach
  <2>6. series' \in Seq(Parses)'
    <3>1. s \in Parses
      BY <1>2, <2>1 DEF Parses
    <3>2. Parses' = Parses
      BY <2>2, OfTheLora
    <3> QED BY <2>2, <2>4, <3>1, <3>2
  <2> QED BY <1>1, <2>2, <2>4, <2>5, <2>6 DEF LoraInv, SeriesInv, LoraIsTheNewest
<1> QED BY <1>3, <1>4

\* The newest of all series is reported, or the tie of those that are.
LEMMA FinishLoraKeeps == ASSUME ReadingInv, LoraInv, FinishLora PROVE LoraInv'
<1>1. /\ pc = "line" /\ scrape.kind = "lora" /\ next > Len(scrape.body) /\ scrape' = scrape
      /\ pc' = "end" /\ outcome' = "ok" /\ lora' = {Observation}
  BY DEF FinishLora, ReadsLora
<1>2. series \in Seq(Parses) /\ OneEach(ReadLora)
  BY <1>1 DEF LoraInv, SeriesInv
<1>3. ReadLora = LoraLines
  BY <1>1, BodyIsFinite DEF ReadingInv, ScrapeTypeOK, ReadLora, LoraLines
<1>4. LoraLines' = LoraLines
  BY <1>1, OfTheLora
<1>5. PICK f \in Bijection(DOMAIN series, LoraLines) :
        \A t \in DOMAIN series : ParseLoraSeries(scrape.body[f[t]]) = {series[t]}
  BY <1>2, <1>3 DEF OneEach
<1>6. f \in [DOMAIN series -> LoraLines] /\ \A k \in LoraLines : \E t \in DOMAIN series : f[t] = k
  BY DEF Bijection, Surjection
<1>7. outcome' = "ok" /\ \A k \in LoraLines' : ParseLoraSeries(scrape'.body[k]) # {}
  <2>1. \A k \in LoraLines : ParseLoraSeries(scrape.body[k]) # {}
    BY <1>5, <1>6
  <2> QED BY <1>1, <1>4, <2>1
<1>8. CASE series = <<>>
  <2>1. LoraLines = {}
    BY <1>6, <1>8
  <2>2. lora' = {[found |-> "no_series"]}
    BY <1>1, <1>8 DEF Observation
  <2> QED BY <1>1, <1>4, <1>7, <2>1, <2>2 DEF LoraInv, SeriesInv, LoraIsTheNewest
<1>9. CASE series # <<>> /\ \E i \in Top : Top = {i}
  <2>1. PICK i \in Top : Top = {i}
    BY <1>9
  <2>2. lora' = {[found |-> "latest", series |-> series[i]]}
    BY <1>1, <1>9, <2>1 DEF Observation
  <2>3. i \in DOMAIN series /\ f[i] \in LoraLines
        /\ scrape.body[f[i]].value = {series[i].value}
        /\ series[i].running = scrape.body[f[i]].of.running
    BY <1>2, <1>5, <1>9, NewestOfAll DEF ReadingInv
  <2>4. ASSUME NEW k \in LoraLines, k # f[i]
        PROVE  Max(scrape.body[k].value) < series[i].value
    <3>1. PICK t \in DOMAIN series : f[t] = k
      BY <1>6
    <3>2. /\ Max(scrape.body[k].value) = series[t].value /\ series[t].value \in Int
          /\ series[t].value <= Newest /\ Newest \in Int
          /\ (t \in Top <=> series[t].value = Newest) /\ (i \in Top <=> series[i].value = Newest)
      BY <1>2, <1>5, <1>9, <2>3, <3>1, NewestOfAll DEF ReadingInv
    <3> QED BY <2>1, <2>4, <3>1, <3>2
  <2>5. LoraIsTheNewest'
    <3> DEFINE o == [found |-> "latest", series |-> series[i]]
    <3>1. o.found = "latest" /\ o.series = series[i]
      OBVIOUS
    <3> HIDE DEF o
    <3>2. lora' = {o}
      BY <2>2 DEF o
    <3>3. \E k \in LoraLines' :
            /\ scrape'.body[k].value = {o.series.value}
            /\ o.series.running = scrape'.body[k].of.running
            /\ \A m \in LoraLines' \ {k} : Max(scrape'.body[m].value) < o.series.value
      BY <1>1, <1>4, <2>3, <2>4, <3>1
    <3> QED BY <1>7, <3>1, <3>2, <3>3 DEF LoraIsTheNewest
  <2> QED BY <1>1, <2>5 DEF LoraInv, SeriesInv
<1>10. CASE series # <<>> /\ ~\E i \in Top : Top = {i}
  <2> DEFINE candidates == Restrict(series, Top)
             o == [found |-> "tie", candidates |-> candidates]
             top == LinesAt(Newest)
  <2>1. lora' = {o} /\ o.found = "tie" /\ o.candidates = candidates
    BY <1>1, <1>10 DEF Observation
  <2>2. /\ Newest \in Int /\ Top # {} /\ Top \subseteq DOMAIN series /\ IsFiniteSet(Top)
        /\ \A t \in DOMAIN series :
             /\ f[t] \in LoraLines /\ series[t].value \in Int /\ series[t].value <= Newest
             /\ scrape.body[f[t]].value = {series[t].value}
             /\ Max(scrape.body[f[t]].value) = series[t].value
        /\ \A t \in DOMAIN series : t \in Top <=> series[t].value = Newest
        /\ \A a, b \in DOMAIN series : f[a] = f[b] => a = b
    BY <1>2, <1>5, <1>10, NewestOfAll DEF ReadingInv
  <2>3. DOMAIN candidates = Top /\ \A t \in Top : candidates[t] = series[t]
    BY DEF Restrict
  <2> HIDE DEF candidates
  <2>4. Range(candidates) = {series[t] : t \in Top}
    BY <2>3 DEF Range
  <2>5. (\A c \in Range(candidates) : c.value = Newest)
        /\ Newest \in {c.value : c \in Range(candidates)}
    BY <2>2, <2>4
  <2>6. \A k \in LoraLines \ top : Max(scrape.body[k].value) < Newest
    <3> SUFFICES ASSUME NEW k \in LoraLines \ top PROVE Max(scrape.body[k].value) < Newest
      OBVIOUS
    <3>1. PICK t \in DOMAIN series : f[t] = k
      BY <1>6
    <3>2. series[t].value # Newest
      BY <2>2, <3>1 DEF LinesAt
    <3> QED BY <2>2, <3>1, <3>2
  <2>7. Cardinality(top) = Cardinality(Top)
    <3> DEFINE g == [t \in Top |-> f[t]]
    <3>1. \A t \in Top : f[t] \in top
      BY <2>2 DEF LinesAt
    <3>2. \A k \in top : \E t \in Top : f[t] = k
      <4> SUFFICES ASSUME NEW k \in top PROVE \E t \in Top : f[t] = k
        OBVIOUS
      <4>1. PICK t \in DOMAIN series : f[t] = k
        BY <1>6 DEF LinesAt
      <4>2. {series[t].value} = {Newest}
        BY <2>2, <4>1 DEF LinesAt
      <4>3. series[t].value = Newest
        BY <4>2
      <4> QED BY <2>2, <4>1, <4>3
    <3>3. g \in [Top -> top] /\ DOMAIN g = Top
      BY <3>1
    <3>4. \A a, b \in Top : g[a] = g[b] => a = b
      BY <2>2
    <3>5. \A k \in top : \E t \in Top : g[t] = k
      BY <3>2
    <3> HIDE DEF g, top
    <3>6. g \in Bijection(Top, top)
      BY <3>3, <3>4, <3>5 DEF Bijection, Injection, IsInjective, Surjection
    <3>7. ExistsBijection(Top, top)
      BY <3>6 DEF ExistsBijection
    <3> QED BY <2>2, <3>7, FS_Bijection
  <2>8. Cardinality(Top) > 1
    <3>1. Cardinality(Top) \in Nat
      BY <2>2, FS_CardinalityType
    <3>2. Cardinality(Top) # 0
      BY <2>2, FS_EmptySet
    <3>3. Cardinality(Top) # 1
      BY <2>2, <1>10, FS_Singleton
    <3> QED BY <3>1, <3>2, <3>3
  <2>9. LoraIsTheNewest'
    <3>1. PICK newest : newest = Newest
      OBVIOUS
    <3>2. LinesAt(newest)' = top
      BY <1>1, <3>1, OfTheLora
    <3>3. /\ newest \in {c.value : c \in Range(o.candidates)}
          /\ \A c \in Range(o.candidates) : c.value = newest
          /\ Cardinality(LinesAt(newest)') = Cardinality(DOMAIN o.candidates)
          /\ Cardinality(LinesAt(newest)') > 1
          /\ \A k \in LoraLines' \ LinesAt(newest)' : Max(scrape'.body[k].value) < newest
      <4> HIDE DEF top, o
      <4> QED BY <1>1, <1>4, <2>1, <2>3, <2>5, <2>6, <2>7, <2>8, <3>1, <3>2
    <3>4. lora' = {o} /\ o.found = "tie"
      BY <2>1
    <3> HIDE DEF o, top
    <3> QED BY <1>7, <3>3, <3>4 DEF LoraIsTheNewest
  <2> QED BY <1>1, <2>9 DEF LoraInv, SeriesInv
<1> QED BY <1>8, <1>9, <1>10

\* No adapters were observed.
LEMMA LoraInit == ASSUME ScrapeInit PROVE LoraInv
<1>1. ScrapedInv
  BY ReadingInit DEF ReadingInv
<1>2. lora = {} /\ series = <<>> /\ next = 1
  BY DEF ScrapeInit
<1>3. ReadLora = {}
  BY <1>1, <1>2, BodyIsFinite DEF ReadLora, LoraLines
<1>4. OneEach({})
  <2>1. <<>> \in Bijection(DOMAIN series, {})
    BY <1>2 DEF Bijection, Injection, IsInjective, Surjection
  <2> QED BY <1>2, <2>1 DEF OneEach
<1> QED BY <1>2, <1>3, <1>4 DEF LoraInv, SeriesInv, LoraIsTheNewest

\* Every step keeps what is observed of the adapters true.
LEMMA LoraNext == ASSUME ReadingInv, LoraInv, [ScrapeNext]_scrapeVars PROVE LoraInv'
<1>1. CASE FetchFails
  BY <1>1, FailKeepsLora DEF FetchFails, ReadingInv
<1>2. CASE Fetch
  <2>1. /\ scrape' = scrape /\ series' = series /\ next' = next /\ lora' = lora
        /\ pc = "fetch" /\ pc' = "line"
    BY <1>2 DEF Fetch
  <2>2. lora = {} /\ ReadLora' = ReadLora
    BY <2>1, OfTheLora DEF LoraInv
  <2> QED BY <2>1, <2>2, NoSeriesKeepsLora, OtherKeepsLora
<1>3. CASE PassUndeclared \/ SkipLine \/ TakeLine \/ SeriesEnds \/ Finish
  <2>1. scrape' = scrape /\ scrape.kind # "lora"
    BY <1>3 DEF PassUndeclared, SkipLine, TakeLine, SeriesEnds, Finish,
      ReadsOn, Keep, Fail, Advance
  <2>2. lora = {}
    BY <2>1 DEF LoraInv
  <2>3. lora' = {}
    BY <1>3, <2>1, <2>2 DEF PassUndeclared, SkipLine, TakeLine, SeriesEnds, Finish,
      Keep, Fail, Advance
  <2> QED BY <2>1, <2>3, OtherKeepsLora
<1>4. CASE SkipLora
  BY <1>4, SkipLoraKeeps
<1>5. CASE TakeLora
  BY <1>5, TakeLoraKeeps
<1>6. CASE FinishLora
  BY <1>6, FinishLoraKeeps
<1>7. CASE UNCHANGED scrapeVars
  <2>1. /\ scrape' = scrape /\ series' = series /\ next' = next /\ lora' = lora /\ pc' = pc
        /\ outcome' = outcome
    BY <1>7 DEF scrapeVars
  <2>2. ReadLora' = ReadLora /\ LoraLines' = LoraLines /\ Parses' = Parses
        /\ \A lines : OneEach(lines)' = OneEach(lines)
    BY <2>1, OfTheLora
  <2>3. SeriesInv'
    BY <2>1, <2>2 DEF LoraInv, SeriesInv
  <2>4. LoraIsTheNewest'
    BY <2>1, <2>2, OfTheLora DEF LoraInv, LoraIsTheNewest
  <2> QED BY <2>1, <2>3, <2>4 DEF LoraInv
<1> QED BY <1>1, <1>2, <1>3, <1>4, <1>5, <1>6, <1>7 DEF ScrapeNext

(* However many LoRA series a body holds, in whatever order: the one       *)
(* reported is the newest, a tie holds all of the newest, and a body with  *)
(* a series that cannot be read tells of none (parse_lora,                 *)
(* scrape_lora_once).                                                      *)
THEOREM NewestIsReported == ScrapeSpec => []LoraIsTheNewest
<1>1. ScrapeInit => LoraInv
  BY LoraInit
<1>2. ReadingInv /\ ReadingInv' /\ LoraInv /\ [ScrapeNext]_scrapeVars => LoraInv'
  BY LoraNext
<1>3. LoraInv => LoraIsTheNewest
  BY DEF LoraInv
<1> QED BY <1>1, <1>2, <1>3, ReadingsHold, PTL DEF ScrapeSpec
=============================================================================
