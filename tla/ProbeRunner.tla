---------------------------- MODULE ProbeRunner ----------------------------
(***************************************************************************)
(* The streaming probe (is-probe, runner.rs: run).  The engine's body      *)
(* arrives in chunks cut anywhere; each is pushed into the line decoder,   *)
(* whose complete lines are read until one completes or breaks the stream. *)
(* Time is the run's clock, which main started before the probe; the probe *)
(* stamps against an instant of its own, taken before the request leaves.  *)
(***************************************************************************)
EXTENDS SseStream

CONSTANTS
  Bodies,     \* the bodies an engine may send
  MaxTime     \* bound on the clock

\* A connection may close before any byte of the body.
ASSUME ProbeAssumption ==
  /\ Bodies \subseteq Seq(Symbols) /\ <<>> \in Bodies
  /\ MaxTime \in Nat

VARIABLES
  engine,     \* what the engine answers: status, error body, body
  now,        \* the run's clock
  pc,         \* where run() is
  origin,     \* the probe's `start`
  sent,       \* history: when the request left
  wire,       \* the part of the body that has not arrived
  buf,        \* LineDecoder.buf
  tokens,     \* [elapsed, at]: the stamp, and the arrival on the run's clock
  finished,   \* the engine signalled completion
  total,      \* total_ns
  result      \* of run(): "pending", "ok" or the error

vars == <<engine, now, pc, origin, sent, wire, buf, tokens, finished, total, result>>

\* The error body is short, or longer than 512 bytes with a character that
\* ends at byte 512 ("long") or lies across it ("long_across").
Answers ==
  [status : {"success"}, error_body : {"none"}, body : Bodies]
    \cup [ status : {"error"}, error_body : {"short", "long", "long_across", "unreadable"},
           body : {<<>>} ]

Init ==
  /\ engine \in Answers
  /\ now = 0
  /\ pc = "start"
  /\ origin = 0
  /\ sent = 0
  /\ wire = engine.body
  /\ buf = <<>>
  /\ tokens = <<>>
  /\ finished = FALSE
  /\ total = 0
  /\ result = "pending"

TokenArrivals == [elapsed : 0..MaxTime, at : 0..MaxTime]

Results ==
  {"pending", "ok", "truncated", "malformed", "transport", "http_status", "panicked"}

Return(r) == pc' = "end" /\ result' = r

-----------------------------------------------------------------------------
Dispatch ==
  /\ pc = "start"
  /\ pc' = "sent"
  /\ origin' = now
  /\ sent' = now
  /\ UNCHANGED <<engine, now, wire, buf, tokens, finished, total, result>>

\* The request cannot be sent, or the connection breaks between two chunks.
TransportFails ==
  /\ pc \in {"sent", "receive"}
  /\ Return("transport")
  /\ UNCHANGED <<engine, now, origin, sent, wire, buf, tokens, finished, total>>

\* Mutant: the reference instant is taken when the answer's head is there.
AcceptAndStartClock ==
  /\ pc = "sent"
  /\ engine.status = "success"
  /\ pc' = "receive"
  /\ origin' = now
  /\ UNCHANGED <<engine, now, sent, wire, buf, tokens, finished, total, result>>

Accept ==
  /\ pc = "sent"
  /\ engine.status = "success"
  /\ pc' = "receive"
  /\ UNCHANGED <<engine, now, origin, sent, wire, buf, tokens, finished, total, result>>

\* The body is quoted up to byte 512, which must not lie in a character.
RefuseStatus ==
  /\ pc = "sent"
  /\ engine.status = "error"
  /\ Return(IF engine.error_body = "long_across" THEN "panicked" ELSE "http_status")
  /\ UNCHANGED <<engine, now, origin, sent, wire, buf, tokens, finished, total>>

\* Mutant: a chunk replaces what the decoder held.
ReceiveChunkReplaces ==
  /\ pc = "receive"
  /\ \E n \in 1..Len(wire) :
       /\ buf' = SubSeq(wire, 1, n)
       /\ wire' = SubSeq(wire, n + 1, Len(wire))
  /\ pc' = "decode"
  /\ UNCHANGED <<engine, now, origin, sent, tokens, finished, total, result>>

ReceiveChunk ==
  /\ pc = "receive"
  /\ \E n \in 1..Len(wire) :
       /\ buf' = buf \o SubSeq(wire, 1, n)
       /\ wire' = SubSeq(wire, n + 1, Len(wire))
  /\ pc' = "decode"
  /\ UNCHANGED <<engine, now, origin, sent, tokens, finished, total, result>>

StreamEnds ==
  /\ pc = "receive"
  /\ wire = <<>>
  /\ pc' = "flush"
  /\ UNCHANGED <<engine, now, origin, sent, wire, buf, tokens, finished, total, result>>

Stamp(line) ==
  tokens' = IF Meaning(line) = "token"
            THEN Append(tokens, [elapsed |-> now - origin, at |-> now])
            ELSE tokens

\* Mutant: one line is read for each chunk.
DecodeLineOncePerChunk ==
  /\ pc = "decode"
  /\ LineEnds(buf) # {}
  /\ LET m == Meaning(FirstLine(buf)) IN
     /\ IF m = "malformed" THEN Return(m)
        ELSE /\ pc' = IF m = "completion" THEN "total" ELSE "receive"
             /\ UNCHANGED result
     /\ finished' = (m = "completion")
  /\ Stamp(FirstLine(buf))
  /\ buf' = PastFirstLine(buf)
  /\ UNCHANGED <<engine, now, origin, sent, wire, total>>

\* Mutant: completion leaves the inner loop only.
DecodeLineReadsOn ==
  /\ pc = "decode"
  /\ LineEnds(buf) # {}
  /\ LET m == Meaning(FirstLine(buf)) IN
     /\ IF m = "malformed" THEN Return(m)
        ELSE /\ pc' = IF m = "completion" THEN "receive" ELSE "decode"
             /\ UNCHANGED result
     /\ finished' = (m = "completion")
  /\ Stamp(FirstLine(buf))
  /\ buf' = PastFirstLine(buf)
  /\ UNCHANGED <<engine, now, origin, sent, wire, total>>

DecodeLine ==
  /\ pc = "decode"
  /\ LineEnds(buf) # {}
  /\ LET m == Meaning(FirstLine(buf)) IN
     /\ IF m = "malformed" THEN Return(m)
        ELSE /\ pc' = IF m = "completion" THEN "total" ELSE "decode"
             /\ UNCHANGED result
     /\ finished' = (m = "completion")
  /\ Stamp(FirstLine(buf))
  /\ buf' = PastFirstLine(buf)
  /\ UNCHANGED <<engine, now, origin, sent, wire, total>>

NoLineLeft ==
  /\ pc = "decode"
  /\ LineEnds(buf) = {}
  /\ pc' = "receive"
  /\ UNCHANGED <<engine, now, origin, sent, wire, buf, tokens, finished, total, result>>

\* Mutant: what follows the last newline is thrown away.
FlushNothing ==
  /\ pc = "flush"
  /\ pc' = "total"
  /\ buf' = <<>>
  /\ UNCHANGED <<engine, now, origin, sent, wire, tokens, finished, total, result>>

\* decoder.finish(): only bytes that are not UTF-8 are an error here.
Flush ==
  /\ pc = "flush"
  /\ LET rest == StripCr(buf) IN
     /\ IF "bad" \in {rest[i] : i \in DOMAIN rest}
        THEN Return("malformed")
        ELSE pc' = "total" /\ UNCHANGED result
     /\ finished' = (Meaning(rest) = "completion")
     /\ Stamp(rest)
  /\ buf' = <<>>
  /\ UNCHANGED <<engine, now, origin, sent, wire, total>>

\* Mutant: the difference is taken the wrong way round.
FinishNegated ==
  /\ pc = "total"
  /\ total' = origin - now
  /\ Return(IF finished THEN "ok" ELSE "truncated")
  /\ UNCHANGED <<engine, now, origin, sent, wire, buf, tokens, finished>>

Finish ==
  /\ pc = "total"
  /\ total' = now - origin
  /\ Return(IF finished THEN "ok" ELSE "truncated")
  /\ UNCHANGED <<engine, now, origin, sent, wire, buf, tokens, finished>>

\* Time passes, also while the run goes on after the probe.
Tick ==
  /\ now < MaxTime
  /\ now' = now + 1
  /\ UNCHANGED <<engine, pc, origin, sent, wire, buf, tokens, finished, total, result>>

Local == DecodeLine \/ NoLineLeft \/ Flush \/ Finish

Next ==
  \/ Dispatch \/ TransportFails \/ Accept \/ RefuseStatus
  \/ ReceiveChunk \/ StreamEnds
  \/ Local
  \/ Tick

(* The task runs whenever it has something to read.  Nothing is assumed of *)
(* the engine: it may stall for ever, and the client has no timeout.       *)
Spec == Init /\ [][Next]_vars /\ WF_vars(Local)

-----------------------------------------------------------------------------
TypeOK ==
  /\ engine \in Answers
  /\ now \in 0..MaxTime
  /\ pc \in {"start", "sent", "receive", "decode", "flush", "total", "end"}
  /\ origin \in 0..MaxTime /\ sent \in 0..MaxTime
  /\ wire \in Seq(Symbols) /\ buf \in Seq(Symbols)
  /\ tokens \in Seq(TokenArrivals)
  /\ finished \in BOOLEAN
  /\ total \in 0..MaxTime
  /\ result \in Results
  /\ (pc = "end") = (result # "pending")

\* A body read at once: its lines, by the newline that ends each.
LineAt(body, e) ==
  StripCr(SubSeq(body, Max({0} \cup {x \in LineEnds(body) : x < e}) + 1, e - 1))

Rest(body) == StripCr(SubSeq(body, Max({0} \cup LineEnds(body)) + 1, Len(body)))

Stops(body) ==
  {e \in LineEnds(body) : Meaning(LineAt(body, e)) \in {"completion", "malformed"}}

TokensBefore(body, limit) ==
  Cardinality({e \in LineEnds(body) : e < limit /\ Meaning(LineAt(body, e)) = "token"})

(* However the transport cuts the body into chunks, and whether or not the *)
(* last line ends, the probe comes to the result and the tokens that the   *)
(* body read at once has (decoder.rs: "HTTP body chunks do not arrive      *)
(* aligned to line boundaries").  The state keeps its types.               *)
ResultIsOfTheBody ==
  LET body == engine.body
      rest == Rest(body)
  IN /\ TypeOK
     /\ result \in {"ok", "truncated", "malformed"} =>
          IF Stops(body) # {}
          THEN /\ result = IF Meaning(LineAt(body, Min(Stops(body)))) = "completion"
                           THEN "ok" ELSE "malformed"
               /\ Len(tokens) = TokensBefore(body, Min(Stops(body)))
          ELSE /\ result = CASE Meaning(rest) = "completion"             -> "ok"
                             [] "bad" \in {rest[i] : i \in DOMAIN rest} -> "malformed"
                             [] OTHER                                   -> "truncated"
               /\ Len(tokens) = TokensBefore(body, Len(body) + 1)
                                  + IF Meaning(rest) = "token" THEN 1 ELSE 0

(* While the probe waits for the network no complete line waits in the     *)
(* decoder: a token is stamped when its newline arrives, not at the next   *)
(* chunk.                                                                  *)
NoLineWaits == pc = "receive" => LineEnds(buf) = {}

(* The time to first token includes the full round trip (runner.rs, "so it *)
(* includes the full round trip"): no stamp is shorter than the time since *)
(* the request left, the total covers every stamp, and stamps are ordered. *)
ArrivalsIncludeRoundTrip ==
  /\ \A i \in DOMAIN tokens : tokens[i].elapsed >= tokens[i].at - sent
  /\ \A i, j \in DOMAIN tokens : i < j => tokens[i].elapsed <= tokens[j].elapsed
  /\ result = "ok" => \A i \in DOMAIN tokens : tokens[i].elapsed <= total

(* "[`ProbeError::HttpStatus`] if the engine responds with a non-2xx       *)
(* status" (runner.rs): a probe that is answered with an error status      *)
(* returns that status, unless the connection failed.                      *)
ErrorStatusIsReported ==
  result # "pending" /\ engine.status = "error" =>
    result \in {"http_status", "transport"}

(* A completion that has arrived ends the probe without another byte: an   *)
(* engine that keeps the connection open after [DONE] does not hang it.    *)
CompletionEndsProbe ==
  ( pc = "decode"
      /\ \E e \in LineEnds(buf) : Meaning(LineAt(buf, e)) = "completion" )
    ~> result # "pending"

(* Chunking is invisible step by step: the runner reads the body line by   *)
(* line as if it lay there whole.                                          *)
Unread  == buf \o wire
Verdict == IF pc = "total" THEN IF finished THEN "ok" ELSE "truncated" ELSE result

Whole == INSTANCE WholeBodyProbe
           WITH unread <- Unread, tokens <- Len(tokens), verdict <- Verdict

ImplementsWholeBodyProbe == Whole!Spec
=============================================================================
