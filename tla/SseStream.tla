----------------------------- MODULE SseStream -----------------------------
(***************************************************************************)
(* What the bytes of a streamed completion mean to the probe (is-probe:    *)
(* decoder.rs, wire.rs, extract.rs).  A body is a sequence of symbols:     *)
(* "nl", "cr", "data" (the `data:` prefix), "comment", and what can follow *)
(* `data:`, each symbol standing for the bytes that have that effect.      *)
(***************************************************************************)
EXTENDS Naturals, Sequences, FiniteSetsExt

Payloads ==
  { "done",        \* [DONE]
    "token",       \* a chunk with content
    "last_token",  \* a chunk with content and a finish_reason
    "finish",      \* a chunk with a finish_reason only
    "empty",       \* a chunk with neither, or without choices
    "junk",        \* anything that is no chunk
    "bad" }        \* bytes that are not UTF-8

Symbols == {"nl", "cr", "data", "comment"} \cup Payloads

-----------------------------------------------------------------------------
(* LineDecoder                                                             *)

LineEnds(bytes) == {i \in DOMAIN bytes : bytes[i] = "nl"}

StripCr(line) ==
  IF line # <<>> /\ line[Len(line)] = "cr" THEN SubSeq(line, 1, Len(line) - 1) ELSE line

FirstLine(bytes) == StripCr(SubSeq(bytes, 1, Min(LineEnds(bytes)) - 1))

PastFirstLine(bytes) == SubSeq(bytes, Min(LineEnds(bytes)) + 1, Len(bytes))

-----------------------------------------------------------------------------
(* classify_sse_line, the JSON parse and extract_token, in one: content    *)
(* wins over a finish_reason, and `data:` alone is a chunk that is no JSON. *)
Meaning(line) ==
  IF \E i \in DOMAIN line : line[i] = "bad" THEN "malformed"
  ELSE CASE line = <<>> \/ line[1] # "data" -> "skip"
         [] line = <<"data">>               -> "malformed"
         [] Len(line) > 1 /\ line[1] = "data" ->
              CASE line[2] \in {"done", "finish"}      -> "completion"
                [] line[2] \in {"token", "last_token"} -> "token"
                [] line[2] = "empty"                   -> "skip"
                [] OTHER                               -> "malformed"
=============================================================================
