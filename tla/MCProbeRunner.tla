--------------------------- MODULE MCProbeRunner ---------------------------
(* Every body of one or two lines, either line ending, a sample of those   *)
(* of three lines, every body cut short of one of them, and two answers of *)
(* three and four tokens for the figures.                                  *)
EXTENDS ProbeReport, SequencesExt

Lines ==
  { <<"data", p>> : p \in Payloads } \cup { <<>>, <<"comment">> }

Ending == {<<"nl">>, <<"cr", "nl">>}

TwoLines ==
  { l \o e \o m \o e : l \in Lines, m \in Lines, e \in Ending }

KeyLines == { <<"data", p>> : p \in {"token", "finish", "done", "junk"} }

ThreeLines ==
  { <<"data", "token", "nl">> \o l \o <<"nl">> \o m \o <<"nl">> :
      l \in KeyLines, m \in KeyLines }

Tokens(n) == FlattenSeq([i \in 1..n |-> <<"data", "token", "nl">>])

LongAnswers == { Tokens(n) \o <<"data", "done", "nl">> : n \in {3, 4} }

AllBodies == UNION { Prefixes(b) : b \in TwoLines \cup ThreeLines } \cup LongAnswers
=============================================================================
