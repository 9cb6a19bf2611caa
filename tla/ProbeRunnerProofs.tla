------------------------- MODULE ProbeRunnerProofs --------------------------
(***************************************************************************)
(* Proofs about the probe and what is reported of it.  For any bodies,     *)
(* however they are cut: no complete line waits for the network, every     *)
(* stamp includes the round trip, the result is that of the whole body,    *)
(* and its text and its span tell the same.                                *)
(***************************************************************************)
EXTENDS ProbeReport, FiniteLemmas, SequenceTheorems, TLAPS

\* Before the body there is nothing in the decoder.
BufferInv ==
  /\ pc \in {"start", "sent"} => buf = <<>>
  /\ NoLineWaits

\* Every step keeps it: a chunk is decoded to its last line end before the next is awaited.
LEMMA BufferStep == BufferInv /\ [Next]_vars => BufferInv'
<1> SUFFICES ASSUME BufferInv, [Next]_vars PROVE BufferInv'
  OBVIOUS
<1> USE DEF BufferInv, NoLineWaits
<1>1. CASE Dispatch
  BY <1>1 DEF Dispatch
<1>2. CASE TransportFails \/ RefuseStatus
  BY <1>2 DEF TransportFails, RefuseStatus, Return
<1>3. CASE Accept
  <2>1. buf' = <<>>
    BY <1>3 DEF Accept
  <2>2. LineEnds(<<>>) = {}
    BY DEF LineEnds
  <2> QED BY <1>3, <2>1, <2>2 DEF Accept
<1>4. CASE ReceiveChunk
  BY <1>4 DEF ReceiveChunk
<1>5. CASE StreamEnds
  BY <1>5 DEF StreamEnds
<1>6. CASE DecodeLine
  BY <1>6 DEF DecodeLine, Return
<1>7. CASE NoLineLeft
  BY <1>7 DEF NoLineLeft
<1>8. CASE Flush
  BY <1>8 DEF Flush, Return
<1>9. CASE Finish
  BY <1>9 DEF Finish, Return
<1>10. CASE Tick
  BY <1>10 DEF Tick
<1>11. CASE UNCHANGED vars
  BY <1>11 DEF vars
<1> QED BY <1>1, <1>2, <1>3, <1>4, <1>5, <1>6, <1>7, <1>8, <1>9, <1>10, <1>11
     DEF Next, Local

(* A token is stamped when its newline arrives, not at the next chunk: the *)
(* inner loop of run() empties the decoder before it awaits the network.   *)
THEOREM NoLineIsLeftWaiting == Spec => []NoLineWaits
<1>1. Init => BufferInv
  BY DEF Init, BufferInv, NoLineWaits
<1>2. BufferInv => NoLineWaits
  BY DEF BufferInv
<1> QED BY <1>1, <1>2, BufferStep, PTL DEF Spec

-----------------------------------------------------------------------------
\* The request left at the reference instant, and every stamp is the time
\* from there to the token's arrival.
ClockInv ==
  /\ now \in Nat /\ origin \in Nat /\ sent \in Nat /\ total \in Nat
  /\ origin = sent /\ origin <= now
  /\ tokens \in Seq([elapsed : Nat, at : Nat])
  /\ \A i \in DOMAIN tokens :
       /\ tokens[i].elapsed = tokens[i].at - origin
       /\ tokens[i].at <= now
       /\ result = "ok" => tokens[i].elapsed <= total
  /\ \A i, j \in DOMAIN tokens : i < j => tokens[i].at <= tokens[j].at
  /\ pc = "start" => tokens = <<>>
  /\ pc # "end" => result = "pending"

\* The types of a token.
LEMMA TokenFields ==
  ASSUME ClockInv, NEW i \in DOMAIN tokens
  PROVE  i \in Nat /\ tokens[i].at \in Nat /\ tokens[i].elapsed \in Nat
<1> DEFINE S == [elapsed : Nat, at : Nat]
<1>1. tokens \in Seq(S)
  BY DEF ClockInv
<1> HIDE DEF S
<1>2. DOMAIN tokens = 1..Len(tokens) /\ Len(tokens) \in Nat
  BY <1>1, LenProperties
<1>3. i \in 1..Len(tokens) /\ i \in Nat
  BY <1>2
<1>4. tokens[i] \in S
  BY <1>1, <1>3, ElementOfSeq
<1> QED BY <1>3, <1>4 DEF S

\* A stamp is the time since the reference instant.
LEMMA StampedTokens ==
  ASSUME ClockInv, NEW line, Stamp(line), UNCHANGED <<now, origin>>
  PROVE  /\ tokens' \in Seq([elapsed : Nat, at : Nat])
         /\ \A i \in DOMAIN tokens' :
              /\ tokens'[i].elapsed = tokens'[i].at - origin
              /\ tokens'[i].at <= now
         /\ \A i, j \in DOMAIN tokens' : i < j => tokens'[i].at <= tokens'[j].at
<1> USE DEF ClockInv
<1> DEFINE token == [elapsed |-> now - origin, at |-> now]
<1>1. CASE tokens' = tokens
  BY <1>1
<1>2. CASE tokens' = Append(tokens, token)
  <2>1. token \in [elapsed : Nat, at : Nat]
    OBVIOUS
  <2>2. /\ token.elapsed = token.at - origin /\ token.at = now
    OBVIOUS
  <2>3. /\ tokens' \in Seq([elapsed : Nat, at : Nat])
        /\ Len(tokens') = Len(tokens) + 1
        /\ tokens'[Len(tokens) + 1] = token
        /\ \A i \in DOMAIN tokens : tokens'[i] = tokens[i]
        /\ DOMAIN tokens' = DOMAIN tokens \cup {Len(tokens) + 1}
        /\ DOMAIN tokens = 1..Len(tokens) /\ Len(tokens) \in Nat
    <3> HIDE DEF token
    <3> QED BY <1>2, <2>1
  <2>4. ASSUME NEW i \in DOMAIN tokens'
        PROVE  /\ tokens'[i].elapsed = tokens'[i].at - origin
               /\ tokens'[i].at <= now
    <3> HIDE DEF token
    <3>1. CASE i \in DOMAIN tokens
      BY <2>3, <3>1
    <3>2. CASE i = Len(tokens) + 1
      <4>1. tokens'[i] = token /\ now <= now
        BY <2>3, <3>2
      <4> QED BY <2>2, <4>1
    <3> QED BY <2>3, <2>4, <3>1, <3>2
  <2>5. ASSUME NEW i \in DOMAIN tokens', NEW j \in DOMAIN tokens', i < j
        PROVE  tokens'[i].at <= tokens'[j].at
    <3> HIDE DEF token
    <3>1. i \in DOMAIN tokens
      BY <2>3, <2>5
    <3>2. CASE j \in DOMAIN tokens
      BY <2>3, <2>5, <3>1, <3>2
    <3>3. CASE j = Len(tokens) + 1
      BY <2>2, <2>3, <3>1, <3>3
    <3> QED BY <2>3, <3>2, <3>3
  <2> QED BY <2>3, <2>4, <2>5
<1> QED BY <1>1, <1>2 DEF Stamp

\* Every step keeps the order of the stamps.
LEMMA ClockStep == ClockInv /\ [Next]_vars => ClockInv'
<1> SUFFICES ASSUME ClockInv, [Next]_vars PROVE ClockInv'
  OBVIOUS
<1> USE DEF ClockInv
<1>1. CASE Dispatch
  BY <1>1 DEF Dispatch
<1>2. CASE TransportFails \/ RefuseStatus
  BY <1>2 DEF TransportFails, RefuseStatus, Return
<1>3. CASE Accept \/ StreamEnds \/ NoLineLeft
  BY <1>3 DEF Accept, StreamEnds, NoLineLeft
<1>4. CASE ReceiveChunk
  BY <1>4 DEF ReceiveChunk
<1>5. CASE DecodeLine
  <2>1. /\ Stamp(FirstLine(buf)) /\ UNCHANGED <<now, origin, sent, total>>
        /\ pc = "decode" /\ result' # "ok"
        /\ pc' # "start" /\ (pc' # "end" => result' = "pending")
    BY <1>5 DEF DecodeLine, Return
  <2> QED BY <2>1, StampedTokens
<1>6. CASE Flush
  <2>1. /\ Stamp(StripCr(buf)) /\ UNCHANGED <<now, origin, sent, total>>
        /\ pc = "flush" /\ result' # "ok"
        /\ pc' # "start" /\ (pc' # "end" => result' = "pending")
    BY <1>6 DEF Flush, Return
  <2> QED BY <2>1, StampedTokens
<1>7. CASE Finish
  <2>1. /\ UNCHANGED <<now, origin, sent, tokens>>
        /\ total' = now - origin /\ pc' = "end"
    BY <1>7 DEF Finish, Return
  <2>2. \A i \in DOMAIN tokens : tokens[i].elapsed <= total'
    <3> SUFFICES ASSUME NEW i \in DOMAIN tokens PROVE tokens[i].elapsed <= total'
      OBVIOUS
    <3>1. tokens[i].at \in Nat /\ tokens[i].elapsed \in Nat
      BY TokenFields
    <3>2. tokens[i].elapsed = tokens[i].at - origin /\ tokens[i].at <= now
      OBVIOUS
    <3>3. now \in Nat /\ origin \in Nat
      OBVIOUS
    <3> HIDE DEF ClockInv
    <3> QED BY <2>1, <3>1, <3>2, <3>3
  <2> QED BY <2>1, <2>2
<1>8. CASE Tick
  <2>1. /\ UNCHANGED <<pc, origin, sent, tokens, total, result>>
        /\ now' = now + 1
    BY <1>8 DEF Tick
  <2>2. \A i \in DOMAIN tokens : tokens[i].at <= now'
    BY <2>1, TokenFields
  <2> QED BY <2>1, <2>2
<1>9. CASE UNCHANGED vars
  BY <1>9 DEF vars
<1> QED BY <1>1, <1>2, <1>3, <1>4, <1>5, <1>6, <1>7, <1>8, <1>9 DEF Next, Local

(* Every stamp includes the full round trip, the total covers every stamp  *)
(* and stamps are ordered, for any bodies and any delays (runner.rs, run). *)
THEOREM StampsIncludeRoundTrip == Spec => []ArrivalsIncludeRoundTrip
<1>1. Init => ClockInv
  BY DEF Init, ClockInv
<1>2. ClockInv => ArrivalsIncludeRoundTrip
  <2> SUFFICES ASSUME ClockInv PROVE ArrivalsIncludeRoundTrip
    OBVIOUS
  <2>1. \A i \in DOMAIN tokens : tokens[i].elapsed >= tokens[i].at - sent
    BY TokenFields DEF ClockInv
  <2>2. ASSUME NEW i \in DOMAIN tokens, NEW j \in DOMAIN tokens, i < j
        PROVE  tokens[i].elapsed <= tokens[j].elapsed
    <3>1. /\ tokens[i].at \in Nat /\ tokens[i].elapsed \in Nat
          /\ tokens[j].at \in Nat /\ tokens[j].elapsed \in Nat
      BY TokenFields
    <3>2. /\ tokens[i].elapsed = tokens[i].at - origin
          /\ tokens[j].elapsed = tokens[j].at - origin
          /\ tokens[i].at <= tokens[j].at /\ origin \in Nat
      BY <2>2 DEF ClockInv
    <3> QED BY <3>1, <3>2
  <2>3. result = "ok" => \A i \in DOMAIN tokens : tokens[i].elapsed <= total
    BY DEF ClockInv
  <2> QED BY <2>1, <2>2, <2>3 DEF ArrivalsIncludeRoundTrip
<1> QED BY <1>1, <1>2, ClockStep, PTL DEF Spec
-----------------------------------------------------------------------------
\* Lines.  The newlines of a sequence of symbols are some of its positions.
LEMMA LineEndsOf ==
  ASSUME NEW s \in Seq(Symbols)
  PROVE  /\ Len(s) \in Nat /\ DOMAIN s = 1..Len(s)
         /\ LineEnds(s) \in SUBSET (1..Len(s)) /\ LineEnds(s) \in SUBSET Int
         /\ IsFiniteSet(LineEnds(s))
         /\ \A i \in 1..Len(s) : i \in LineEnds(s) <=> s[i] = "nl"
<1>1. Len(s) \in Nat /\ DOMAIN s = 1..Len(s)
  OBVIOUS
<1>2. LineEnds(s) \in SUBSET (1..Len(s)) /\ \A i \in 1..Len(s) : i \in LineEnds(s) <=> s[i] = "nl"
  BY <1>1 DEF LineEnds
<1>3. IsFiniteSet(1..Len(s))
  BY <1>1, FS_Interval
<1>4. IsFiniteSet(LineEnds(s))
  BY <1>2, <1>3, FS_Subset
<1>5. LineEnds(s) \in SUBSET Int
  BY <1>1, <1>2
<1> QED BY <1>1, <1>2, <1>4, <1>5

\* The first newline.
LEMMA FirstLineEnd ==
  ASSUME NEW s \in Seq(Symbols), LineEnds(s) # {}
  PROVE  /\ Min(LineEnds(s)) \in LineEnds(s) /\ Min(LineEnds(s)) \in 1..Len(s)
         /\ \A x \in LineEnds(s) : Min(LineEnds(s)) <= x
  BY LineEndsOf, MinIsLeast

\* The line that ends at e begins after the last newline before e.
LEMMA LineBegins ==
  ASSUME NEW body \in Seq(Symbols), NEW r \in {0} \cup LineEnds(body), NEW P,
         P \in SUBSET LineEnds(body), \A x \in LineEnds(body) : x \in P <=> x <= r
  PROVE  Max({0} \cup P) = r
<1> DEFINE A == {0} \cup P
<1>1. LineEnds(body) \in SUBSET (1..Len(body)) /\ IsFiniteSet(LineEnds(body)) /\ Len(body) \in Nat
  BY LineEndsOf
<1>2. A \in SUBSET Int /\ A # {} /\ r \in Nat
  BY <1>1
<1>3. IsFiniteSet(P)
  BY <1>1, FS_Subset
<1>4. IsFiniteSet(A)
  BY <1>3, FS_EmptySet, FS_AddElement
<1>5. r \in A /\ \A x \in A : x <= r
  BY <1>1, <1>2
<1> HIDE DEF A
<1>6. Max(A) \in A /\ \A x \in A : x <= Max(A)
  BY <1>2, <1>4, MaxIsGreatest
<1>7. Max(A) = r
  <2>1. Max(A) \in Int /\ Max(A) <= r /\ r <= Max(A)
    BY <1>2, <1>5, <1>6
  <2> QED BY <1>2, <2>1
<1> QED BY <1>7 DEF A

\* The first line of what follows position r is the body's line after r.
LEMMA NextLine ==
  ASSUME NEW body \in Seq(Symbols), NEW r \in 0..Len(body), r \in {0} \cup LineEnds(body),
         NEW s \in Seq(Symbols), r + Len(s) <= Len(body),
         \A i \in 1..Len(s) : s[i] = body[r + i],
         LineEnds(s) # {}
  PROVE  LET e == r + Min(LineEnds(s))
         IN /\ e \in LineEnds(body) /\ r < e /\ e <= r + Len(s) /\ e \in Nat
            /\ \A x \in LineEnds(body) : x < e <=> x <= r
            /\ LineAt(body, e) = FirstLine(s)
<1> DEFINE f == Min(LineEnds(s))
           e == r + f
<1>1. /\ f \in LineEnds(s) /\ f \in 1..Len(s) /\ \A x \in LineEnds(s) : f <= x
      /\ Len(s) \in Nat /\ Len(body) \in Nat /\ r \in Nat /\ f \in Nat
      /\ \A i \in 1..Len(s) : i \in LineEnds(s) <=> s[i] = "nl"
      /\ \A i \in 1..Len(body) : i \in LineEnds(body) <=> body[i] = "nl"
      /\ LineEnds(body) \in SUBSET (1..Len(body))
  BY FirstLineEnd, LineEndsOf
<1> HIDE DEF f
<1>2. e \in 1..Len(body) /\ r < e /\ e <= r + Len(s)
  BY <1>1
<1>3. e \in LineEnds(body)
  BY <1>1, <1>2
<1>4. \A x \in LineEnds(body) : x < e <=> x <= r
  <2> SUFFICES ASSUME NEW x \in LineEnds(body), x < e, ~(x <= r) PROVE FALSE
    BY <1>1, <1>2
  <2>1. x \in 1..Len(body) /\ body[x] = "nl"
    BY <1>1
  <2>2. x - r \in 1..Len(s) /\ x - r < f /\ r + (x - r) = x
    BY <1>1, <2>1
  <2>3. s[x - r] = body[x]
    BY <2>2
  <2>4. x - r \in LineEnds(s)
    BY <1>1, <2>1, <2>2, <2>3
  <2> QED BY <1>1, <2>2, <2>4
<1>5. Max({0} \cup {x \in LineEnds(body) : x < e}) = r
  <2> DEFINE P == {x \in LineEnds(body) : x < e}
  <2>1. P \in SUBSET LineEnds(body) /\ \A x \in LineEnds(body) : x \in P <=> x <= r
    BY <1>4
  <2> HIDE DEF P, e
  <2>2. Max({0} \cup P) = r
    BY <2>1, LineBegins
  <2> QED BY <2>2 DEF P
<1>6. SubSeq(body, r + 1, e - 1) = SubSeq(s, 1, f - 1)
  <2> DEFINE a == SubSeq(body, r + 1, e - 1)
             b == SubSeq(s, 1, f - 1)
  <2>1. \A i \in (r + 1)..(e - 1) : body[i] \in Symbols
    BY <1>1, <1>2, ElementOfSeq
  <2>2. \A i \in 1..(f - 1) : s[i] \in Symbols
    BY <1>1, ElementOfSeq
  <2>3. r + 1 \in Int /\ e - 1 \in Int /\ 1 \in Int /\ f - 1 \in Int
    BY <1>1
  <2>4. /\ a \in Seq(Symbols)
        /\ Len(a) = IF r + 1 <= e - 1 THEN (e - 1) - (r + 1) + 1 ELSE 0
        /\ \A i \in 1..((e - 1) - (r + 1) + 1) : a[i] = body[(r + 1) + i - 1]
    <3> HIDE DEF e
    <3> QED BY <2>1, <2>3, SubSeqProperties
  <2>5. /\ b \in Seq(Symbols)
        /\ Len(b) = IF 1 <= f - 1 THEN (f - 1) - 1 + 1 ELSE 0
        /\ \A i \in 1..((f - 1) - 1 + 1) : b[i] = s[1 + i - 1]
    BY <2>2, <2>3, SubSeqProperties
  <2> HIDE DEF a, b
  <2>6. Len(a) = f - 1 /\ Len(b) = f - 1
    BY <1>1, <2>4, <2>5
  <2>7. \A i \in 1..Len(a) : a[i] = b[i]
    <3> SUFFICES ASSUME NEW i \in 1..(f - 1) PROVE a[i] = b[i]
      BY <2>6
    <3>1. a[i] = body[(r + 1) + i - 1] /\ (r + 1) + i - 1 = r + i
      BY <1>1, <2>4
    <3>2. b[i] = s[1 + i - 1] /\ 1 + i - 1 = i
      BY <1>1, <2>5
    <3>3. s[i] = body[r + i]
      BY <1>1
    <3> QED BY <3>1, <3>2, <3>3
  <2>8. a = b
    BY <2>4, <2>5, <2>6, <2>7, SeqEqual
  <2> QED BY <2>8 DEF a, b
<1>7. LineAt(body, e) = FirstLine(s)
  BY <1>5, <1>6 DEF LineAt, FirstLine, f
<1> QED BY <1>2, <1>3, <1>4, <1>7 DEF f

\* The tokens up to a line are those before it and its own.
LEMMA TokensThen ==
  ASSUME NEW body \in Seq(Symbols), NEW r \in Nat, NEW e \in LineEnds(body),
         \A x \in LineEnds(body) : x < e <=> x <= r
  PROVE  /\ TokensBefore(body, r + 1) \in Nat
         /\ TokensBefore(body, e) = TokensBefore(body, r + 1)
         /\ TokensBefore(body, e + 1) =
              TokensBefore(body, r + 1) + IF Meaning(LineAt(body, e)) = "token" THEN 1 ELSE 0
<1> DEFINE T(n) == {x \in LineEnds(body) : x < n /\ Meaning(LineAt(body, x)) = "token"}
<1>1. /\ LineEnds(body) \in SUBSET (1..Len(body)) /\ IsFiniteSet(LineEnds(body))
      /\ Len(body) \in Nat
  BY LineEndsOf
<1>2. T(e) = T(r + 1)
  BY <1>1
<1>3. T(e + 1) = IF Meaning(LineAt(body, e)) = "token" THEN T(e) \cup {e} ELSE T(e)
  BY <1>1
<1>4. e \notin T(e)
  BY <1>1
<1>5. IsFiniteSet(T(e))
  BY <1>1, FS_Subset
<1>6. \A n : TokensBefore(body, n) = Cardinality(T(n))
  BY DEF TokensBefore
<1> HIDE DEF T
<1>7. Cardinality(T(e)) \in Nat /\ Cardinality(T(e) \cup {e}) = Cardinality(T(e)) + 1
  BY <1>4, <1>5, FS_AddElement, FS_CardinalityType
<1> QED BY <1>2, <1>3, <1>6, <1>7

\* What follows the last newline is the rest, and all tokens were before it.
LEMMA LastLine ==
  ASSUME NEW body \in Seq(Symbols), NEW r \in 0..Len(body), r \in {0} \cup LineEnds(body),
         NEW s \in Seq(Symbols), r + Len(s) = Len(body),
         \A i \in 1..Len(s) : s[i] = body[r + i],
         LineEnds(s) = {}
  PROVE  /\ \A x \in LineEnds(body) : x <= r
         /\ Rest(body) = StripCr(s)
         /\ TokensBefore(body, Len(body) + 1) = TokensBefore(body, r + 1)
<1>1. /\ Len(s) \in Nat /\ Len(body) \in Nat /\ r \in Nat
      /\ \A i \in 1..Len(s) : i \in LineEnds(s) <=> s[i] = "nl"
      /\ \A i \in 1..Len(body) : i \in LineEnds(body) <=> body[i] = "nl"
      /\ LineEnds(body) \in SUBSET (1..Len(body))
  BY LineEndsOf
<1>2. \A x \in LineEnds(body) : x <= r
  <2> SUFFICES ASSUME NEW x \in LineEnds(body), ~(x <= r) PROVE FALSE
    OBVIOUS
  <2>1. x \in 1..Len(body) /\ body[x] = "nl"
    BY <1>1
  <2>2. x - r \in 1..Len(s) /\ r + (x - r) = x
    BY <1>1, <2>1
  <2>3. s[x - r] = body[x]
    BY <2>2
  <2> QED BY <1>1, <2>1, <2>2, <2>3
<1>3. Max({0} \cup LineEnds(body)) = r
  <2>1. LineEnds(body) \in SUBSET LineEnds(body) /\ \A x \in LineEnds(body) :
          x \in LineEnds(body) <=> x <= r
    BY <1>2
  <2> QED BY <2>1, LineBegins
<1>4. SubSeq(body, r + 1, Len(body)) = s
  <2> DEFINE a == SubSeq(body, r + 1, Len(body))
  <2>1. \A i \in (r + 1)..Len(body) : body[i] \in Symbols
    BY <1>1, ElementOfSeq
  <2>2. r + 1 \in Int /\ Len(body) \in Int
    BY <1>1
  <2>3. /\ a \in Seq(Symbols)
        /\ Len(a) = IF r + 1 <= Len(body) THEN Len(body) - (r + 1) + 1 ELSE 0
        /\ \A i \in 1..(Len(body) - (r + 1) + 1) : a[i] = body[(r + 1) + i - 1]
    BY <2>1, <2>2, SubSeqProperties
  <2> HIDE DEF a
  <2>4. Len(a) = Len(s)
    BY <1>1, <2>3
  <2>5. \A i \in 1..Len(a) : a[i] = s[i]
    <3> SUFFICES ASSUME NEW i \in 1..Len(s) PROVE a[i] = s[i]
      BY <2>4
    <3>1. a[i] = body[(r + 1) + i - 1] /\ (r + 1) + i - 1 = r + i
      BY <1>1, <2>3
    <3> QED BY <3>1
  <2>6. a = s
    BY <2>3, <2>4, <2>5, SeqEqual
  <2> QED BY <2>6 DEF a
<1>5. {x \in LineEnds(body) : x < Len(body) + 1 /\ Meaning(LineAt(body, x)) = "token"}
        = {x \in LineEnds(body) : x < r + 1 /\ Meaning(LineAt(body, x)) = "token"}
  BY <1>1, <1>2
<1> QED BY <1>2, <1>3, <1>4, <1>5 DEF Rest, TokensBefore

\* A cut divides a sequence in two.
LEMMA CutInTwo ==
  ASSUME NEW s \in Seq(Symbols), NEW n \in 0..Len(s)
  PROVE  LET a == SubSeq(s, 1, n)
             b == SubSeq(s, n + 1, Len(s))
         IN /\ a \in Seq(Symbols) /\ Len(a) = n
            /\ b \in Seq(Symbols) /\ Len(b) = Len(s) - n
            /\ \A i \in 1..n : a[i] = s[i]
            /\ \A i \in 1..(Len(s) - n) : b[i] = s[n + i]
            /\ a \o b = s
<1> DEFINE a == SubSeq(s, 1, n)
           b == SubSeq(s, n + 1, Len(s))
<1>1. /\ Len(s) \in Nat /\ n \in Nat /\ n <= Len(s)
      /\ n + 1 \in Int /\ Len(s) \in Int /\ 1 \in Int /\ n \in Int
      /\ \A i \in 1..n : s[i] \in Symbols
      /\ \A i \in (n + 1)..Len(s) : s[i] \in Symbols
  BY ElementOfSeq
<1>2. /\ a \in Seq(Symbols) /\ Len(a) = IF 1 <= n THEN n - 1 + 1 ELSE 0
      /\ \A i \in 1..(n - 1 + 1) : a[i] = s[1 + i - 1]
  BY <1>1, SubSeqProperties
<1>3. /\ b \in Seq(Symbols) /\ Len(b) = IF n + 1 <= Len(s) THEN Len(s) - (n + 1) + 1 ELSE 0
      /\ \A i \in 1..(Len(s) - (n + 1) + 1) : b[i] = s[(n + 1) + i - 1]
  BY <1>1, SubSeqProperties
<1>4. a \o b = s
  <2>1. /\ 1 \in 1..(Len(s) + 1) /\ n \in (1 - 1)..Len(s) /\ Len(s) \in n..Len(s)
    BY <1>1
  <2>2. a \o b = SubSeq(s, 1, Len(s))
    BY <2>1, ConcatAdjacentSubSeq
  <2> QED BY <2>2, SubSeqFull
<1> HIDE DEF a, b
<1>5. \A i \in 1..n : a[i] = s[i]
  <2> SUFFICES ASSUME NEW i \in 1..n PROVE a[i] = s[i]
    OBVIOUS
  <2>1. i \in 1..(n - 1 + 1) /\ 1 + i - 1 = i
    BY <1>1
  <2> QED BY <2>1, <1>2
<1>6. \A i \in 1..(Len(s) - n) : b[i] = s[n + i]
  <2> SUFFICES ASSUME NEW i \in 1..(Len(s) - n) PROVE b[i] = s[n + i]
    OBVIOUS
  <2>1. i \in 1..(Len(s) - (n + 1) + 1) /\ (n + 1) + i - 1 = n + i
    BY <1>1
  <2> QED BY <2>1, <1>3
<1>7. Len(a) = n /\ Len(b) = Len(s) - n
  BY <1>1, <1>2, <1>3
<1> QED BY <1>2, <1>3, <1>4, <1>5, <1>6, <1>7 DEF a, b

\* What is past the first line, and that it is a part of the rest.
LEMMA PastTheLine ==
  ASSUME NEW s \in Seq(Symbols), LineEnds(s) # {}
  PROVE  LET f == Min(LineEnds(s))
         IN /\ PastFirstLine(s) \in Seq(Symbols)
            /\ Len(PastFirstLine(s)) = Len(s) - f
            /\ \A i \in 1..(Len(s) - f) : PastFirstLine(s)[i] = s[f + i]
            /\ f \in 1..Len(s) /\ Len(s) \in Nat
<1> DEFINE f == Min(LineEnds(s))
<1>1. f \in 1..Len(s) /\ Len(s) \in Nat
  BY FirstLineEnd, LineEndsOf
<1> HIDE DEF f
<1>2. f \in 0..Len(s)
  BY <1>1
<1> DEFINE b == SubSeq(s, f + 1, Len(s))
<1>3. b \in Seq(Symbols) /\ Len(b) = Len(s) - f /\ \A i \in 1..(Len(s) - f) : b[i] = s[f + i]
  BY <1>2, CutInTwo
<1>4. PastFirstLine(s) = b
  BY DEF PastFirstLine, f
<1> HIDE DEF b
<1> QED BY <1>1, <1>3, <1>4 DEF f

-----------------------------------------------------------------------------
\* The state keeps its types.
LEMMA StampedTypes ==
  ASSUME TypeOK, ClockInv, NEW l, Stamp(l)
  PROVE  tokens' \in Seq(TokenArrivals)
<1> DEFINE token == [elapsed |-> now - origin, at |-> now]
<1>1. token \in TokenArrivals
  <2>1. now \in 0..MaxTime /\ origin \in 0..MaxTime /\ origin <= now /\ MaxTime \in Nat
    BY ProbeAssumption DEF TypeOK, ClockInv
  <2>2. now - origin \in 0..MaxTime
    BY <2>1
  <2> QED BY <2>1, <2>2 DEF TokenArrivals
<1>2. tokens \in Seq(TokenArrivals)
  BY DEF TypeOK
<1>3. tokens' = tokens \/ tokens' = Append(tokens, token)
  BY DEF Stamp
<1> HIDE DEF token
<1> QED BY <1>1, <1>2, <1>3, AppendProperties

\* A probe starts with its types.
LEMMA TypesInit == Init => TypeOK
<1> SUFFICES ASSUME Init PROVE TypeOK
  OBVIOUS
<1>1. engine.body \in Seq(Symbols)
  BY ProbeAssumption, EmptySeq DEF Init, Answers
<1>2. buf \in Seq(Symbols) /\ tokens \in Seq(TokenArrivals)
  BY EmptySeq DEF Init
<1>3. MaxTime \in Nat /\ 0 \in 0..MaxTime
  BY ProbeAssumption
<1>4. /\ engine \in Answers /\ now = 0 /\ pc = "start" /\ origin = 0 /\ sent = 0
      /\ wire = engine.body /\ finished = FALSE /\ total = 0 /\ result = "pending"
  BY DEF Init
<1> QED BY <1>1, <1>2, <1>3, <1>4 DEF TypeOK, Results

\* Every step keeps the types.
LEMMA TypesStep == TypeOK /\ ClockInv /\ [Next]_vars => TypeOK'
<1> SUFFICES ASSUME TypeOK, ClockInv, [Next]_vars PROVE TypeOK'
  OBVIOUS
<1>0. /\ engine \in Answers /\ now \in 0..MaxTime
      /\ pc \in {"start", "sent", "receive", "decode", "flush", "total", "end"}
      /\ origin \in 0..MaxTime /\ sent \in 0..MaxTime
      /\ wire \in Seq(Symbols) /\ buf \in Seq(Symbols)
      /\ tokens \in Seq(TokenArrivals)
      /\ finished \in BOOLEAN /\ total \in 0..MaxTime /\ result \in Results
      /\ pc = "end" <=> result # "pending"
      /\ MaxTime \in Nat /\ origin <= now
  BY ProbeAssumption DEF TypeOK, ClockInv
<1>1. CASE Dispatch
  BY <1>0, <1>1 DEF Dispatch, TypeOK
<1>2. CASE TransportFails \/ RefuseStatus
  BY <1>0, <1>2 DEF TransportFails, RefuseStatus, Return, TypeOK, Results
<1>3. CASE Accept \/ StreamEnds \/ NoLineLeft
  BY <1>0, <1>3 DEF Accept, StreamEnds, NoLineLeft, TypeOK
<1>4. CASE ReceiveChunk
  <2>1. PICK n \in 1..Len(wire) : /\ buf' = buf \o SubSeq(wire, 1, n)
                                  /\ wire' = SubSeq(wire, n + 1, Len(wire))
    BY <1>4 DEF ReceiveChunk
  <2>2. n \in 0..Len(wire)
    OBVIOUS
  <2>3. SubSeq(wire, 1, n) \in Seq(Symbols) /\ wire' \in Seq(Symbols)
    BY <1>0, <2>1, <2>2, CutInTwo
  <2>4. buf' \in Seq(Symbols)
    BY <1>0, <2>1, <2>3, ConcatProperties
  <2>5. UNCHANGED <<engine, now, origin, sent, tokens, finished, total, result>>
        /\ pc = "receive" /\ pc' = "decode"
    BY <1>4 DEF ReceiveChunk
  <2> QED BY <1>0, <2>3, <2>4, <2>5 DEF TypeOK
<1>5. CASE DecodeLine
  <2>1. buf' \in Seq(Symbols)
    BY <1>0, <1>5, PastTheLine DEF DecodeLine
  <2>2. tokens' \in Seq(TokenArrivals)
    BY <1>5, StampedTypes DEF DecodeLine
  <2>3. /\ UNCHANGED <<engine, now, origin, sent, wire, total>> /\ finished' \in BOOLEAN
        /\ \/ pc' = "end" /\ result' = "malformed"
           \/ pc' \in {"total", "decode"} /\ result' = result /\ pc = "decode"
    BY <1>5 DEF DecodeLine, Return
  <2> QED BY <1>0, <2>1, <2>2, <2>3 DEF TypeOK, Results
<1>6. CASE Flush
  <2>1. buf' \in Seq(Symbols)
    BY <1>6, EmptySeq DEF Flush
  <2>2. tokens' \in Seq(TokenArrivals)
    BY <1>6, StampedTypes DEF Flush
  <2>3. /\ UNCHANGED <<engine, now, origin, sent, wire, total>> /\ finished' \in BOOLEAN
        /\ \/ pc' = "end" /\ result' = "malformed"
           \/ pc' = "total" /\ result' = result /\ pc = "flush"
    BY <1>6 DEF Flush, Return
  <2> QED BY <1>0, <2>1, <2>2, <2>3 DEF TypeOK, Results
<1>7. CASE Finish
  <2>1. now - origin \in 0..MaxTime
    BY <1>0
  <2> QED BY <1>0, <1>7, <2>1 DEF Finish, Return, TypeOK, Results
<1>8. CASE Tick
  BY <1>0, <1>8 DEF Tick, TypeOK
<1>9. CASE UNCHANGED vars
  BY <1>0, <1>9 DEF vars, TypeOK
<1> QED BY <1>1, <1>2, <1>3, <1>4, <1>5, <1>6, <1>7, <1>8, <1>9 DEF Next, Local

\* The clock and the types, together.
LEMMA TypesHold == Spec => [](TypeOK /\ ClockInv)
<1>1. Init => ClockInv
  BY DEF Init, ClockInv
<1> QED BY <1>1, TypesInit, TypesStep, ClockStep, PTL DEF Spec

-----------------------------------------------------------------------------
\* The probe has read the first r bytes of the body, up to a line's end and
\* no further than a line that stops it.
Reading(r) ==
  LET body == engine.body
  IN /\ Len(buf) + Len(wire) = Len(body) - r
     /\ \A i \in 1..Len(buf) : buf[i] = body[r + i]
     /\ \A i \in 1..Len(wire) : wire[i] = body[r + Len(buf) + i]
     /\ r \in {0} \cup LineEnds(body)
     /\ \A e \in Stops(body) : r < e
     /\ Len(tokens) = TokensBefore(body, r + 1)

\* What the body read at once comes to is v, with the tokens there are.
Concluded(v) ==
  LET body == engine.body
      rest == Rest(body)
  IN IF Stops(body) # {}
     THEN /\ v = IF Meaning(LineAt(body, Min(Stops(body)))) = "completion"
                 THEN "ok" ELSE "malformed"
          /\ Len(tokens) = TokensBefore(body, Min(Stops(body)))
     ELSE /\ v = CASE Meaning(rest) = "completion"             -> "ok"
                   [] "bad" \in {rest[i] : i \in DOMAIN rest} -> "malformed"
                   [] OTHER                                   -> "truncated"
          /\ Len(tokens) = TokensBefore(body, Len(body) + 1)
                             + IF Meaning(rest) = "token" THEN 1 ELSE 0

ReadInv ==
  /\ pc \notin {"total", "end"} => \E r \in 0..Len(engine.body) : Reading(r)
  /\ pc \in {"start", "sent"} => buf = <<>>
  /\ pc \in {"receive", "flush"} => LineEnds(buf) = {}
  /\ pc = "flush" => wire = <<>>
  /\ pc = "total" => Concluded(IF finished THEN "ok" ELSE "truncated")
  /\ result \in {"ok", "truncated", "malformed"} => Concluded(result)

\* The types of the body, of what is on the wire and of what is buffered.
LEMMA BodyTyped ==
  ASSUME TypeOK
  PROVE  /\ engine.body \in Seq(Symbols) /\ Len(engine.body) \in Nat
         /\ buf \in Seq(Symbols) /\ Len(buf) \in Nat
         /\ wire \in Seq(Symbols) /\ Len(wire) \in Nat
<1>1. engine.body \in Seq(Symbols)
  BY ProbeAssumption, EmptySeq DEF TypeOK, Answers
<1>2. buf \in Seq(Symbols) /\ wire \in Seq(Symbols)
  BY DEF TypeOK
<1> QED BY <1>1, <1>2, LenProperties

\* A line stamps a token exactly when it holds one.
LEMMA StampCounts ==
  ASSUME TypeOK, NEW l, Stamp(l)
  PROVE  /\ Len(tokens) \in Nat
         /\ Len(tokens') = Len(tokens) + IF Meaning(l) = "token" THEN 1 ELSE 0
<1> DEFINE token == [elapsed |-> now - origin, at |-> now]
<1>1. tokens \in Seq(TokenArrivals)
  BY DEF TypeOK
<1>2. Len(tokens) \in Nat /\ Len(Append(tokens, token)) = Len(tokens) + 1
  <2> HIDE DEF token
  <2> QED BY <1>1
<1> QED BY <1>2 DEF Stamp

\* Reading goes on from the same place while nothing is read.
LEMMA ReadingStable ==
  ASSUME UNCHANGED <<engine, buf, wire, tokens>>
  PROVE  /\ \A r : Reading(r)' <=> Reading(r)
         /\ \A v : Concluded(v)' <=> Concluded(v)
  BY DEF Reading, Concluded

\* A chunk moves the cut between what is here and what is to come.
LEMMA ReceiveStep ==
  ASSUME TypeOK, NEW r \in 0..Len(engine.body), Reading(r), ReceiveChunk
  PROVE  Reading(r)'
<1> DEFINE body == engine.body
<1>1. PICK n \in 1..Len(wire) : /\ buf' = buf \o SubSeq(wire, 1, n)
                                /\ wire' = SubSeq(wire, n + 1, Len(wire))
  BY DEF ReceiveChunk
<1>2. UNCHANGED <<engine, tokens>>
  BY DEF ReceiveChunk
<1> DEFINE a == SubSeq(wire, 1, n)
<1>3. /\ buf \in Seq(Symbols) /\ Len(buf) \in Nat /\ Len(wire) \in Nat
      /\ wire \in Seq(Symbols) /\ n \in 0..Len(wire) /\ n \in Nat /\ r \in Nat
      /\ Len(body) \in Nat
  BY BodyTyped
<1>4. /\ a \in Seq(Symbols) /\ Len(a) = n
      /\ Len(wire') = Len(wire) - n
      /\ \A i \in 1..n : a[i] = wire[i]
      /\ \A i \in 1..(Len(wire) - n) : wire'[i] = wire[n + i]
  BY <1>1, <1>3, CutInTwo
<1> HIDE DEF a
<1>5. buf' = buf \o a
  BY <1>1 DEF a
<1>6. /\ Len(buf') = Len(buf) + Len(a)
      /\ \A i \in 1..(Len(buf) + Len(a)) :
           buf'[i] = IF i <= Len(buf) THEN buf[i] ELSE a[i - Len(buf)]
  BY <1>3, <1>4, <1>5, ConcatProperties
<1>7. /\ Len(buf) + Len(wire) = Len(body) - r
      /\ \A i \in 1..Len(buf) : buf[i] = body[r + i]
      /\ \A i \in 1..Len(wire) : wire[i] = body[r + Len(buf) + i]
  BY DEF Reading
<1>8. Len(buf') + Len(wire') = Len(body) - r
  <2>1. Len(buf') = Len(buf) + n /\ Len(wire') = Len(wire) - n
    BY <1>4, <1>6
  <2>2. Len(buf') + Len(wire') = Len(buf) + Len(wire)
    BY <2>1, <1>3
  <2> QED BY <2>2, <1>7
<1>9. ASSUME NEW i \in 1..Len(buf') PROVE buf'[i] = body[r + i]
  <2>1. i \in 1..(Len(buf) + n) /\ Len(a) = n
    BY <1>4, <1>6
  <2>2. CASE i <= Len(buf)
    <3>1. i \in 1..Len(buf)
      BY <2>1, <2>2, <1>3
    <3> QED BY <3>1, <2>1, <2>2, <1>6, <1>7
  <2>3. CASE ~(i <= Len(buf))
    <3>1. i - Len(buf) \in 1..n /\ i - Len(buf) \in 1..Len(wire)
      BY <2>1, <2>3, <1>3
    <3>2. buf'[i] = wire[i - Len(buf)]
      BY <3>1, <2>1, <2>3, <1>4, <1>6
    <3>3. r + Len(buf) + (i - Len(buf)) = r + i
      BY <2>1, <1>3
    <3> QED BY <3>1, <3>2, <3>3, <1>7
  <2> QED BY <2>2, <2>3
<1>10. ASSUME NEW i \in 1..Len(wire') PROVE wire'[i] = body[r + Len(buf') + i]
  <2>1. i \in 1..(Len(wire) - n) /\ n + i \in 1..Len(wire)
    BY <1>3, <1>4
  <2>2. wire'[i] = wire[n + i] /\ wire[n + i] = body[r + Len(buf) + (n + i)]
    BY <2>1, <1>4, <1>7
  <2>3. r + Len(buf) + (n + i) = r + Len(buf') + i
    BY <2>1, <1>3, <1>4, <1>6
  <2> QED BY <2>2, <2>3
<1>11. /\ r \in {0} \cup LineEnds(body)
       /\ \A e \in Stops(body) : r < e
       /\ Len(tokens) = TokensBefore(body, r + 1)
  BY DEF Reading
<1> QED BY <1>2, <1>8, <1>9, <1>10, <1>11 DEF Reading

\* The line at the front of the decoder is the body's next one.
LEMMA LineIsNext ==
  ASSUME TypeOK, NEW r \in 0..Len(engine.body), Reading(r), LineEnds(buf) # {}
  PROVE  LET body == engine.body
             e == r + Min(LineEnds(buf))
         IN /\ e \in LineEnds(body) /\ r < e /\ e \in 0..Len(body)
            /\ \A x \in LineEnds(body) : x < e <=> x <= r
            /\ LineAt(body, e) = FirstLine(buf)
            /\ \A x \in Stops(body) : e <= x
            /\ e \in Stops(body) <=> Meaning(FirstLine(buf)) \in {"completion", "malformed"}
<1> DEFINE body == engine.body
           e == r + Min(LineEnds(buf))
<1>1. /\ body \in Seq(Symbols) /\ buf \in Seq(Symbols)
      /\ Len(body) \in Nat /\ Len(buf) \in Nat /\ Len(wire) \in Nat /\ r \in Nat
  BY BodyTyped
<1>2. /\ Len(buf) + Len(wire) = Len(body) - r
      /\ \A i \in 1..Len(buf) : buf[i] = body[r + i]
      /\ r \in {0} \cup LineEnds(body)
      /\ \A x \in Stops(body) : r < x
  BY DEF Reading
<1>3. r + Len(buf) <= Len(body) /\ r \in 0..Len(body)
  BY <1>1, <1>2
<1>4. /\ e \in LineEnds(body) /\ r < e /\ e <= r + Len(buf) /\ e \in Nat
      /\ \A x \in LineEnds(body) : x < e <=> x <= r
      /\ LineAt(body, e) = FirstLine(buf)
  <2> HIDE DEF body
  <2> QED BY <1>1, <1>2, <1>3, NextLine
<1>5. LineEnds(body) \in SUBSET (1..Len(body))
  BY <1>1, LineEndsOf
<1>6. \A x \in Stops(body) : e <= x
  <2> SUFFICES ASSUME NEW x \in Stops(body) PROVE e <= x
    OBVIOUS
  <2>1. x \in LineEnds(body) /\ x \in Nat /\ r < x
    BY <1>1, <1>2, <1>5 DEF Stops
  <2>2. ~(x < e)
    BY <2>1, <1>1, <1>4
  <2> HIDE DEF e
  <2> QED BY <2>1, <2>2, <1>4
<1>7. e \in Stops(body) <=> Meaning(FirstLine(buf)) \in {"completion", "malformed"}
  <2> HIDE DEF e, body
  <2> QED BY <1>4 DEF Stops
<1>8. e \in 0..Len(body)
  <2> HIDE DEF e
  <2> QED BY <1>1, <1>3, <1>4
<1> QED BY <1>4, <1>6, <1>7, <1>8

\* Reading one line moves to its end, or concludes when it stops the probe.
LEMMA DecodeStep ==
  ASSUME TypeOK, NEW r \in 0..Len(engine.body), Reading(r), pc = "decode", result = "pending",
         DecodeLine
  PROVE  ReadInv'
<1> DEFINE body == engine.body
           f == Min(LineEnds(buf))
           e == r + f
           m == Meaning(FirstLine(buf))
<1>1. LineEnds(buf) # {} /\ UNCHANGED <<engine, wire>> /\ buf' = PastFirstLine(buf)
  BY DEF DecodeLine
<1>2. /\ e \in LineEnds(body) /\ r < e /\ e \in 0..Len(body)
      /\ \A x \in LineEnds(body) : x < e <=> x <= r
      /\ LineAt(body, e) = FirstLine(buf)
      /\ \A x \in Stops(body) : e <= x
      /\ e \in Stops(body) <=> m \in {"completion", "malformed"}
  BY <1>1, LineIsNext
<1>3. /\ body \in Seq(Symbols) /\ buf \in Seq(Symbols)
      /\ Len(body) \in Nat /\ Len(buf) \in Nat /\ Len(wire) \in Nat /\ r \in Nat
  BY BodyTyped
<1>4. /\ Len(tokens) \in Nat
      /\ Len(tokens') = Len(tokens) + IF m = "token" THEN 1 ELSE 0
  BY StampCounts DEF DecodeLine
<1>5. Len(tokens) = TokensBefore(body, r + 1)
  BY DEF Reading
<1>6. /\ TokensBefore(body, e) = TokensBefore(body, r + 1)
      /\ TokensBefore(body, e + 1) = TokensBefore(body, r + 1) + IF m = "token" THEN 1 ELSE 0
  <2> HIDE DEF e, body
  <2> QED BY <1>2, <1>3, TokensThen
<1>7. CASE m \in {"completion", "malformed"}
  <2>1. LineEnds(body) \in SUBSET Int /\ IsFiniteSet(LineEnds(body))
    BY <1>3, LineEndsOf
  <2>2. Stops(body) \in SUBSET Int /\ IsFiniteSet(Stops(body)) /\ e \in Stops(body)
    BY <1>2, <1>7, <2>1, FS_Subset DEF Stops
  <2>3. Min(Stops(body)) \in Stops(body) /\ \A x \in Stops(body) : Min(Stops(body)) <= x
    BY <2>2, MinIsLeast
  <2>4. Min(Stops(body)) = e
    <3>1. Min(Stops(body)) \in Int /\ Min(Stops(body)) <= e /\ e <= Min(Stops(body)) /\ e \in Int
      BY <1>2, <2>2, <2>3
    <3> QED BY <3>1
  <2>5. Len(tokens') = TokensBefore(body, e)
    BY <1>4, <1>5, <1>6, <1>7
  <2>6. Stops(body) # {} /\ Meaning(LineAt(body, Min(Stops(body)))) = m
    BY <1>2, <2>2, <2>4
  <2>7. \A v : v = (IF m = "completion" THEN "ok" ELSE "malformed") => Concluded(v)'
    BY <1>1, <2>4, <2>5, <2>6 DEF Concluded
  <2>8. CASE m = "malformed"
    <3>1. pc' = "end" /\ result' = "malformed"
      BY <2>8 DEF DecodeLine, Return
    <3>2. Concluded("malformed")'
      BY <2>7, <2>8
    <3> QED BY <3>1, <3>2 DEF ReadInv
  <2>9. CASE m = "completion"
    <3>1. pc' = "total" /\ result' = "pending" /\ finished' = TRUE
      BY <2>9 DEF DecodeLine
    <3>2. Concluded("ok")'
      BY <2>7, <2>9
    <3>3. Concluded(IF finished THEN "ok" ELSE "truncated")'
      BY <3>1, <3>2
    <3> QED BY <3>1, <3>3 DEF ReadInv
  <2> QED BY <1>7, <2>8, <2>9
<1>8. CASE m \notin {"completion", "malformed"}
  <2>1. pc' = "decode" /\ result' = "pending"
    BY <1>8 DEF DecodeLine
  <2>2. /\ Len(buf') = Len(buf) - f
        /\ \A i \in 1..(Len(buf) - f) : buf'[i] = buf[f + i]
        /\ f \in 1..Len(buf)
    BY <1>1, <1>3, PastTheLine
  <2>3. /\ Len(buf) + Len(wire) = Len(body) - r
        /\ \A i \in 1..Len(buf) : buf[i] = body[r + i]
        /\ \A i \in 1..Len(wire) : wire[i] = body[r + Len(buf) + i]
    BY DEF Reading
  <2> HIDE DEF f
  <2>4. Len(buf') + Len(wire') = Len(body) - e
    <3>1. Len(wire') = Len(wire) /\ f \in Nat
      BY <1>1, <1>3, <2>2
    <3> QED BY <3>1, <1>3, <2>2, <2>3
  <2>5. ASSUME NEW i \in 1..Len(buf') PROVE buf'[i] = body[e + i]
    <3>1. i \in 1..(Len(buf) - f) /\ f + i \in 1..Len(buf) /\ r + (f + i) = e + i
      BY <1>3, <2>2
    <3> QED BY <3>1, <2>2, <2>3
  <2>6. ASSUME NEW i \in 1..Len(wire') PROVE wire'[i] = body[e + Len(buf') + i]
    <3>1. i \in 1..Len(wire) /\ wire'[i] = wire[i]
      BY <1>1
    <3>2. e + Len(buf') + i = r + Len(buf) + i
      BY <3>1, <1>3, <2>2
    <3> QED BY <3>1, <3>2, <2>3
  <2>7. \A x \in Stops(body) : e < x
    <3>1. LineEnds(body) \in SUBSET Int
      BY <1>3, LineEndsOf
    <3>2. Stops(body) \in SUBSET Int /\ e \in Int /\ e \notin Stops(body)
      BY <1>2, <1>8, <3>1 DEF Stops
    <3> HIDE DEF e, body
    <3> QED BY <3>2, <1>2
  <2>8. Len(tokens') = TokensBefore(body, e + 1)
    BY <1>4, <1>5, <1>6
  <2> HIDE DEF e
  <2>9. PICK at \in 0..Len(body) : at = e
    BY <1>2
  <2>10. Reading(at)'
    BY <1>1, <1>2, <2>4, <2>5, <2>6, <2>7, <2>8, <2>9 DEF Reading
  <2>11. \E x \in 0..Len(engine'.body) : Reading(x)'
    BY <1>1, <2>10
  <2> QED BY <2>1, <2>11 DEF ReadInv
<1> QED BY <1>7, <1>8

\* What follows the last newline concludes a body that nothing stopped.
LEMMA FlushStep ==
  ASSUME TypeOK, NEW r \in 0..Len(engine.body), Reading(r), result = "pending",
         LineEnds(buf) = {}, wire = <<>>, Flush
  PROVE  ReadInv'
<1> DEFINE body == engine.body
           rest == StripCr(buf)
           m == Meaning(rest)
           bad == "bad" \in {rest[i] : i \in DOMAIN rest}
<1>1. /\ body \in Seq(Symbols) /\ buf \in Seq(Symbols)
      /\ Len(body) \in Nat /\ Len(buf) \in Nat /\ r \in Nat /\ Len(wire) = 0
  BY BodyTyped
<1>2. /\ Len(buf) + Len(wire) = Len(body) - r
      /\ \A i \in 1..Len(buf) : buf[i] = body[r + i]
      /\ r \in {0} \cup LineEnds(body)
      /\ \A x \in Stops(body) : r < x
      /\ Len(tokens) = TokensBefore(body, r + 1)
  BY DEF Reading
<1>3. r + Len(buf) = Len(body) /\ r \in 0..Len(body)
  BY <1>1, <1>2
<1>4. /\ \A x \in LineEnds(body) : x <= r
      /\ Rest(body) = rest
      /\ TokensBefore(body, Len(body) + 1) = TokensBefore(body, r + 1)
  <2> HIDE DEF body
  <2> QED BY <1>1, <1>2, <1>3, LastLine
<1>5. Stops(body) = {}
  <2> SUFFICES ASSUME NEW x \in Stops(body) PROVE FALSE
    OBVIOUS
  <2>1. LineEnds(body) \in SUBSET Int
    BY <1>1, LineEndsOf
  <2>2. x \in Int /\ r < x /\ x <= r
    BY <1>2, <1>4, <2>1 DEF Stops
  <2> QED BY <1>1, <2>2
<1>6. Len(tokens') = TokensBefore(body, Len(body) + 1) + IF m = "token" THEN 1 ELSE 0
  BY <1>2, <1>4, StampCounts DEF Flush
<1>7. UNCHANGED engine /\ finished' = (m = "completion")
  BY DEF Flush
<1>8. bad => m = "malformed"
  BY DEF Meaning
<1> HIDE DEF rest, m
<1>9. \A v : v = (CASE m = "completion" -> "ok" [] bad -> "malformed" [] OTHER -> "truncated")
             => Concluded(v)'
  BY <1>4, <1>5, <1>6, <1>7 DEF Concluded, m
<1>10. CASE bad
  <2>1. pc' = "end" /\ result' = "malformed"
    BY <1>10 DEF Flush, Return, rest
  <2>2. Concluded("malformed")'
    <3> HIDE DEF bad
    <3> QED BY <1>8, <1>9, <1>10
  <2> QED BY <2>1, <2>2 DEF ReadInv
<1>11. CASE ~bad
  <2>1. pc' = "total" /\ result' = "pending"
    BY <1>11 DEF Flush, rest
  <2>2. Concluded(IF finished THEN "ok" ELSE "truncated")'
    <3> HIDE DEF bad
    <3>1. CASE m = "completion"
      <4>1. Concluded("ok")'
        BY <1>9, <1>11, <3>1
      <4> QED BY <1>7, <3>1, <4>1
    <3>2. CASE m # "completion"
      <4>1. Concluded("truncated")'
        BY <1>9, <1>11, <3>2
      <4> QED BY <1>7, <3>2, <4>1
    <3> QED BY <3>1, <3>2
  <2> QED BY <2>1, <2>2 DEF ReadInv
<1> QED BY <1>10, <1>11

\* A probe has read nothing at first.
LEMMA ReadInit == Init => ReadInv
<1> SUFFICES ASSUME Init PROVE ReadInv
  OBVIOUS
<1>1. TypeOK /\ buf = <<>> /\ wire = engine.body /\ tokens = <<>> /\ pc = "start"
      /\ result = "pending"
  BY TypesInit DEF Init
<1>2. Len(engine.body) \in Nat /\ engine.body \in Seq(Symbols)
  BY <1>1, BodyTyped
<1>3. \A e \in LineEnds(engine.body) : e \in Nat /\ 0 < e
  BY <1>2, LineEndsOf
<1>4. TokensBefore(engine.body, 0 + 1) = 0
  <2>1. {e \in LineEnds(engine.body) :
           e < 0 + 1 /\ Meaning(LineAt(engine.body, e)) = "token"} = {}
    BY <1>3
  <2> QED BY <2>1, FS_EmptySet DEF TokensBefore
<1>5. Len(buf) = 0 /\ Len(tokens) = 0
  BY <1>1
<1>6. \A e \in Stops(engine.body) : 0 < e
  BY <1>3 DEF Stops
<1>7. Reading(0)
  BY <1>1, <1>2, <1>4, <1>5, <1>6 DEF Reading
<1> QED BY <1>1, <1>2, <1>7 DEF ReadInv

\* Every step keeps the probe at the end of a line of the body, or concludes.
LEMMA ReadStep == TypeOK /\ ReadInv /\ [Next]_vars => ReadInv'
<1> SUFFICES ASSUME TypeOK, ReadInv, [Next]_vars PROVE ReadInv'
  OBVIOUS
<1>0. pc # "end" => result = "pending"
  BY DEF TypeOK
<1>1. CASE Dispatch \/ Accept \/ StreamEnds \/ NoLineLeft
  <2>1. /\ UNCHANGED <<engine, buf, wire, tokens, result>>
        /\ pc \notin {"total", "end"} /\ pc' \notin {"total", "end"}
        /\ pc' \in {"start", "sent"} => buf = <<>>
        /\ pc' = "flush" => wire = <<>>
    BY <1>1 DEF Dispatch, Accept, StreamEnds, NoLineLeft, ReadInv
  <2>2. pc' \in {"receive", "flush"} => LineEnds(buf) = {}
    <3>1. LineEnds(<<>>) = {}
      BY DEF LineEnds
    <3> QED BY <1>1, <3>1 DEF Dispatch, Accept, StreamEnds, NoLineLeft, ReadInv
  <2>3. \A r : Reading(r)' <=> Reading(r)
    BY <2>1, ReadingStable
  <2> QED BY <1>0, <2>1, <2>2, <2>3 DEF ReadInv
<1>2. CASE TransportFails \/ RefuseStatus
  <2>1. pc' = "end" /\ result' \notin {"ok", "truncated", "malformed"}
    BY <1>2 DEF TransportFails, RefuseStatus, Return
  <2> QED BY <2>1 DEF ReadInv
<1>3. CASE ReceiveChunk
  <2>1. pc = "receive" /\ pc' = "decode" /\ UNCHANGED <<result, engine>>
    BY <1>3 DEF ReceiveChunk
  <2>2. PICK r \in 0..Len(engine.body) : Reading(r)
    BY <2>1 DEF ReadInv
  <2>3. Reading(r)'
    BY <1>3, <2>2, ReceiveStep
  <2> QED BY <1>0, <2>1, <2>3 DEF ReadInv
<1>4. CASE DecodeLine
  <2>1. pc = "decode"
    BY <1>4 DEF DecodeLine
  <2>2. PICK r \in 0..Len(engine.body) : Reading(r)
    BY <2>1 DEF ReadInv
  <2> QED BY <1>0, <1>4, <2>1, <2>2, DecodeStep
<1>5. CASE Flush
  <2>1. pc = "flush"
    BY <1>5 DEF Flush
  <2>2. PICK r \in 0..Len(engine.body) : Reading(r)
    BY <2>1 DEF ReadInv
  <2>3. LineEnds(buf) = {} /\ wire = <<>>
    BY <2>1 DEF ReadInv
  <2> QED BY <1>0, <1>5, <2>1, <2>2, <2>3, FlushStep
<1>6. CASE Finish
  <2>1. /\ pc = "total" /\ pc' = "end" /\ result' = IF finished THEN "ok" ELSE "truncated"
        /\ UNCHANGED <<engine, buf, wire, tokens>>
    BY <1>6 DEF Finish, Return
  <2>2. Concluded(result')
    BY <2>1 DEF ReadInv
  <2>3. \A v : Concluded(v)' <=> Concluded(v)
    BY <2>1, ReadingStable
  <2>4. Concluded(result)'
    BY <2>2, <2>1 DEF Concluded
  <2> QED BY <2>1, <2>4 DEF ReadInv
<1>7. CASE Tick \/ UNCHANGED vars
  <2>1. UNCHANGED <<engine, buf, wire, tokens, pc, result, finished>>
    BY <1>7 DEF Tick, vars
  <2>2. (\A r : Reading(r)' <=> Reading(r)) /\ \A v : Concluded(v)' <=> Concluded(v)
    BY <2>1, ReadingStable
  <2>3. /\ Concluded(result)' <=> Concluded(result)
        /\ Concluded(IF finished THEN "ok" ELSE "truncated")'
             <=> Concluded(IF finished THEN "ok" ELSE "truncated")
    BY <2>1 DEF Concluded
  <2> QED BY <2>1, <2>2, <2>3 DEF ReadInv
<1> QED BY <1>1, <1>2, <1>3, <1>4, <1>5, <1>6, <1>7 DEF Next, Local

\* It holds of every probe.
LEMMA ReadingHolds == Spec => []ReadInv
  BY TypesHold, ReadInit, ReadStep, PTL DEF Spec

(* Whatever bodies an engine may send and however they are cut into        *)
(* chunks, the result and the number of tokens are those of the body read  *)
(* at once, its last line ended or not (is-probe, runner.rs and            *)
(* decoder.rs); and the probe keeps its types.                             *)
THEOREM ChunkingIsInvisible == Spec => []ResultIsOfTheBody
<1>1. TypeOK /\ ReadInv => ResultIsOfTheBody
  BY DEF ReadInv, Concluded, ResultIsOfTheBody
<1> QED BY <1>1, TypesHold, ReadingHolds, PTL

-----------------------------------------------------------------------------
\* The refinement.  What is in the decoder is at the front of all that is
\* unread.
LEMMA FrontOfBoth ==
  ASSUME NEW s \in Seq(Symbols), NEW t \in Seq(Symbols), LineEnds(s) # {}
  PROVE  /\ LineEnds(s \o t) # {}
         /\ FirstLine(s \o t) = FirstLine(s)
         /\ PastFirstLine(s \o t) = PastFirstLine(s) \o t
<1> DEFINE u == s \o t
           f == Min(LineEnds(s))
           n == Len(s)
           k == Len(t)
<1>1. /\ n \in Nat /\ k \in Nat /\ u \in Seq(Symbols) /\ Len(u) = n + k
      /\ \A i \in 1..(n + k) : u[i] = IF i <= n THEN s[i] ELSE t[i - n]
  BY ConcatProperties, LenProperties
<1>2. f \in LineEnds(s) /\ f \in 1..n /\ \A x \in LineEnds(s) : f <= x
  BY FirstLineEnd
<1> HIDE DEF u, f
<1>3. f \in LineEnds(u) /\ f \in Nat
  <2>1. f \in 1..Len(u) /\ u[f] = s[f]
    BY <1>1, <1>2
  <2>2. s[f] = "nl"
    BY <1>2, LineEndsOf
  <2> QED BY <1>1, <1>2, <2>1, <2>2, LineEndsOf
<1>4. \A x \in LineEnds(u) : f <= x
  <2> SUFFICES ASSUME NEW x \in LineEnds(u) PROVE f <= x
    OBVIOUS
  <2>1. x \in 1..(n + k) /\ u[x] = "nl"
    BY <1>1, LineEndsOf
  <2>2. CASE x <= n
    <3>1. x \in 1..n /\ s[x] = "nl"
      BY <1>1, <2>1, <2>2
    <3>2. x \in LineEnds(s)
      BY <3>1, LineEndsOf
    <3> QED BY <1>2, <3>2
  <2>3. CASE ~(x <= n)
    BY <1>1, <1>2, <2>1, <2>3
  <2> QED BY <2>2, <2>3
<1>5. Min(LineEnds(u)) = f
  <2>1. LineEnds(u) # {} /\ LineEnds(u) \in SUBSET Int
    BY <1>1, <1>3, LineEndsOf
  <2>2. Min(LineEnds(u)) \in LineEnds(u) /\ \A x \in LineEnds(u) : Min(LineEnds(u)) <= x
    BY <1>1, <2>1, FirstLineEnd
  <2>3. Min(LineEnds(u)) \in Int /\ Min(LineEnds(u)) <= f /\ f <= Min(LineEnds(u))
    BY <1>3, <1>4, <2>1, <2>2
  <2> QED BY <1>3, <2>3
<1>6. SubSeq(u, 1, f - 1) = SubSeq(s, 1, f - 1)
  <2>1. CASE f = 1
    <3>1. f - 1 < 1 /\ f - 1 \in Int /\ 1 \in Int
      BY <2>1
    <3>2. SubSeq(u, 1, f - 1) = <<>> /\ SubSeq(s, 1, f - 1) = <<>>
      BY <3>1, SubSeqEmpty
    <3> QED BY <3>2
  <2>2. CASE f # 1
    <3>1. 1 \in 1..n /\ f - 1 \in 1..n
      BY <1>1, <1>2, <2>2
    <3> QED BY <3>1, SubSeqOfConcat1 DEF u
  <2> QED BY <2>1, <2>2
<1>7. FirstLine(u) = FirstLine(s)
  BY <1>5, <1>6 DEF FirstLine, f
<1> DEFINE p == PastFirstLine(s)
           q == PastFirstLine(u)
<1>8. p \in Seq(Symbols) /\ Len(p) = n - f /\ \A i \in 1..(n - f) : p[i] = s[f + i]
  BY PastTheLine DEF f
<1>9. q \in Seq(Symbols) /\ Len(q) = n + k - f /\ \A i \in 1..(n + k - f) : q[i] = u[f + i]
  <2>1. LineEnds(u) # {}
    BY <1>3
  <2> QED BY <1>1, <1>5, <2>1, PastTheLine
<1> HIDE DEF p, q
<1>10. /\ p \o t \in Seq(Symbols) /\ Len(p \o t) = (n - f) + k
       /\ \A i \in 1..((n - f) + k) : (p \o t)[i] = IF i <= n - f THEN p[i] ELSE t[i - (n - f)]
  <2>1. /\ p \o t \in Seq(Symbols) /\ Len(p \o t) = Len(p) + Len(t)
        /\ \A i \in 1..(Len(p) + Len(t)) :
             (p \o t)[i] = IF i <= Len(p) THEN p[i] ELSE t[i - Len(p)]
    BY <1>8, ConcatProperties
  <2>2. Len(p) = n - f
    BY <1>8
  <2> QED BY <2>1, <2>2
<1>11. q = p \o t
  <2> DEFINE pt == p \o t
  <2>1. pt \in Seq(Symbols) /\ Len(q) = Len(pt)
    BY <1>1, <1>2, <1>9, <1>10
  <2>2. \A i \in 1..Len(q) : q[i] = pt[i]
    <3> SUFFICES ASSUME NEW i \in 1..(n + k - f) PROVE q[i] = pt[i]
      BY <1>9
    <3>1. q[i] = u[f + i] /\ f + i \in 1..(n + k)
      BY <1>1, <1>2, <1>9
    <3>2. i \in 1..((n - f) + k)
      BY <1>1, <1>2
    <3>3. CASE i <= n - f
      <4>1. i \in 1..(n - f) /\ f + i <= n
        BY <1>1, <1>2, <3>3
      <4>2. pt[i] = p[i] /\ p[i] = s[f + i]
        BY <1>8, <1>10, <3>2, <4>1
      <4> QED BY <1>1, <3>1, <4>1, <4>2
    <3>4. CASE ~(i <= n - f)
      <4>1. ~(f + i <= n) /\ f + i - n = i - (n - f)
        BY <1>1, <1>2, <3>4
      <4>2. pt[i] = t[i - (n - f)]
        BY <1>10, <3>2, <3>4
      <4>3. \A j \in 1..(n + k) : ~(j <= n) => u[j] = t[j - n]
        BY <1>1
      <4>4. u[f + i] = t[f + i - n]
        <5>1. f \in Nat /\ i \in Nat /\ n \in Nat /\ k \in Nat
          BY <1>1, <1>3
        <5>2. PICK j \in 1..(n + k) : j = f + i
          BY <3>1
        <5> QED BY <4>1, <4>3, <5>1, <5>2
      <4> QED BY <3>1, <4>1, <4>2, <4>4
    <3> QED BY <3>3, <3>4
  <2> HIDE DEF pt
  <2>3. q = pt
    BY <1>9, <2>1, <2>2, SeqEqual
  <2> QED BY <2>3 DEF pt
<1> QED BY <1>3, <1>7, <1>11 DEF u, p, q

\* The whole body is read by the operators that the chunks are read by.
LEMMA SameReading ==
  ASSUME NEW s
  PROVE  /\ Whole!LineEnds(s) = LineEnds(s) /\ Whole!StripCr(s) = StripCr(s)
         /\ Whole!FirstLine(s) = FirstLine(s) /\ Whole!PastFirstLine(s) = PastFirstLine(s)
         /\ Whole!Meaning(s) = Meaning(s)
<1>1. \A l : Whole!LineEnds(l) = LineEnds(l) /\ Whole!StripCr(l) = StripCr(l)
  BY DEF Whole!LineEnds, LineEnds, Whole!StripCr, StripCr
<1>2. \A S : Whole!Min(S) = Min(S)
  BY DEF Whole!Min, Min
<1>3. Whole!Meaning(s) = Meaning(s)
  BY DEF Whole!Meaning, Meaning
<1> QED BY <1>1, <1>2, <1>3 DEF Whole!FirstLine, FirstLine, Whole!PastFirstLine, PastFirstLine

\* While the probe has not come to an end there is no verdict.
LEMMA NoVerdictYet ==
  ASSUME TypeOK, pc \notin {"total", "end"}
  PROVE  Verdict = "pending"
  BY DEF TypeOK, Verdict

\* Every step reads a line of the whole body, or nothing of it.
LEMMA WholeStep ==
  TypeOK /\ TypeOK' /\ ReadInv /\ [Next]_vars
    => [Whole!Next]_<<Unread, Len(tokens), Verdict>>
<1> SUFFICES ASSUME TypeOK, TypeOK', ReadInv, [Next]_vars
             PROVE  Whole!Next \/ UNCHANGED <<Unread, Len(tokens), Verdict>>
  OBVIOUS
<1>1. CASE Dispatch \/ Accept \/ StreamEnds \/ NoLineLeft
  BY <1>1 DEF Dispatch, Accept, StreamEnds, NoLineLeft, Unread, Verdict
<1>2. CASE TransportFails \/ RefuseStatus
  <2>1. /\ pc \notin {"total", "end"} /\ pc' = "end"
        /\ result' \in {"transport", "http_status", "panicked"}
        /\ UNCHANGED <<buf, wire, tokens>>
    BY <1>2 DEF TransportFails, RefuseStatus, Return
  <2>2. Verdict = "pending" /\ Verdict' = result'
    BY <2>1, NoVerdictYet DEF Verdict
  <2> QED BY <2>1, <2>2 DEF Whole!Next, Whole!Refuse, Unread
<1>3. CASE ReceiveChunk
  <2>1. PICK n \in 1..Len(wire) : /\ buf' = buf \o SubSeq(wire, 1, n)
                                  /\ wire' = SubSeq(wire, n + 1, Len(wire))
    BY <1>3 DEF ReceiveChunk
  <2>2. buf \in Seq(Symbols) /\ wire \in Seq(Symbols) /\ n \in 0..Len(wire)
    BY BodyTyped
  <2> DEFINE a == SubSeq(wire, 1, n)
             b == SubSeq(wire, n + 1, Len(wire))
  <2>3. a \in Seq(Symbols) /\ b \in Seq(Symbols) /\ a \o b = wire
    BY <2>2, CutInTwo
  <2>4. buf' = buf \o a /\ wire' = b
    BY <2>1
  <2> HIDE DEF a, b
  <2>5. (buf \o a) \o b = buf \o (a \o b)
    <3>1. \A x, y, z \in Seq(Symbols) : (x \o y) \o z = x \o (y \o z)
      BY ConcatAssociative
    <3> QED BY <2>2, <2>3, <3>1
  <2>6. UNCHANGED <<tokens, result, finished>> /\ pc = "receive" /\ pc' = "decode"
    BY <1>3 DEF ReceiveChunk
  <2> QED BY <2>3, <2>4, <2>5, <2>6 DEF Unread, Verdict
<1>4. CASE DecodeLine
  <2> DEFINE m == Meaning(FirstLine(buf))
  <2>1. /\ pc = "decode" /\ LineEnds(buf) # {} /\ Stamp(FirstLine(buf))
        /\ buf' = PastFirstLine(buf) /\ wire' = wire /\ finished' = (m = "completion")
        /\ IF m = "malformed" THEN pc' = "end" /\ result' = m
           ELSE pc' = (IF m = "completion" THEN "total" ELSE "decode") /\ result' = result
    BY <1>4 DEF DecodeLine, Return
  <2>2. buf \in Seq(Symbols) /\ wire \in Seq(Symbols)
    BY BodyTyped
  <2>3. /\ LineEnds(Unread) # {} /\ FirstLine(Unread) = FirstLine(buf)
        /\ Unread' = PastFirstLine(Unread)
    BY <2>1, <2>2, FrontOfBoth DEF Unread
  <2>4. /\ Len(tokens) \in Nat
        /\ Len(tokens') = IF m = "token" THEN Len(tokens) + 1 ELSE Len(tokens)
    BY <2>1, StampCounts
  <2>5. Verdict = "pending" /\ result = "pending"
    BY <2>1, NoVerdictYet DEF TypeOK
  <2> HIDE DEF m
  <2>6. Verdict' = CASE m = "completion" -> "ok"
                     [] m = "malformed"  -> "malformed"
                     [] OTHER            -> "pending"
    <3>1. CASE m = "completion"
      BY <2>1, <3>1 DEF Verdict
    <3>2. CASE m = "malformed"
      BY <2>1, <3>2 DEF Verdict
    <3>3. CASE m \notin {"completion", "malformed"}
      BY <2>1, <2>5, <3>3 DEF Verdict
    <3> QED BY <3>1, <3>2, <3>3
  <2>7. Whole!Read(FirstLine(Unread))
    BY <2>3, <2>4, <2>6, SameReading DEF Whole!Read, m
  <2> QED BY <2>3, <2>5, <2>7, SameReading DEF Whole!Next, Whole!TakeLine
<1>5. CASE Flush
  <2> DEFINE rest == StripCr(buf)
             m == Meaning(rest)
             bad(l) == "bad" \in {l[i] : i \in DOMAIN l}
  <2>1. /\ pc = "flush" /\ Stamp(rest) /\ buf' = <<>> /\ wire' = wire
        /\ finished' = (m = "completion")
        /\ IF bad(rest) THEN pc' = "end" /\ result' = "malformed"
           ELSE pc' = "total" /\ result' = result
    BY <1>5 DEF Flush, Return
  <2>2. buf \in Seq(Symbols) /\ LineEnds(buf) = {} /\ wire = <<>>
    BY <2>1, BodyTyped DEF ReadInv
  <2>3. Unread = buf /\ Unread' = <<>>
    <3>1. buf \o <<>> = buf
      BY <2>2, ConcatEmptySeq
    <3>2. <<>> \in Seq(Symbols) /\ <<>> \o <<>> = <<>>
      BY EmptySeq, ConcatEmptySeq
    <3> QED BY <2>1, <2>2, <3>1, <3>2 DEF Unread
  <2>4. /\ Len(tokens) \in Nat
        /\ Len(tokens') = IF m = "token" THEN Len(tokens) + 1 ELSE Len(tokens)
    BY <2>1, StampCounts
  <2>5. Verdict = "pending" /\ result = "pending"
    BY <2>1, NoVerdictYet DEF TypeOK
  <2>6. bad(rest) => m = "malformed"
    BY DEF Meaning
  <2>7. bad(rest) <=> bad(buf)
    <3>1. CASE buf # <<>> /\ buf[Len(buf)] = "cr"
      <4>1. Len(buf) \in Nat /\ DOMAIN buf = 1..Len(buf) /\ Len(buf) \in 1..Len(buf)
        BY <2>2, <3>1, LenProperties, EmptySeq
      <4>2. Len(buf) - 1 \in 0..Len(buf)
        BY <4>1
      <4>3. rest = SubSeq(buf, 1, Len(buf) - 1)
        BY <3>1 DEF StripCr
      <4> DEFINE n == Len(buf) - 1
                 c == SubSeq(buf, 1, n)
      <4>4. c \in Seq(Symbols) /\ Len(c) = n /\ \A i \in 1..n : c[i] = buf[i]
        <5> HIDE DEF n
        <5> QED BY <2>2, <4>2, CutInTwo DEF n
      <4> HIDE DEF c
      <4>5. DOMAIN c = 1..n
        BY <4>4, LenProperties
      <4>6. \A i \in 1..Len(buf) : buf[i] = "bad" => i \in 1..n
        BY <3>1, <4>1
      <4>7. bad(c) <=> bad(buf)
        BY <4>1, <4>4, <4>5, <4>6
      <4> QED BY <4>3, <4>7 DEF c
    <3>2. CASE ~(buf # <<>> /\ buf[Len(buf)] = "cr")
      BY <3>2 DEF StripCr
    <3> QED BY <3>1, <3>2
  <2> HIDE DEF m, bad, rest
  <2>8. Verdict' = CASE m = "completion" -> "ok"
                     [] bad(buf)         -> "malformed"
                     [] OTHER            -> "truncated"
    <3>1. CASE bad(buf)
      BY <2>1, <2>6, <2>7, <3>1 DEF Verdict
    <3>2. CASE ~bad(buf) /\ m = "completion"
      BY <2>1, <2>7, <3>2 DEF Verdict
    <3>3. CASE ~bad(buf) /\ m # "completion"
      BY <2>1, <2>7, <3>3 DEF Verdict
    <3> QED BY <3>1, <3>2, <3>3
  <2>9. m = Meaning(StripCr(Unread)) /\ LineEnds(Unread) = {}
    BY <2>2, <2>3 DEF m, rest
  <2>10. Whole!TakeRest
    BY <2>3, <2>4, <2>5, <2>8, <2>9, SameReading DEF Whole!TakeRest, bad
  <2> QED BY <2>10 DEF Whole!Next
<1>6. CASE Finish
  <2>1. Verdict' = Verdict
    BY <1>6 DEF Finish, Return, Verdict
  <2> QED BY <1>6, <2>1 DEF Finish, Unread
<1>7. CASE Tick \/ UNCHANGED vars
  BY <1>7 DEF Tick, vars, Unread, Verdict
<1> QED BY <1>1, <1>2, <1>3, <1>4, <1>5, <1>6, <1>7 DEF Next, Local

(* The probe on chunks implements the probe on the whole body: step by     *)
(* step it reads the body's next line as if the body lay there, whatever   *)
(* the bodies and however they arrive (is-probe, runner.rs, run).          *)
THEOREM ProbeReadsTheWholeBody == Spec => ImplementsWholeBodyProbe
<1>1. Init => Whole!Init
  <2> SUFFICES ASSUME Init PROVE Whole!Init
    OBVIOUS
  <2>1. engine.body \in Bodies
    BY ProbeAssumption DEF Init, Answers
  <2>2. Unread = engine.body
    BY <2>1, ProbeAssumption, ConcatEmptySeq DEF Init, Unread
  <2>3. Len(tokens) = 0 /\ Verdict = "pending"
    BY DEF Init, Verdict
  <2> QED BY <2>1, <2>2, <2>3 DEF Whole!Init
<1>2. TypeOK /\ TypeOK' /\ ReadInv /\ [Next]_vars
        => [Whole!Next]_<<Unread, Len(tokens), Verdict>>
  BY WholeStep
<1> QED BY <1>1, <1>2, TypesHold, ReadingHolds, PTL
     DEF Spec, ImplementsWholeBodyProbe, Whole!Spec

-----------------------------------------------------------------------------
(* What is reported of the request (module ProbeReport).                   *)

\* A request that has ended well ended by now.
EndInv ==
  result # "pending" => /\ pc = "end"
                        /\ result = "ok" => total <= now - origin

\* Every step keeps it: what concludes a request reads the clock as it does,
\* and after that the clock only goes on.
LEMMA EndStep == EndInv /\ ClockInv /\ [Next]_vars => EndInv'
<1> SUFFICES ASSUME EndInv, ClockInv, [Next]_vars PROVE EndInv'
  OBVIOUS
<1> USE DEF EndInv
<1>1. CASE pc = "end"
  <2>1. UNCHANGED vars \/ Tick
    BY <1>1 DEF Next, Local, Dispatch, TransportFails, Accept, RefuseStatus, ReceiveChunk,
         StreamEnds, DecodeLine, NoLineLeft, Flush, Finish
  <2>2. now \in Nat /\ origin \in Nat /\ total \in Nat
    BY DEF ClockInv
  <2> QED BY <2>1, <2>2 DEF vars, Tick
<1>2. CASE pc # "end"
  <2>1. result = "pending"
    BY <1>2 DEF ClockInv
  <2>2. CASE Dispatch \/ Accept \/ ReceiveChunk \/ StreamEnds \/ NoLineLeft \/ Tick
    BY <2>1, <2>2 DEF Dispatch, Accept, ReceiveChunk, StreamEnds, NoLineLeft, Tick
  <2>3. CASE TransportFails \/ RefuseStatus \/ DecodeLine \/ Flush
    BY <2>1, <2>3 DEF TransportFails, RefuseStatus, DecodeLine, Flush, Return
  <2>4. CASE Finish
    BY <2>4 DEF Finish, Return
  <2>5. CASE UNCHANGED vars
    BY <2>5 DEF vars
  <2> QED BY <2>2, <2>3, <2>4, <2>5 DEF Next, Local
<1> QED BY <1>1, <1>2

\* The types, the clock and the end always hold.
LEMMA EndHolds == Spec => [](ClockInv /\ EndInv)
<1>1. Init => ClockInv /\ EndInv
  BY DEF Init, ClockInv, EndInv
<1> QED BY <1>1, ClockStep, EndStep, PTL DEF Spec

\* The stamps of the tokens.
LEMMA ElapsedTimes ==
  ASSUME ClockInv
  PROVE  /\ Len(tokens) \in Nat /\ DOMAIN tokens = 1..Len(tokens)
         /\ Elapsed \in Seq(Nat) /\ Len(Elapsed) = Len(tokens)
         /\ \A i \in DOMAIN tokens : /\ Elapsed[i] = tokens[i].at - origin
                                    /\ Elapsed[i] \in Nat /\ tokens[i].at \in Nat
         /\ \A i, j \in DOMAIN tokens : i < j => Elapsed[i] <= Elapsed[j]
<1>1. Len(tokens) \in Nat /\ DOMAIN tokens = 1..Len(tokens)
  <2>1. tokens \in Seq([elapsed : Nat, at : Nat])
    BY DEF ClockInv
  <2> QED BY <2>1, LenProperties
<1>2. ASSUME NEW i \in DOMAIN tokens
      PROVE  Elapsed[i] = tokens[i].at - origin /\ Elapsed[i] \in Nat /\ tokens[i].at \in Nat
  BY TokenFields DEF ClockInv, Elapsed
<1>3. DOMAIN Elapsed = 1..Len(tokens)
  BY <1>1 DEF Elapsed
<1>4. Elapsed = [i \in 1..Len(tokens) |-> Elapsed[i]]
  BY <1>1 DEF Elapsed
<1>5. Elapsed \in Seq(Nat) /\ Len(Elapsed) = Len(tokens)
  BY <1>1, <1>2, <1>4
<1>6. ASSUME NEW i \in DOMAIN tokens, NEW j \in DOMAIN tokens, i < j
      PROVE  Elapsed[i] <= Elapsed[j]
  <2>1. tokens[i].at <= tokens[j].at /\ origin \in Nat
    BY <1>6 DEF ClockInv
  <2> QED BY <2>1, <1>2
<1> QED BY <1>1, <1>2, <1>5, <1>6

(* For any bodies and delays, whether or not the system clock gives an     *)
(* anchor and however late the report is exported, the events of the span  *)
(* lie in it, in order, and are shifted from the arrivals by the same time *)
(* for all: to an earlier one with the anchor, to a later one without it   *)
(* (otel.rs, export_to_otel).                                              *)
THEOREM EventsKeepTheirDistances == Spec => []SpanKeepsTheTokens
<1>1. ASSUME ClockInv, EndInv, result = "ok", NEW anchor \in {{}, {0}},
             NEW i \in DOMAIN tokens
      PROVE  LET span == Span(ReportOf(anchor, {}, {}, {}), now)
                 shift(k) == span.events[k] - tokens[k].at
             IN /\ span.start <= span.events[i] /\ span.events[i] <= span.end
                /\ \A j \in DOMAIN span.events : i < j => span.events[i] <= span.events[j]
                /\ shift(i) = shift(1)
                /\ IF anchor = {} THEN shift(i) >= 0 ELSE shift(i) <= 0
  <2> DEFINE report == ReportOf(anchor, {}, {}, {})
             start == SpanStart(report, now)
             span == Span(report, now)
  <2>1. now \in Nat /\ origin \in Nat /\ total \in Nat /\ total <= now - origin
    BY <1>1 DEF ClockInv, EndInv
  <2>2. report.timing.total_latency = total /\ report.anchor = anchor /\ report.tokens = Elapsed
    BY DEF ReportOf, TimingFigures, DeriveTiming
  <2>3. start \in Int /\ IF anchor = {} THEN start >= origin ELSE start <= origin
    <3>1. CASE anchor = {}
      BY <2>1, <2>2, <3>1 DEF SpanStart
    <3>2. CASE anchor = {0}
      BY <2>1, <2>2, <3>2 DEF SpanStart
    <3> QED BY <3>1, <3>2
  <2>4. /\ span.start = start /\ span.end = start + total
        /\ span.events = [k \in DOMAIN Elapsed |-> start + Elapsed[k]]
    BY <2>2 DEF Span
  <2> HIDE DEF start, span
  <2>5. DOMAIN Elapsed = DOMAIN tokens
    BY DEF Elapsed
  <2>6. \A k \in DOMAIN tokens :
          /\ span.events[k] = start + Elapsed[k] /\ Elapsed[k] \in Nat
          /\ Elapsed[k] = tokens[k].at - origin /\ tokens[k].at \in Nat
    BY <1>1, <2>4, <2>5, ElapsedTimes
  <2>7. tokens[i].elapsed <= total /\ Elapsed[i] = tokens[i].elapsed
    BY <1>1 DEF ClockInv, Elapsed
  <2>8. span.start <= span.events[i] /\ span.events[i] <= span.end
    BY <2>1, <2>3, <2>4, <2>6, <2>7
  <2>9. ASSUME NEW j \in DOMAIN span.events, i < j PROVE span.events[i] <= span.events[j]
    <3>1. j \in DOMAIN tokens /\ Elapsed[i] <= Elapsed[j]
      BY <1>1, <2>4, <2>5, <2>9, ElapsedTimes
    <3> QED BY <3>1, <2>3, <2>6
  <2>10. \A k \in DOMAIN tokens : span.events[k] - tokens[k].at = start - origin
    BY <2>1, <2>3, <2>6
  <2>11. 1 \in DOMAIN tokens
    BY <1>1, ElapsedTimes
  <2> QED BY <2>1, <2>3, <2>8, <2>9, <2>10, <2>11 DEF span
<1>2. ClockInv /\ EndInv => SpanKeepsTheTokens
  <2> SUFFICES ASSUME ClockInv, EndInv, result = "ok", NEW anchor \in {{}, {0}}
               PROVE  LET span == Span(ReportOf(anchor, {}, {}, {}), now)
                          shift(i) == span.events[i] - tokens[i].at
                      IN /\ span.end <= now
                         /\ \A i \in DOMAIN span.events :
                              /\ span.start <= span.events[i] /\ span.events[i] <= span.end
                              /\ \A j \in DOMAIN span.events :
                                   i < j => span.events[i] <= span.events[j]
                              /\ shift(i) = shift(1)
                              /\ IF anchor = {} THEN shift(i) >= 0 ELSE shift(i) <= 0
    BY DEF SpanKeepsTheTokens
  <2>1. DOMAIN Span(ReportOf(anchor, {}, {}, {}), now).events = DOMAIN tokens
    BY DEF Span, ReportOf, Elapsed
  <2> DEFINE report == ReportOf(anchor, {}, {}, {})
  <2>2. report.timing.total_latency = total /\ report.anchor = anchor
    BY DEF ReportOf, TimingFigures, DeriveTiming
  <2>3. now \in Nat /\ origin \in Nat /\ total \in Nat /\ total <= now - origin
    BY DEF ClockInv, EndInv
  <2>4. Span(report, now).end = SpanStart(report, now) + total
    BY <2>2 DEF Span
  <2>5. SpanStart(report, now) = IF anchor = {} THEN now - total ELSE 0
    BY <2>2 DEF SpanStart
  <2>6. Span(report, now).end <= now
    BY <2>3, <2>4, <2>5
  <2> QED BY <1>1, <2>1, <2>6
<1> QED BY <1>2, EndHolds, PTL

-----------------------------------------------------------------------------
(* The sections of a text are told apart by their names.                   *)

Names(text) == {text[i].section : i \in DOMAIN text}

Titled(text) ==
  /\ text \in Seq({text[i] : i \in DOMAIN text})
  /\ IsFiniteSet(Names(text)) /\ Cardinality(Names(text)) = Len(text)

\* One more section, by a name that is not there yet.
LEMMA SectionAdded ==
  ASSUME NEW text, Titled(text), text # <<>>, NEW section, section.section \notin Names(text)
  PROVE  LET longer == text \o <<section>>
         IN /\ Titled(longer) /\ longer # <<>> /\ longer[1] = text[1]
            /\ Names(longer) = Names(text) \cup {section.section}
<1> DEFINE T == {text[i] : i \in DOMAIN text}
           U == T \cup {section}
           longer == text \o <<section>>
           n == Len(text)
<1>1. text \in Seq(T) /\ n \in Nat /\ DOMAIN text = 1..n
  BY DEF Titled
<1>2. text \in Seq(U) /\ <<section>> \in Seq(U)
  BY <1>1
<1> HIDE DEF T, U
<1>3. /\ longer \in Seq(U) /\ Len(longer) = n + 1 /\ DOMAIN longer = 1..(n + 1)
      /\ \A i \in 1..n : longer[i] = text[i]
      /\ longer[n + 1] = section
  BY <1>1, <1>2
<1> HIDE DEF longer
<1>4. Names(longer) = Names(text) \cup {section.section}
  <2>1. \A i \in 1..(n + 1) : i \in 1..n \/ i = n + 1
    BY <1>1
  <2>2. ASSUME NEW x \in Names(longer) PROVE x \in Names(text) \cup {section.section}
    <3>1. PICK i \in 1..(n + 1) : x = longer[i].section
      BY <1>3 DEF Names
    <3>2. CASE i \in 1..n
      BY <3>1, <3>2, <1>1, <1>3 DEF Names
    <3>3. CASE i = n + 1
      BY <3>1, <3>3, <1>3
    <3> QED BY <2>1, <3>2, <3>3
  <2>3. Names(text) \subseteq Names(longer)
    <3> SUFFICES ASSUME NEW i \in 1..n PROVE text[i].section \in Names(longer)
      BY <1>1 DEF Names
    <3>1. i \in DOMAIN longer /\ longer[i] = text[i]
      BY <1>1, <1>3
    <3> QED BY <3>1 DEF Names
  <2>4. section.section \in Names(longer)
    <3>1. n + 1 \in DOMAIN longer
      BY <1>1, <1>3
    <3> QED BY <3>1, <1>3 DEF Names
  <2> QED BY <2>2, <2>3, <2>4
<1>5. IsFiniteSet(Names(longer)) /\ Cardinality(Names(longer)) = n + 1
  BY <1>4, FS_AddElement DEF Titled
<1>6. longer \in Seq({longer[i] : i \in DOMAIN longer})
  <2>1. longer = [i \in 1..(n + 1) |-> longer[i]]
    BY <1>3
  <2>2. \A i \in 1..(n + 1) : longer[i] \in {longer[k] : k \in DOMAIN longer}
    BY <1>3
  <2>3. n + 1 \in Nat
    BY <1>1
  <2> DEFINE R == {longer[k] : k \in DOMAIN longer}
  <2> HIDE DEF R
  <2>4. \A i \in 1..(n + 1) : longer[i] \in R
    BY <2>2 DEF R
  <2>5. [i \in 1..(n + 1) |-> longer[i]] \in [1..(n + 1) -> R]
    BY <2>4
  <2>6. longer \in Seq(R)
    BY <2>1, <2>3, <2>5
  <2> QED BY <2>6 DEF R
<1>7. n >= 1 /\ longer[1] = text[1] /\ longer # <<>>
  <2>1. n # 0
    BY <1>1
  <2> QED BY <2>1, <1>1, <1>3
<1> QED BY <1>3, <1>4, <1>5, <1>6, <1>7 DEF Titled, longer

\* A section that is shown when its data is there.
LEMMA SectionShown ==
  \A text, option, section, longer :
    /\ Titled(text) /\ text # <<>> /\ section.section \notin Names(text)
    /\ longer = text \o IF option = {} THEN <<>> ELSE <<section>>
    => /\ Titled(longer) /\ longer # <<>> /\ longer[1] = text[1]
       /\ Names(longer) = Names(text) \cup IF option = {} THEN {} ELSE {section.section}
<1> SUFFICES ASSUME NEW text, NEW option, NEW section, Titled(text), text # <<>>,
                    section.section \notin Names(text),
                    NEW longer, longer = text \o IF option = {} THEN <<>> ELSE <<section>>
             PROVE  /\ Titled(longer) /\ longer # <<>> /\ longer[1] = text[1]
                    /\ Names(longer) = Names(text) \cup IF option = {} THEN {} ELSE {section.section}
  OBVIOUS
<1>1. CASE option = {}
  <2>1. text \o <<>> = text
    BY DEF Titled
  <2> QED BY <2>1, <1>1
<1>2. CASE option # {}
  BY <1>2, SectionAdded
<1> QED BY <1>1, <1>2

\* The text has a section for what was measured, and each at most once.
LEMMA TextOfReport ==
  ASSUME NEW report, report.kvcache = {}, report.kvcache_timeline = {}
  PROVE  LET text == RenderText(report)
         IN /\ Cardinality(Names(text)) = Len(text)
            /\ text[1] = ProbeSummary(report.timing)
            /\ ("inter_token_latency" \in Names(text)) = (report.timing.inter_token_latency # {})
            /\ ("resource_usage" \in Names(text)) = (report.resource # {})
            /\ ("gpu_usage" \in Names(text)) = (report.gpu # {})
            /\ ("efficiency" \in Names(text)) = (report.efficiency # {})
<1> DEFINE many == {g \in report.gpu : g.device_count > 1}
           s1 == InterTokenLatency(Some(report.timing.inter_token_latency))
           s2 == ResourceUsage(Some(report.resource))
           s3 == GpuUsage(Some(report.gpu))
           s4 == PerDeviceGpuUsage(Some(many))
           s5 == Efficiency(Some(report.efficiency))
           p1 == IF report.timing.inter_token_latency = {} THEN <<>> ELSE <<s1>>
           p2 == IF report.resource = {} THEN <<>> ELSE <<s2>>
           p3 == IF report.gpu = {} THEN <<>> ELSE <<s3>>
           p4 == IF many = {} THEN <<>> ELSE <<s4>>
           p5 == IF report.efficiency = {} THEN <<>> ELSE <<s5>>
           t0 == <<ProbeSummary(report.timing)>>
           t1 == t0 \o p1
           t2 == t1 \o p2
           t3 == t2 \o p3
           t4 == t3 \o p4
           t5 == t4 \o p5
<1>1. /\ s1.section = "inter_token_latency" /\ s2.section = "resource_usage"
      /\ s3.section = "gpu_usage" /\ s4.section = "per_device_gpu_usage"
      /\ s5.section = "efficiency" /\ ProbeSummary(report.timing).section = "probe_summary"
  BY DEF InterTokenLatency, ResourceUsage, GpuUsage, PerDeviceGpuUsage, Efficiency, ProbeSummary
<1>2. RenderText(report) = t5 \o <<>>
  BY DEF RenderText, Shown, KvCacheSection
<1> HIDE DEF many, s1, s2, s3, s4, s5
<1>3. /\ Titled(t0) /\ t0 # <<>> /\ t0[1] = ProbeSummary(report.timing)
      /\ Names(t0) = {"probe_summary"}
  <2>1. t0[1] = ProbeSummary(report.timing) /\ DOMAIN t0 = {1} /\ Len(t0) = 1 /\ t0 # <<>>
    OBVIOUS
  <2>2. Names(t0) = {"probe_summary"}
    BY <1>1, <2>1 DEF Names
  <2>3. t0 \in Seq({ProbeSummary(report.timing)})
    OBVIOUS
  <2>4. {t0[i] : i \in DOMAIN t0} = {ProbeSummary(report.timing)}
    BY <2>1
  <2> HIDE DEF t0
  <2>5. IsFiniteSet(Names(t0)) /\ Cardinality(Names(t0)) = 1
    BY <2>2, FS_Singleton
  <2> QED BY <2>1, <2>2, <2>3, <2>4, <2>5 DEF Titled
<1> HIDE DEF t0
<1>4. /\ Titled(t1) /\ t1 # <<>> /\ t1[1] = t0[1]
      /\ Names(t1) = Names(t0) \cup IF report.timing.inter_token_latency = {} THEN {}
                                    ELSE {"inter_token_latency"}
  <2>1. Titled(t0) /\ t0 # <<>> /\ s1.section \notin Names(t0)
    BY <1>1, <1>3
  <2>2. t1 = t0 \o IF report.timing.inter_token_latency = {} THEN <<>> ELSE <<s1>>
    OBVIOUS
  <2> HIDE DEF t1, p1
  <2>3. /\ Titled(t1) /\ t1 # <<>> /\ t1[1] = t0[1]
        /\ Names(t1) = Names(t0) \cup IF report.timing.inter_token_latency = {} THEN {} ELSE {s1.section}
    BY <2>1, <2>2, SectionShown
  <2> QED BY <2>3, <1>1
<1> HIDE DEF t1, p1
<1>5. /\ Titled(t2) /\ t2 # <<>> /\ t2[1] = t1[1]
      /\ Names(t2) = Names(t1) \cup IF report.resource = {} THEN {} ELSE {"resource_usage"}
  <2>1. Titled(t1) /\ t1 # <<>> /\ s2.section \notin Names(t1)
    BY <1>1, <1>3, <1>4
  <2>2. t2 = t1 \o IF report.resource = {} THEN <<>> ELSE <<s2>>
    OBVIOUS
  <2> HIDE DEF t2, p2
  <2>3. /\ Titled(t2) /\ t2 # <<>> /\ t2[1] = t1[1]
        /\ Names(t2) = Names(t1) \cup IF report.resource = {} THEN {} ELSE {s2.section}
    BY <2>1, <2>2, SectionShown
  <2> QED BY <2>3, <1>1
<1> HIDE DEF t2, p2
<1>6. /\ Titled(t3) /\ t3 # <<>> /\ t3[1] = t2[1]
      /\ Names(t3) = Names(t2) \cup IF report.gpu = {} THEN {} ELSE {"gpu_usage"}
  <2>1. Titled(t2) /\ t2 # <<>> /\ s3.section \notin Names(t2)
    BY <1>1, <1>3, <1>4, <1>5
  <2>2. t3 = t2 \o IF report.gpu = {} THEN <<>> ELSE <<s3>>
    OBVIOUS
  <2> HIDE DEF t3, p3
  <2>3. /\ Titled(t3) /\ t3 # <<>> /\ t3[1] = t2[1]
        /\ Names(t3) = Names(t2) \cup IF report.gpu = {} THEN {} ELSE {s3.section}
    BY <2>1, <2>2, SectionShown
  <2> QED BY <2>3, <1>1
<1> HIDE DEF t3, p3
<1>7. /\ Titled(t4) /\ t4 # <<>> /\ t4[1] = t3[1]
      /\ Names(t4) = Names(t3) \cup IF many = {} THEN {} ELSE {"per_device_gpu_usage"}
  <2>1. Titled(t3) /\ t3 # <<>> /\ s4.section \notin Names(t3)
    BY <1>1, <1>3, <1>4, <1>5, <1>6
  <2>2. t4 = t3 \o IF many = {} THEN <<>> ELSE <<s4>>
    OBVIOUS
  <2> HIDE DEF t4, p4
  <2>3. /\ Titled(t4) /\ t4 # <<>> /\ t4[1] = t3[1]
        /\ Names(t4) = Names(t3) \cup IF many = {} THEN {} ELSE {s4.section}
    BY <2>1, <2>2, SectionShown
  <2> QED BY <2>3, <1>1
<1> HIDE DEF t4, p4
<1>8. /\ Titled(t5) /\ t5 # <<>> /\ t5[1] = t4[1]
      /\ Names(t5) = Names(t4) \cup IF report.efficiency = {} THEN {} ELSE {"efficiency"}
  <2>1. Titled(t4) /\ t4 # <<>> /\ s5.section \notin Names(t4)
    BY <1>1, <1>3, <1>4, <1>5, <1>6, <1>7
  <2>2. t5 = t4 \o IF report.efficiency = {} THEN <<>> ELSE <<s5>>
    OBVIOUS
  <2> HIDE DEF t5, p5
  <2>3. /\ Titled(t5) /\ t5 # <<>> /\ t5[1] = t4[1]
        /\ Names(t5) = Names(t4) \cup IF report.efficiency = {} THEN {} ELSE {s5.section}
    BY <2>1, <2>2, SectionShown
  <2> QED BY <2>3, <1>1
<1> HIDE DEF t5, p5
<1>9. t5 \o <<>> = t5
  BY <1>8 DEF Titled
<1>10. Cardinality(Names(t5)) = Len(t5) /\ t5[1] = ProbeSummary(report.timing)
  BY <1>3, <1>4, <1>5, <1>6, <1>7, <1>8 DEF Titled
<1>11. /\ ("inter_token_latency" \in Names(t5)) = (report.timing.inter_token_latency # {})
       /\ ("resource_usage" \in Names(t5)) = (report.resource # {})
       /\ ("gpu_usage" \in Names(t5)) = (report.gpu # {})
       /\ ("efficiency" \in Names(t5)) = (report.efficiency # {})
  BY <1>3, <1>4, <1>5, <1>6, <1>7, <1>8
<1> QED BY <1>2, <1>9, <1>10, <1>11

-----------------------------------------------------------------------------
(* The attributes of a span.                                               *)

\* Where a name stands among the attributes, and which Option it is set from.
LEMMA NamedAttributes ==
  /\ \A timing : \A a \in TimingAttributes(timing) :
       /\ a[1] \in {"token_count", "total_latency_ns", "ttft_ns", "tokens_per_second",
                    "inter_token_p50_ns", "inter_token_p99_ns", "inter_token_max_ns"}
       /\ a[1] = "ttft_ns" => a[2] = timing.ttft
       /\ a[1] = "tokens_per_second" => a[2] = timing.tokens_per_second
       /\ a[1] = "inter_token_p99_ns" => a[2] = {d.p99 : d \in timing.inter_token_latency}
  /\ \A resource : \A a \in ResourceAttributes(resource) :
       /\ a[1] \in {"rss_max_bytes", "rss_mean_bytes", "thread_max", "cpu_mean_percent"}
       /\ a[1] = "thread_max" => a[2] = {r.thread_max : r \in resource}
  /\ \A gpu : \A a \in GpuAttributes(gpu) :
       /\ a[1] \in {"device_count", "memory_used_max_bytes", "utilization_mean_percent",
                    "power_mean_milliwatts", "temperature_max_celsius"}
       /\ a[1] = "device_count" => a[2] = {g.device_count : g \in gpu}
  /\ \A efficiency : \A a \in EfficiencyAttributes(efficiency) :
       /\ a[1] \in {"energy_joules", "energy_per_token_mj", "tokens_per_joule", "energy_source"}
       /\ a[1] = "energy_per_token_mj" => a[2] = {e.per_token : e \in efficiency}
<1>1. ASSUME NEW timing, NEW a \in TimingAttributes(timing)
      PROVE  /\ a[1] \in {"token_count", "total_latency_ns", "ttft_ns", "tokens_per_second",
                          "inter_token_p50_ns", "inter_token_p99_ns", "inter_token_max_ns"}
             /\ a[1] = "ttft_ns" => a[2] = timing.ttft
             /\ a[1] = "tokens_per_second" => a[2] = timing.tokens_per_second
             /\ a[1] = "inter_token_p99_ns" => a[2] = {d.p99 : d \in timing.inter_token_latency}
  BY DEF TimingAttributes
<1>2. ASSUME NEW resource, NEW a \in ResourceAttributes(resource)
      PROVE  /\ a[1] \in {"rss_max_bytes", "rss_mean_bytes", "thread_max", "cpu_mean_percent"}
             /\ a[1] = "thread_max" => a[2] = {r.thread_max : r \in resource}
  BY DEF ResourceAttributes
<1>3. ASSUME NEW gpu, NEW a \in GpuAttributes(gpu)
      PROVE  /\ a[1] \in {"device_count", "memory_used_max_bytes", "utilization_mean_percent",
                          "power_mean_milliwatts", "temperature_max_celsius"}
             /\ a[1] = "device_count" => a[2] = {g.device_count : g \in gpu}
  BY DEF GpuAttributes
<1>4. ASSUME NEW efficiency, NEW a \in EfficiencyAttributes(efficiency)
      PROVE  /\ a[1] \in {"energy_joules", "energy_per_token_mj", "tokens_per_joule", "energy_source"}
             /\ a[1] = "energy_per_token_mj" => a[2] = {e.per_token : e \in efficiency}
  BY DEF EfficiencyAttributes
<1> QED BY <1>1, <1>2, <1>3, <1>4

\* An attribute is traced when there is something to set it from.
LEMMA TracedWhenMeasured ==
  ASSUME NEW report
  PROVE  LET traced == DOMAIN Attributes(report)
         IN /\ ("ttft_ns" \in traced) = (report.timing.ttft # {})
            /\ ("tokens_per_second" \in traced) = (report.timing.tokens_per_second # {})
            /\ ("inter_token_p99_ns" \in traced) = (report.timing.inter_token_latency # {})
            /\ ("thread_max" \in traced) = (report.resource # {})
            /\ ("device_count" \in traced) = (report.gpu # {})
            /\ ("energy_per_token_mj" \in traced) = (report.efficiency # {})
<1> DEFINE all == TimingAttributes(report.timing) \cup ResourceAttributes(report.resource)
                    \cup GpuAttributes(report.gpu) \cup EfficiencyAttributes(report.efficiency)
           traced == DOMAIN Attributes(report)
<1>1. traced = {a[1] : a \in {b \in all : b[2] # {}}}
  BY DEF Attributes
<1> HIDE DEF traced
<1>2. \A n : n \in traced <=> \E a \in all : a[1] = n /\ a[2] # {}
  BY <1>1
<1>3. /\ <<"ttft_ns", report.timing.ttft>> \in all
      /\ <<"tokens_per_second", report.timing.tokens_per_second>> \in all
      /\ <<"inter_token_p99_ns", {d.p99 : d \in report.timing.inter_token_latency}>> \in all
  BY DEF TimingAttributes
<1>4. <<"thread_max", {r.thread_max : r \in report.resource}>> \in all
  BY DEF ResourceAttributes
<1>5. <<"device_count", {g.device_count : g \in report.gpu}>> \in all
  BY DEF GpuAttributes
<1>6. <<"energy_per_token_mj", {e.per_token : e \in report.efficiency}>> \in all
  BY DEF EfficiencyAttributes
<1>7. ASSUME NEW a \in all
      PROVE  /\ a[1] = "ttft_ns" => a[2] = report.timing.ttft
             /\ a[1] = "tokens_per_second" => a[2] = report.timing.tokens_per_second
             /\ a[1] = "inter_token_p99_ns" => a[2] = {d.p99 : d \in report.timing.inter_token_latency}
             /\ a[1] = "thread_max" => a[2] = {r.thread_max : r \in report.resource}
             /\ a[1] = "device_count" => a[2] = {g.device_count : g \in report.gpu}
             /\ a[1] = "energy_per_token_mj" => a[2] = {e.per_token : e \in report.efficiency}
  <2>1. CASE a \in TimingAttributes(report.timing)
    BY <2>1, NamedAttributes
  <2>2. CASE a \in ResourceAttributes(report.resource)
    BY <2>2, NamedAttributes
  <2>3. CASE a \in GpuAttributes(report.gpu)
    BY <2>3, NamedAttributes
  <2>4. CASE a \in EfficiencyAttributes(report.efficiency)
    BY <2>4, NamedAttributes
  <2> QED BY <1>7, <2>1, <2>2, <2>3, <2>4
<1>8. ASSUME NEW n, NEW option, <<n, option>> \in all, \A a \in all : a[1] = n => a[2] = option
      PROVE  (n \in traced) = (option # {})
  <2>1. <<n, option>>[1] = n /\ <<n, option>>[2] = option
    OBVIOUS
  <2> HIDE DEF all
  <2>2. n \in traced => option # {}
    BY <1>2, <1>8
  <2>3. option # {} => n \in traced
    BY <1>2, <1>8, <2>1
  <2>4. (n \in traced) \in BOOLEAN
    OBVIOUS
  <2> QED BY <2>2, <2>3
<1> HIDE DEF all
<1>9. ("ttft_ns" \in traced) = (report.timing.ttft # {})
  BY <1>3, <1>7, <1>8
<1>10. ("tokens_per_second" \in traced) = (report.timing.tokens_per_second # {})
  BY <1>3, <1>7, <1>8
<1>11. ("inter_token_p99_ns" \in traced) = (report.timing.inter_token_latency # {})
  <2> DEFINE option == {d.p99 : d \in report.timing.inter_token_latency}
  <2>1. <<"inter_token_p99_ns", option>> \in all
    BY <1>3
  <2>2. \A a \in all : a[1] = "inter_token_p99_ns" => a[2] = option
    BY <1>7
  <2>3. (option # {}) = (report.timing.inter_token_latency # {})
    OBVIOUS
  <2> HIDE DEF option
  <2>4. ("inter_token_p99_ns" \in traced) = (option # {})
    BY <2>1, <2>2, <1>8
  <2> QED BY <2>3, <2>4
<1>12. ("thread_max" \in traced) = (report.resource # {})
  <2> DEFINE option == {r.thread_max : r \in report.resource}
  <2>1. <<"thread_max", option>> \in all
    BY <1>4
  <2>2. \A a \in all : a[1] = "thread_max" => a[2] = option
    BY <1>7
  <2>3. (option # {}) = (report.resource # {})
    OBVIOUS
  <2> HIDE DEF option
  <2>4. ("thread_max" \in traced) = (option # {})
    BY <2>1, <2>2, <1>8
  <2> QED BY <2>3, <2>4
<1>13. ("device_count" \in traced) = (report.gpu # {})
  <2> DEFINE option == {g.device_count : g \in report.gpu}
  <2>1. <<"device_count", option>> \in all
    BY <1>5
  <2>2. \A a \in all : a[1] = "device_count" => a[2] = option
    BY <1>7
  <2>3. (option # {}) = (report.gpu # {})
    OBVIOUS
  <2> HIDE DEF option
  <2>4. ("device_count" \in traced) = (option # {})
    BY <2>1, <2>2, <1>8
  <2> QED BY <2>3, <2>4
<1>14. ("energy_per_token_mj" \in traced) = (report.efficiency # {})
  <2> DEFINE option == {e.per_token : e \in report.efficiency}
  <2>1. <<"energy_per_token_mj", option>> \in all
    BY <1>6
  <2>2. \A a \in all : a[1] = "energy_per_token_mj" => a[2] = option
    BY <1>7
  <2>3. (option # {}) = (report.efficiency # {})
    OBVIOUS
  <2> HIDE DEF option
  <2>4. ("energy_per_token_mj" \in traced) = (option # {})
    BY <2>1, <2>2, <1>8
  <2> QED BY <2>3, <2>4
<1> QED BY <1>9, <1>10, <1>11, <1>12, <1>13, <1>14 DEF traced

(* Whatever else a run measured, its text has a section when its span has  *)
(* the attributes, each section once, and neither states a figure that was *)
(* not derived (render.rs, otel.rs).                                       *)
THEOREM TextAndSpanTellTheSame == Spec => []TextAndTraceAgree
<1>1. ASSUME ClockInv, NEW energy \in Energies, NEW resource \in Resources, NEW gpu \in Gpus
      PROVE  LET report   == ReportOf({0}, energy, resource, gpu)
                 text     == RenderText(report)
                 sections == {text[i].section : i \in DOMAIN text}
                 traced   == DOMAIN Attributes(report)
             IN /\ Cardinality(sections) = Len(text)
                /\ text[1].tokens = Len(tokens)
                /\ ("ttft_ns" \in traced) = ("value" \in DOMAIN text[1].first_token)
                /\ ("tokens_per_second" \in traced) = ("value" \in DOMAIN text[1].rate)
                /\ \A pair \in { <<"inter_token_latency", "inter_token_p99_ns">>,
                                  <<"resource_usage", "thread_max">>, <<"gpu_usage", "device_count">>,
                                  <<"efficiency", "energy_per_token_mj">> } :
                     (pair[1] \in sections) = (pair[2] \in traced)
                /\ ("efficiency" \in sections) = (tokens # <<>> /\ \E e \in energy : e.mj > 0)
                /\ ("inter_token_latency" \in sections) = (Len(tokens) >= 2)
  <2> DEFINE report == ReportOf({0}, energy, resource, gpu)
             text == RenderText(report)
             traced == DOMAIN Attributes(report)
             n == Len(tokens)
  <2>1. /\ report.kvcache = {} /\ report.kvcache_timeline = {}
        /\ report.timing = TimingFigures /\ report.resource = resource /\ report.gpu = gpu
        /\ report.efficiency = DeriveEfficiency(energy, TimingFigures.token_count)
    BY DEF ReportOf
  <2> HIDE DEF report
  <2>2. /\ Cardinality(Names(text)) = Len(text)
        /\ text[1] = ProbeSummary(report.timing)
        /\ ("inter_token_latency" \in Names(text)) = (report.timing.inter_token_latency # {})
        /\ ("resource_usage" \in Names(text)) = (report.resource # {})
        /\ ("gpu_usage" \in Names(text)) = (report.gpu # {})
        /\ ("efficiency" \in Names(text)) = (report.efficiency # {})
    BY <2>1, TextOfReport
  <2>3. /\ ("ttft_ns" \in traced) = (report.timing.ttft # {})
        /\ ("tokens_per_second" \in traced) = (report.timing.tokens_per_second # {})
        /\ ("inter_token_p99_ns" \in traced) = (report.timing.inter_token_latency # {})
        /\ ("thread_max" \in traced) = (report.resource # {})
        /\ ("device_count" \in traced) = (report.gpu # {})
        /\ ("energy_per_token_mj" \in traced) = (report.efficiency # {})
    BY TracedWhenMeasured
  <2> HIDE DEF text, traced
  <2>4. n \in Nat /\ Len(Elapsed) = n /\ (tokens = <<>>) = (n = 0)
    <3>1. tokens \in Seq([elapsed : Nat, at : Nat])
      BY <1>1 DEF ClockInv
    <3>2. (tokens = <<>>) = (Len(tokens) = 0)
      BY <3>1
    <3> QED BY <3>2, <1>1, ElapsedTimes
  <2>5. /\ TimingFigures.token_count = n
        /\ (TimingFigures.inter_token_latency # {}) = (n >= 2)
    BY <2>4 DEF TimingFigures, DeriveTiming
  <2>6. /\ text[1].tokens = n
        /\ ("value" \in DOMAIN text[1].first_token) = (report.timing.ttft # {})
        /\ ("value" \in DOMAIN text[1].rate) = (report.timing.tokens_per_second # {})
    <3>1. \A timing : /\ ProbeSummary(timing).tokens = timing.token_count
                      /\ ProbeSummary(timing).first_token = Or(timing.ttft, "no tokens produced")
                      /\ ProbeSummary(timing).rate = Or(timing.tokens_per_second, "not enough tokens")
      BY DEF ProbeSummary
    <3>2. ASSUME NEW option, NEW said, NEW line, line = Or(option, said)
          PROVE  ("value" \in DOMAIN line) = (option # {})
      <4>1. CASE option = {}
        <5>1. line = [said |-> said]
          BY <3>2, <4>1 DEF Or
        <5>2. DOMAIN line = {"said"}
          BY <5>1
        <5> QED BY <4>1, <5>2
      <4>2. CASE option # {}
        <5>1. line = [value |-> Some(option)]
          BY <3>2, <4>2 DEF Or
        <5>2. DOMAIN line = {"value"}
          BY <5>1
        <5> QED BY <4>2, <5>2
      <4> QED BY <4>1, <4>2
    <3>3. text[1].tokens = n
      BY <3>1, <2>2, <2>1, <2>5
    <3>4. text[1].first_token = Or(report.timing.ttft, "no tokens produced")
      BY <3>1, <2>2
    <3>5. text[1].rate = Or(report.timing.tokens_per_second, "not enough tokens")
      BY <3>1, <2>2
    <3>6. ("value" \in DOMAIN text[1].first_token) = (report.timing.ttft # {})
      <4> DEFINE option == report.timing.ttft
                 line   == text[1].first_token
      <4>1. line = Or(option, "no tokens produced")
        BY <3>4
      <4> HIDE DEF option, line
      <4>2. ("value" \in DOMAIN line) = (option # {})
        BY <4>1, <3>2
      <4> QED BY <4>2 DEF option, line
    <3>7. ("value" \in DOMAIN text[1].rate) = (report.timing.tokens_per_second # {})
      <4> DEFINE option == report.timing.tokens_per_second
                 line   == text[1].rate
      <4>1. line = Or(option, "not enough tokens")
        BY <3>5
      <4> HIDE DEF option, line
      <4>2. ("value" \in DOMAIN line) = (option # {})
        BY <4>1, <3>2
      <4> QED BY <4>2 DEF option, line
    <3> QED BY <3>3, <3>6, <3>7
  <2>7. (report.efficiency # {}) = (tokens # <<>> /\ \E e \in energy : e.mj > 0)
    <3>1. \A e \in energy : e.mj \in Nat
      BY DEF Energies
    <3>2. (report.efficiency # {}) = \E e \in energy : e.mj # 0 /\ n # 0
      BY <2>1, <2>5 DEF DeriveEfficiency
    <3>3. ASSUME NEW e \in energy PROVE (e.mj # 0) = (e.mj > 0)
      BY <3>1
    <3>4. (n # 0) = (tokens # <<>>)
      BY <2>4
    <3> HIDE DEF n
    <3> QED BY <3>2, <3>3, <3>4
  <2>8. ASSUME NEW pair \in { <<"inter_token_latency", "inter_token_p99_ns">>,
                              <<"resource_usage", "thread_max">>, <<"gpu_usage", "device_count">>,
                              <<"efficiency", "energy_per_token_mj">> }
        PROVE  (pair[1] \in Names(text)) = (pair[2] \in traced)
    BY <2>2, <2>3, <2>8
  <2> QED BY <2>1, <2>2, <2>3, <2>5, <2>6, <2>7, <2>8 DEF text, traced, Names, report
<1>2. ClockInv => TextAndTraceAgree
  BY <1>1 DEF TextAndTraceAgree
<1> QED BY <1>2, EndHolds, PTL

-----------------------------------------------------------------------------
(* The figures derived from the stamps (module Figures).                   *)

\* Sorting a sequence permutes it and leaves none smaller than one before it.
LEMMA SortedIsSorted ==
  ASSUME NEW n \in Nat, NEW s, DOMAIN s = 1..n, \A i \in 1..n : s[i] \in Int
  PROVE  /\ \E p \in Bijection(1..n, 1..n) : Sorted(s) = [i \in 1..n |-> s[p[i]]]
         /\ \A i, j \in 1..n : i < j => Sorted(s)[i] <= Sorted(s)[j]
<1> DEFINE orders == {[i \in 1..n |-> s[p[i]]] : p \in Bijection(1..n, 1..n)}
           Rises(t) == \A i, j \in 1..n : i < j => t[i] <= t[j]
<1>1. IsFiniteSet(1..n) /\ Cardinality(1..n) = n /\ 1..n \in SUBSET Int
  BY FS_Interval
<1>2. PICK p \in Bijection(1..n, 1..n) : \A i, j \in 1..n : i < j => s[p[i]] <= s[p[j]]
  BY <1>1, SortedPart
<1>3. [i \in 1..n |-> s[p[i]]] \in orders /\ Rises([i \in 1..n |-> s[p[i]]])
  BY <1>2
<1>4. Sorted(s) = CHOOSE t \in orders : Rises(t)
  BY DEF Sorted
<1>5. Sorted(s) \in orders /\ Rises(Sorted(s))
  <2> HIDE DEF orders, Rises
  <2> QED BY <1>3, <1>4
<1> QED BY <1>5

\* How many of the first n values of a sequence are at most w.
Within(s, n, w) == Cardinality({i \in 1..n : s[i] <= w})

\* Of the values of a sequence, at least k are at most the k-th of the sorted
\* ones, and fewer are at most anything smaller.
LEMMA PlaceInSorted ==
  ASSUME NEW n \in Nat, NEW s, DOMAIN s = 1..n, \A i \in 1..n : s[i] \in Int, NEW k \in 1..n
  PROVE  /\ Sorted(s)[k] \in Int
         /\ \E i \in 1..n : Sorted(s)[k] = s[i]
         /\ Within(s, n, Sorted(s)[k]) \in Nat
         /\ k <= Within(s, n, Sorted(s)[k])
         /\ \A w \in Int : w < Sorted(s)[k] =>
              Within(s, n, w) \in Nat /\ Within(s, n, w) < k
<1> DEFINE within(v) == {i \in 1..n : s[i] <= v}
<1>1. PICK p \in Bijection(1..n, 1..n) : Sorted(s) = [i \in 1..n |-> s[p[i]]]
  BY SortedIsSorted
<1>2. \A i, j \in 1..n : i < j => Sorted(s)[i] <= Sorted(s)[j]
  BY SortedIsSorted
<1>3. /\ p \in [1..n -> 1..n]
      /\ \A i, j \in 1..n : p[i] = p[j] => i = j
      /\ \A x \in 1..n : \E i \in 1..n : p[i] = x
  BY DEF Bijection, Injection, Surjection, IsInjective
<1>4. \A i \in 1..n : Sorted(s)[i] = s[p[i]] /\ Sorted(s)[i] \in Int
  BY <1>1, <1>3
<1>5. IsFiniteSet(1..n) /\ \A v : within(v) \in SUBSET (1..n)
  BY FS_Interval
<1>6. \A v : IsFiniteSet(within(v)) /\ Cardinality(within(v)) \in Nat
  <2> SUFFICES ASSUME NEW v PROVE IsFiniteSet(within(v)) /\ Cardinality(within(v)) \in Nat
    OBVIOUS
  <2> DEFINE W == within(v)
  <2>1. W \in SUBSET (1..n)
    BY <1>5
  <2> HIDE DEF W
  <2>2. IsFiniteSet(W)
    BY <1>5, <2>1, FS_Subset
  <2>3. Cardinality(W) \in Nat
    BY <2>2, FS_CardinalityType
  <2> QED BY <2>2, <2>3 DEF W
<1> DEFINE v == Sorted(s)[k]
<1>7. k <= Cardinality(within(v))
  <2> DEFINE W == within(v)
             q == [i \in 1..k |-> p[i]]
  <2>1. \A i \in 1..k : i \in 1..n /\ p[i] \in W
    <3> SUFFICES ASSUME NEW i \in 1..k PROVE i \in 1..n /\ p[i] \in W
      OBVIOUS
    <3>1. i \in 1..n /\ p[i] \in 1..n
      BY <1>3
    <3>2. s[p[i]] <= v
      <4>1. CASE i = k
        BY <1>4, <4>1
      <4>2. CASE i # k
        BY <1>2, <1>4, <3>1, <4>2
      <4> QED BY <4>1, <4>2
    <3> QED BY <3>1, <3>2
  <2>2. IsFiniteSet(W) /\ Cardinality(W) \in Nat
    BY <1>6
  <2> HIDE DEF W
  <2>3. q \in Injection(1..k, W)
    BY <1>3, <2>1 DEF Injection, IsInjective
  <2>4. Cardinality(1..k) = k
    BY FS_Interval
  <2> HIDE DEF q
  <2>5. k <= Cardinality(W)
    BY <2>2, <2>3, <2>4, FS_Injection
  <2> QED BY <2>5 DEF W
<1>8. ASSUME NEW w \in Int, w < v
      PROVE  Cardinality(within(w)) < k
  <2> DEFINE W == within(w)
             q == [i \in 1..(k - 1) |-> p[i]]
             image == {p[i] : i \in 1..(k - 1)}
  <2>1. W \subseteq image
    <3> SUFFICES ASSUME NEW x \in W PROVE x \in image
      OBVIOUS
    <3>1. PICK i \in 1..n : p[i] = x
      BY <1>3
    <3>2. Sorted(s)[i] < v
      BY <1>4, <1>8, <3>1
    <3>3. ~(k <= i)
      <4>1. CASE i = k
        BY <1>4, <3>2, <4>1
      <4>2. CASE k < i
        BY <1>2, <1>4, <3>2, <4>2
      <4> QED BY <4>1, <4>2
    <3>4. i \in 1..(k - 1)
      BY <3>3
    <3> QED BY <3>1, <3>4
  <2>2. q \in Surjection(1..(k - 1), image)
    BY DEF Surjection
  <2>3. IsFiniteSet(1..(k - 1)) /\ Cardinality(1..(k - 1)) = k - 1
    BY FS_Interval
  <2>4. Cardinality(W) \in Nat
    BY <1>6
  <2> HIDE DEF W, q, image
  <2>5. IsFiniteSet(image) /\ Cardinality(image) <= k - 1
    BY <2>2, <2>3, FS_Surjection
  <2>6. Cardinality(W) <= Cardinality(image) /\ Cardinality(image) \in Nat
    BY <2>1, <2>5, FS_Subset, FS_CardinalityType
  <2>7. Cardinality(W) < k
    BY <2>4, <2>5, <2>6
  <2> QED BY <2>7 DEF W
<1>9. \E i \in 1..n : v = s[i]
  BY <1>3, <1>4
<1> QED BY <1>4, <1>6, <1>7, <1>8, <1>9 DEF Within

\* A percentile is the value at its rank, the rank is that of a value, and it
\* is the least that covers the percentage.
LEMMA PercentileAtItsRank ==
  ASSUME NEW n \in Nat \ {0}, NEW t, Len(t) = n, NEW percentile \in 1..100
  PROVE  /\ Rank(percentile, n) \in 1..n
         /\ percentile * n <= 100 * Rank(percentile, n)
         /\ 100 * (Rank(percentile, n) - 1) < percentile * n
         /\ PercentileNearestRank(t, percentile) = t[Rank(percentile, n)]
<1> DEFINE m == percentile * n
           r == Rank(percentile, n)
<1>1. m \in Nat /\ 1 <= m /\ m <= 100 * n
  <2>1. m \in Nat
    OBVIOUS
  <2>2. 1 <= m
    OBVIOUS
  <2>3. (100 - percentile) * n \in Nat /\ (100 - percentile) * n = 100 * n - m
    OBVIOUS
  <2> QED BY <2>1, <2>2, <2>3
<1>2. r = (m + 99) \div 100
  BY DEF Rank
<1> HIDE DEF m, r
<1>3. r \in Int /\ 100 * r <= m + 99 /\ m + 99 < 100 * r + 100
  BY <1>1, <1>2
<1>4. r \in 1..n /\ m <= 100 * r /\ 100 * (r - 1) < m
  BY <1>1, <1>3
<1>5. Max({r - 1, 0}) = r - 1
  BY <1>4, OfTwo
<1>6. Min({r - 1, n - 1}) = r - 1
  <2> DEFINE a == r - 1
             b == n - 1
  <2>1. a \in Int /\ b \in Int /\ a <= b
    BY <1>4
  <2> HIDE DEF a, b
  <2>2. Min({a, b}) = a
    BY <2>1, OfTwo
  <2> QED BY <2>2 DEF a, b
<1>7. PercentileNearestRank(t, percentile) = t[r]
  <2>1. PercentileNearestRank(t, percentile) = t[Min({Max({r - 1, 0}), n - 1}) + 1]
    BY DEF PercentileNearestRank, r
  <2>2. (r - 1) + 1 = r
    BY <1>4
  <2> QED BY <1>5, <1>6, <2>1, <2>2
<1> QED BY <1>4, <1>7 DEF m, r

\* The mean of a sequence lies between bounds of its values.
LEMMA MeanIsBetween ==
  ASSUME NEW n \in Nat \ {0}, NEW s, DOMAIN s = 1..n, NEW low \in Nat, NEW high \in Nat,
         \A i \in 1..n : s[i] \in Nat /\ low <= s[i] /\ s[i] <= high
  PROVE  low <= SumFunction(s) \div n /\ SumFunction(s) \div n <= high
<1> DEFINE sum == SumFunctionOnSet(s, 1..n)
           lows == [i \in 1..n |-> low]
           highs == [i \in 1..n |-> high]
<1>1. IsFiniteSet(1..n)
  BY FS_Interval
<1>2. n \in Nat /\ low \in Int /\ high \in Int /\ \A i \in 1..n : lows[i] = low /\ highs[i] = high
  OBVIOUS
<1>3. SumFunctionOnSet(lows, 1..n) = low * n /\ SumFunctionOnSet(highs, 1..n) = high * n
  <2> HIDE DEF lows, highs
  <2> QED BY <1>2, SumOfConstant
<1>4. /\ \A i \in 1..n : lows[i] \in Int /\ s[i] \in Int /\ lows[i] <= s[i]
      /\ \A i \in 1..n : highs[i] \in Int /\ s[i] \in Int /\ s[i] <= highs[i]
  OBVIOUS
<1> HIDE DEF lows, highs
<1>5. low * n <= sum /\ sum <= high * n
  BY <1>1, <1>3, <1>4, SumMonotone
<1>6. sum \in Nat
  BY <1>1, SumIsNat
<1>7. SumFunction(s) = sum
  BY DEF SumFunction
<1> HIDE DEF sum
<1> DEFINE q == sum \div n
<1>8. q \in Nat /\ q * n <= sum /\ sum < q * n + n
  BY <1>6, Division
<1> HIDE DEF q
<1>9. low <= q
  <2> SUFFICES ASSUME q + 1 <= low PROVE FALSE
    BY <1>8
  <2>1. (low - (q + 1)) * n \in Nat /\ (low - (q + 1)) * n = low * n - (q * n + n)
    BY <1>8
  <2>2. low * n \in Nat /\ q * n \in Nat
    BY <1>8
  <2> QED BY <1>5, <1>6, <1>8, <2>1, <2>2
<1>10. q <= high
  <2> SUFFICES ASSUME high + 1 <= q PROVE FALSE
    BY <1>8
  <2>1. (q - (high + 1)) * n \in Nat /\ (q - (high + 1)) * n = q * n - (high * n + n)
    BY <1>8
  <2>2. high * n \in Nat /\ q * n \in Nat
    BY <1>8
  <2> QED BY <1>5, <1>6, <1>8, <2>1, <2>2
<1> QED BY <1>7, <1>9, <1>10 DEF q

\* The percentiles are those of the nearest rank, for any values and percent.
LEMMA NearestRank ==
  ASSUME NEW m \in Nat \ {0}, NEW d, DOMAIN d = 1..m, Len(d) = m,
         \A i \in 1..m : d[i] \in Int, NEW percentile \in 1..100
  PROVE  IsNearestRank(PercentileNearestRank(Sorted(d), percentile), percentile, d)
<1> DEFINE r == Rank(percentile, m)
           v == Sorted(d)[r]
<1>1. Len(Sorted(d)) = m
  <2>1. PICK p \in Bijection(1..m, 1..m) : Sorted(d) = [i \in 1..m |-> d[p[i]]]
    BY SortedIsSorted
  <2> QED BY <2>1
<1>2. /\ r \in 1..m
      /\ percentile * m <= 100 * r /\ 100 * (r - 1) < percentile * m
      /\ PercentileNearestRank(Sorted(d), percentile) = v
  BY <1>1, PercentileAtItsRank
<1> HIDE DEF r
<1>3. /\ Within(d, m, v) \in Nat /\ r <= Within(d, m, v)
      /\ \A w \in Int : w < v => Within(d, m, w) \in Nat /\ Within(d, m, w) < r
  <2>1. m \in Nat /\ r \in 1..m
    BY <1>2
  <2> QED BY <2>1, PlaceInSorted
<1>4. percentile * m \in Nat
  OBVIOUS
<1> HIDE DEF v
<1>5. 100 * Within(d, m, v) >= percentile * m
  <2> DEFINE a == percentile * m
             w == Within(d, m, v)
  <2>1. a <= 100 * r /\ r <= w /\ a \in Nat /\ r \in Nat /\ w \in Nat
    BY <1>2, <1>3, <1>4
  <2> HIDE DEF a, w
  <2>2. 100 * w >= a
    BY <2>1
  <2> QED BY <2>2 DEF a, w
<1>6. ASSUME NEW i \in 1..m, d[i] < v
      PROVE  100 * Within(d, m, d[i]) < percentile * m
  <2> DEFINE a == percentile * m
             w == Within(d, m, d[i])
  <2>1. w \in Nat /\ w < r /\ 100 * (r - 1) < a /\ a \in Nat /\ r \in Nat
    BY <1>2, <1>3, <1>4, <1>6
  <2> HIDE DEF a, w
  <2>2. 100 * w < a
    BY <2>1
  <2> QED BY <2>2 DEF a, w
<1> QED BY <1>2, <1>5, <1>6 DEF IsNearestRank, Within

\* The intervals between the tokens of a request.
LEMMA IntervalsOf ==
  ASSUME ClockInv, result = "ok", tokens # <<>>
  PROVE  LET n == Len(tokens)
             d == Deltas(Elapsed)
         IN /\ n \in Nat \ {0}
            /\ Elapsed[1] \in Nat /\ Elapsed[n] \in Nat /\ Elapsed[n] <= total /\ total \in Nat
            /\ DOMAIN d = 1..(n - 1) /\ Len(d) = n - 1
            /\ \A i \in 1..(n - 1) : d[i] \in Nat
            /\ SumFunction(d) = Elapsed[n] - Elapsed[1]
            /\ Elapsed[n] - Elapsed[1] = tokens[n].at - tokens[1].at
            /\ Elapsed[n] - Elapsed[1] \in Nat
<1> DEFINE n == Len(tokens)
           d == Deltas(Elapsed)
<1>1. /\ n \in Nat \ {0} /\ DOMAIN tokens = 1..n
      /\ Elapsed \in Seq(Nat) /\ Len(Elapsed) = n
      /\ \A i \in 1..n : /\ Elapsed[i] = tokens[i].at - origin
                         /\ Elapsed[i] \in Nat /\ tokens[i].at \in Nat
      /\ \A i, j \in 1..n : i < j => Elapsed[i] <= Elapsed[j]
  <2>1. tokens \in Seq([elapsed : Nat, at : Nat])
    BY DEF ClockInv
  <2>2. Len(tokens) # 0
    BY <2>1
  <2> QED BY <2>2, ElapsedTimes
<1>2. Elapsed[n] <= total /\ total \in Nat /\ origin \in Nat
  <2>1. n \in DOMAIN tokens /\ Elapsed[n] = tokens[n].elapsed
    BY <1>1 DEF Elapsed
  <2> QED BY <2>1 DEF ClockInv
<1> HIDE DEF n
<1>3. 1 \in 1..n /\ n \in 1..n /\ \A i \in 1..(n - 1) : i \in 1..n /\ i + 1 \in 1..n
  BY <1>1
<1>4. d = [i \in 1..(n - 1) |-> Elapsed[i + 1] - Elapsed[i]]
  BY <1>1 DEF Deltas
<1>5. DOMAIN d = 1..(n - 1) /\ Len(d) = n - 1
  <2>1. n - 1 \in Nat
    BY <1>1
  <2> QED BY <1>4, <2>1
<1>6. \A i \in 1..(n - 1) : d[i] \in Nat /\ d[i] = Elapsed[i + 1] - Elapsed[i]
  <2> SUFFICES ASSUME NEW i \in 1..(n - 1) PROVE d[i] \in Nat /\ d[i] = Elapsed[i + 1] - Elapsed[i]
    OBVIOUS
  <2>1. Elapsed[i] \in Nat /\ Elapsed[i + 1] \in Nat /\ Elapsed[i] <= Elapsed[i + 1]
    BY <1>1, <1>3
  <2> QED BY <1>4, <2>1
<1> HIDE DEF d
<1>7. SumFunction(d) = Elapsed[n] - Elapsed[1]
  <2> DEFINE g == [i \in 0..(n - 1) |-> Elapsed[i + 1]]
             m == n - 1
  <2>1. m \in Nat /\ (\A i \in 0..m : g[i] \in Int) /\ \A i \in 0..m : g[i] = Elapsed[i + 1]
    BY <1>1
  <2>2. \A i \in 1..m : d[i] = g[i] - g[i - 1]
    <3> SUFFICES ASSUME NEW i \in 1..m PROVE d[i] = g[i] - g[i - 1]
      OBVIOUS
    <3>1. i \in 0..m /\ i - 1 \in 0..m /\ (i - 1) + 1 = i
      BY <2>1
    <3>2. g[i] = Elapsed[i + 1] /\ g[i - 1] = Elapsed[i]
      BY <2>1, <3>1
    <3> QED BY <1>6, <3>2
  <2>3. g[m] = Elapsed[n] /\ g[0] = Elapsed[1]
    <3>1. m \in 0..m /\ 0 \in 0..m /\ m + 1 = n /\ 0 + 1 = 1
      BY <1>1, <2>1
    <3> QED BY <2>1, <3>1
  <2>4. SumFunction(d) = SumFunctionOnSet(d, 1..m)
    BY <1>5 DEF SumFunction
  <2> HIDE DEF g, m
  <2>5. SumFunctionOnSet(d, 1..m) = g[m] - g[0]
    BY <2>1, <2>2, Telescopes
  <2> QED BY <2>3, <2>4, <2>5
<1>8. /\ Elapsed[n] - Elapsed[1] = tokens[n].at - tokens[1].at
      /\ Elapsed[n] - Elapsed[1] \in Nat
  <2>1. /\ Elapsed[n] = tokens[n].at - origin /\ Elapsed[1] = tokens[1].at - origin
        /\ tokens[n].at \in Nat /\ tokens[1].at \in Nat
        /\ Elapsed[n] \in Nat /\ Elapsed[1] \in Nat
    BY <1>1, <1>3
  <2>2. Elapsed[1] <= Elapsed[n]
    BY <1>1, <1>3, <2>1
  <2> DEFINE a == tokens[1].at
             b == tokens[n].at
  <2>3. a \in Nat /\ b \in Nat /\ Elapsed[1] = a - origin /\ Elapsed[n] = b - origin
    BY <2>1
  <2>4. Elapsed[1] \in Nat /\ Elapsed[n] \in Nat /\ origin \in Nat
    BY <1>2, <2>1
  <2> HIDE DEF a, b
  <2>5. Elapsed[n] - Elapsed[1] = b - a
    BY <2>3, <2>4
  <2>6. Elapsed[n] - Elapsed[1] \in Nat
    BY <2>2, <2>4
  <2> QED BY <2>5, <2>6 DEF a, b
<1> QED BY <1>1, <1>2, <1>3, <1>5, <1>6, <1>7, <1>8 DEF n, d

(* For any bodies, chunkings and delays the figures fit the request they   *)
(* are derived from: no interval is negative, the percentiles are those of *)
(* the nearest rank, and all fit in the total (derive.rs, derive_timing).  *)
THEOREM FiguresAreOfTheRequest == Spec => []FiguresFitTheRequest
<1>1. ASSUME ClockInv, result = "ok", tokens # <<>>, NEW d, d = Deltas(Elapsed)
      PROVE  /\ \A i \in DOMAIN d : d[i] >= 0
             /\ \A first \in TimingFigures.ttft : first + SumFunction(d) <= TimingFigures.total_latency
             /\ \A rate \in TimingFigures.tokens_per_second :
                  rate = <<Len(tokens) - 1, Final(tokens).at - First(tokens).at>>
             /\ \A dist \in TimingFigures.inter_token_latency :
                  /\ Least(d) <= dist.mean /\ dist.mean <= dist.max /\ dist.max = Greatest(d)
                  /\ IsNearestRank(dist.p50, 50, d)
                  /\ IsNearestRank(dist.p95, 95, d)
                  /\ IsNearestRank(dist.p99, 99, d)
  <2> DEFINE n == Len(tokens)
             m == n - 1
             t == TimingFigures
  <2>1. /\ n \in Nat \ {0}
        /\ Elapsed[1] \in Nat /\ Elapsed[n] \in Nat /\ Elapsed[n] <= total /\ total \in Nat
        /\ DOMAIN d = 1..m /\ Len(d) = m
        /\ \A i \in 1..m : d[i] \in Nat
        /\ SumFunction(d) = Elapsed[n] - Elapsed[1]
        /\ Elapsed[n] - Elapsed[1] = tokens[n].at - tokens[1].at
    BY <1>1, IntervalsOf
  <2>2. Len(Elapsed) = n
    BY <1>1, ElapsedTimes
  <2>3. /\ t.total_latency = total
        /\ t.ttft \subseteq {Elapsed[1]}
        /\ t.tokens_per_second \subseteq {<<m, Elapsed[n] - Elapsed[1]>>}
        /\ t.inter_token_latency = IF n < 2 THEN {} ELSE {LatencyDistribution(d)}
    BY <1>1, <2>2 DEF TimingFigures, DeriveTiming, First, Final
  <2> HIDE DEF n, t
  <2>4. \A i \in DOMAIN d : d[i] >= 0
    BY <2>1
  <2>5. \A first \in t.ttft : first + SumFunction(d) <= t.total_latency
    BY <2>1, <2>3
  <2>6. \A rate \in t.tokens_per_second : rate = <<m, Final(tokens).at - First(tokens).at>>
    BY <2>1, <2>3 DEF First, Final, n
  <2>7. ASSUME NEW dist \in t.inter_token_latency
        PROVE  /\ Least(d) <= dist.mean /\ dist.mean <= dist.max /\ dist.max = Greatest(d)
               /\ IsNearestRank(dist.p50, 50, d)
               /\ IsNearestRank(dist.p95, 95, d)
               /\ IsNearestRank(dist.p99, 99, d)
    <3>1. dist = LatencyDistribution(d) /\ m \in Nat \ {0}
      BY <2>1, <2>3, <2>7
    <3> HIDE DEF m
    <3>2. /\ dist.mean = SumFunction(d) \div m /\ dist.max = Final(Sorted(d))
          /\ dist.p50 = PercentileNearestRank(Sorted(d), 50)
          /\ dist.p95 = PercentileNearestRank(Sorted(d), 95)
          /\ dist.p99 = PercentileNearestRank(Sorted(d), 99)
      BY <2>1, <3>1 DEF LatencyDistribution
    <3>3. \A i \in 1..m : d[i] \in Int
      BY <2>1
    <3>4. /\ IsNearestRank(dist.p50, 50, d)
          /\ IsNearestRank(dist.p95, 95, d)
          /\ IsNearestRank(dist.p99, 99, d)
      <4>1. 50 \in 1..100 /\ 95 \in 1..100 /\ 99 \in 1..100
        OBVIOUS
      <4>2. /\ IsNearestRank(PercentileNearestRank(Sorted(d), 50), 50, d)
            /\ IsNearestRank(PercentileNearestRank(Sorted(d), 95), 95, d)
            /\ IsNearestRank(PercentileNearestRank(Sorted(d), 99), 99, d)
        BY <2>1, <3>1, <3>3, <4>1, NearestRank
      <4> QED BY <3>2, <4>2
    <3> DEFINE Values == {d[i] : i \in DOMAIN d}
    <3>5. Values \in SUBSET Nat /\ Values \in SUBSET Int /\ Values # {} /\ IsFiniteSet(Values)
      <4>1. Values \in SUBSET Nat /\ d[1] \in Values
        BY <2>1, <3>1
      <4>2. d \in Surjection(DOMAIN d, Values)
        <5>1. d \in [DOMAIN d -> Values]
          <6>1. d = [i \in 1..m |-> Deltas(Elapsed)[i]]
            BY <1>1, <2>1, <2>2 DEF Deltas, m, n
          <6> QED BY <2>1, <6>1
        <5> QED BY <5>1 DEF Surjection
      <4>3. IsFiniteSet(DOMAIN d)
        BY <2>1, <3>1, FS_Interval
      <4> HIDE DEF Values
      <4> QED BY <4>1, <4>2, <4>3, FS_Surjection
    <3> HIDE DEF Values
    <3>6. /\ Least(d) \in Values /\ \A x \in Values : Least(d) <= x
          /\ Greatest(d) \in Values /\ \A x \in Values : x <= Greatest(d)
      <4>1. Least(d) = Min(Values) /\ Greatest(d) = Max(Values)
        BY DEF Least, Greatest, Values
      <4> QED BY <3>5, <4>1, MaxIsGreatest, MinIsLeast
    <3>7. Least(d) <= dist.mean /\ dist.mean <= Greatest(d)
      <4>1. Least(d) \in Nat /\ Greatest(d) \in Nat
        BY <3>5, <3>6
      <4>2. \A i \in 1..m : d[i] \in Nat /\ Least(d) <= d[i] /\ d[i] <= Greatest(d)
        BY <2>1, <3>6 DEF Values
      <4>3. Least(d) <= SumFunction(d) \div m /\ SumFunction(d) \div m <= Greatest(d)
        BY <2>1, <3>1, <4>1, <4>2, MeanIsBetween
      <4> QED BY <3>2, <4>3
    <3>8. Final(Sorted(d)) = Greatest(d)
      <4>0. m \in Nat /\ DOMAIN d = 1..m
        BY <2>1, <3>1
      <4>1. PICK p \in Bijection(1..m, 1..m) : Sorted(d) = [i \in 1..m |-> d[p[i]]]
        BY <3>3, <4>0, SortedIsSorted
      <4>2. \A i, j \in 1..m : i < j => Sorted(d)[i] <= Sorted(d)[j]
        BY <3>3, <4>0, SortedIsSorted
      <4>3. /\ p \in [1..m -> 1..m]
            /\ \A x \in 1..m : \E i \in 1..m : p[i] = x
        BY DEF Bijection, Injection, Surjection
      <4>4. Final(Sorted(d)) = Sorted(d)[m] /\ Sorted(d)[m] = d[p[m]] /\ p[m] \in 1..m
        <5>1. Len(Sorted(d)) = m /\ m \in 1..m
          BY <3>1, <4>1
        <5> QED BY <4>1, <4>3, <5>1 DEF Final
      <4>5. PICK k \in 1..m : d[k] = Greatest(d)
        BY <2>1, <3>6 DEF Values
      <4>6. PICK i \in 1..m : p[i] = k
        BY <4>3
      <4>7. Sorted(d)[i] = Greatest(d) /\ Sorted(d)[i] \in Int
        BY <3>3, <4>1, <4>5, <4>6
      <4>8. Sorted(d)[i] <= Sorted(d)[m]
        <5>1. CASE i = m
          BY <4>7, <5>1
        <5>2. CASE i # m
          BY <3>1, <4>2, <5>2
        <5> QED BY <5>1, <5>2
      <4>9. d[p[m]] <= Greatest(d) /\ d[p[m]] \in Int
        BY <2>1, <3>3, <3>6, <4>4 DEF Values
      <4> QED BY <4>4, <4>7, <4>8, <4>9
    <3> QED BY <3>2, <3>4, <3>7, <3>8
  <2> QED BY <2>4, <2>5, <2>6, <2>7 DEF m, n, t
<1>2. ASSUME ClockInv, tokens = <<>>
      PROVE  /\ TimingFigures.ttft = {} /\ TimingFigures.tokens_per_second = {}
             /\ TimingFigures.inter_token_latency = {} /\ DOMAIN Deltas(Elapsed) = {}
  <2>1. Len(Elapsed) = 0 /\ Elapsed = <<>>
    BY <1>2, ElapsedTimes
  <2> QED BY <2>1 DEF TimingFigures, DeriveTiming, Deltas
<1>3. ClockInv => FiguresFitTheRequest
  <2> SUFFICES ASSUME ClockInv, result = "ok" PROVE FiguresFitTheRequest
    BY DEF FiguresFitTheRequest
  <2> DEFINE d == Deltas(Elapsed)
             t == TimingFigures
  <2>1. CASE tokens = <<>>
    <3>1. t.ttft = {} /\ t.tokens_per_second = {} /\ t.inter_token_latency = {} /\ DOMAIN d = {}
      BY <1>2, <2>1
    <3> HIDE DEF d, t
    <3> QED BY <3>1 DEF FiguresFitTheRequest, d, t
  <2>2. CASE tokens # <<>>
    BY <1>1, <2>2 DEF FiguresFitTheRequest
  <2> QED BY <2>1, <2>2
<1> QED BY <1>3, EndHolds, PTL
=============================================================================
