--------------------------- MODULE WholeBodyProbe ---------------------------
(***************************************************************************)
(* What the probe promises of a response, chunks apart: it reads the lines *)
(* of the body in order as if the body lay there whole, stops at the first *)
(* that completes or breaks the stream, and succeeds only on completion.   *)
(***************************************************************************)
EXTENDS SseStream

CONSTANT Bodies

VARIABLES
  unread,     \* the rest of the body
  tokens,     \* how many tokens were read
  verdict     \* "pending" until the probe knows how it ends

Init ==
  /\ unread \in Bodies
  /\ tokens = 0
  /\ verdict = "pending"

Read(line) ==
  LET m == Meaning(line) IN
  /\ tokens' = IF m = "token" THEN tokens + 1 ELSE tokens
  /\ verdict' = CASE m = "completion" -> "ok"
                  [] m = "malformed"  -> "malformed"
                  [] OTHER            -> "pending"

TakeLine ==
  /\ verdict = "pending"
  /\ LineEnds(unread) # {}
  /\ Read(FirstLine(unread))
  /\ unread' = PastFirstLine(unread)

\* What follows the last newline is read when the stream ends; junk there
\* and no line at all are the same.
TakeRest ==
  /\ verdict = "pending"
  /\ LineEnds(unread) = {}
  /\ unread' = <<>>
  /\ LET m == Meaning(StripCr(unread)) IN
     /\ tokens' = IF m = "token" THEN tokens + 1 ELSE tokens
     /\ verdict' = CASE m = "completion" -> "ok"
                     [] "bad" \in {unread[i] : i \in DOMAIN unread} -> "malformed"
                     [] OTHER            -> "truncated"

\* The request or the connection fails, or the engine answers an error.
Refuse ==
  /\ verdict = "pending"
  /\ verdict' \in {"transport", "http_status", "panicked"}
  /\ UNCHANGED <<unread, tokens>>

Next == TakeLine \/ TakeRest \/ Refuse

Spec == Init /\ [][Next]_<<unread, tokens, verdict>>
=============================================================================
