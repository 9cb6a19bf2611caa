--------------------------- MODULE MCResourceTree ---------------------------
(* A wrapper of one thread and two children it may fork, two jiffies of    *)
(* time and two samples; the clock tick is known or not.                   *)
EXTENDS ResourceTree, TLC

Sizes == (1 :> 1) @@ (2 :> 2) @@ (3 :> 20000)

ThreadCounts == (1 :> 1) @@ (2 :> 1) @@ (3 :> 4)

Modes == (1 :> "user") @@ (2 :> "system") @@ (3 :> "user")

Answers == {{}, {100}}
=============================================================================
