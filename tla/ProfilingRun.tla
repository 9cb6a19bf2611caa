---------------------------- MODULE ProfilingRun ----------------------------
(***************************************************************************)
(* What a profiling run promises, whichever of its two drivers runs it:    *)
(* it launches background tasks, and it either reports, when every task it *)
(* launched has ended and every timeline was collected, or fails.  Nothing *)
(* is launched once the outcome is settled, and no task outlives the run.  *)
(***************************************************************************)
CONSTANT Tasks

VARIABLES
  live,       \* tasks running now
  made,       \* tasks that returned what they gathered
  held,       \* tasks whose result the run holds
  outcome     \* "none", "report" or "error"

runVars == <<live, made, held, outcome>>

Init ==
  /\ live = {} /\ made = {} /\ held = {}
  /\ outcome = "none"

Launch(t) ==
  /\ outcome = "none"
  /\ t \notin live \cup made
  /\ live' = live \cup {t}
  /\ UNCHANGED <<made, held, outcome>>

Return(t) ==
  /\ t \in live
  /\ live' = live \ {t}
  /\ made' = made \cup {t}
  /\ UNCHANGED <<held, outcome>>

\* A task that panics or is stopped by the runtime returns nothing.
Vanish(t) ==
  /\ t \in live
  /\ live' = live \ {t}
  /\ UNCHANGED <<made, held, outcome>>

Collect(t) ==
  /\ outcome = "none"
  /\ t \in made
  /\ held' = held \cup {t}
  /\ UNCHANGED <<live, made, outcome>>

Report ==
  /\ outcome = "none"
  /\ live = {}
  /\ held = made
  /\ outcome' = "report"
  /\ UNCHANGED <<live, made, held>>

Fail ==
  /\ outcome = "none"
  /\ outcome' = "error"
  /\ UNCHANGED <<live, made, held>>

Next ==
  \/ \E t \in Tasks : Launch(t) \/ Return(t) \/ Vanish(t) \/ Collect(t)
  \/ Report
  \/ Fail

\* A task of a finished run does not go on for ever.
EndOf(t) == outcome # "none" /\ (Return(t) \/ Vanish(t))

Spec == Init /\ [][Next]_runVars /\ \A t \in Tasks : WF_runVars(EndOf(t))
=============================================================================
