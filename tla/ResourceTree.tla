---------------------------- MODULE ResourceTree ----------------------------
(***************************************************************************)
(* One sample of a process and its direct children (is-sysmon, sampler.rs: *)
(* sample_once and sample_once_aggregated; parse.rs), read file by file    *)
(* from /proc while the processes work, fork, exit and are reaped; and the *)
(* figures and the warning the report makes of the samples.  When the loop *)
(* takes a sample is module Sampler's matter.                              *)
(***************************************************************************)
EXTENDS Figures

CONSTANTS
  Parent,       \* the --pid
  Children,     \* pids it may fork
  Kib,          \* VmRSS of each process, in KiB
  Threads,      \* threads of each process
  Mode,         \* where each process spends its time: user or system
  ClockTicks,   \* what _SC_CLK_TCK may be; an empty set is no answer
  Cores,        \* processes that can work at once
  MaxElapsed, MaxSamples  \* bounds

Procs == {Parent} \cup Children

ASSUME TreeAssumption ==
  /\ Parent \in Nat /\ Children \subseteq Nat /\ Parent \notin Children
  /\ IsFiniteSet(Children)
  /\ Kib \in [Procs -> Nat] /\ Threads \in [Procs -> Nat]
  /\ Mode \in [Procs -> {"user", "system"}]
  /\ ClockTicks \subseteq SUBSET Nat
  /\ Cores \in Nat /\ MaxElapsed \in Nat /\ MaxSamples \in Nat

VARIABLES
  elapsed,      \* time since the run's start
  state,        \* of each process; a zombie waits to be reaped
  work,         \* jiffies each process has worked: [user, system]
  descendants,  \* config.include_descendants
  file,         \* which file is read next; "idle" between samples
  proc,         \* the process being read
  status,       \* what /proc/<proc>/status held; empty when it has no VmRSS
  todo,         \* children not read yet
  agg,          \* the sample being added up
  samples       \* timeline.samples

\* A sample also holds, for checking, whose readings it adds, which processes
\* were dead when its reading began, and every one's work then and at its end.
treeVars == <<elapsed, state, work, descendants, file, proc, status, todo, agg, samples>>

NoWork == [user |-> 0, system |-> 0]

Blank == [at |-> 0, rss |-> 0, user |-> 0, system |-> 0, threads |-> 0,
          counted |-> {}, dead |-> {}, began |-> << >>, ended |-> << >>]

TreeInit ==
  /\ elapsed = 0
  /\ state = [p \in Procs |-> IF p = Parent THEN "running" ELSE "unborn"]
  /\ work = [p \in Procs |-> NoWork]
  /\ descendants \in BOOLEAN
  /\ file = "idle"
  /\ proc = Parent
  /\ status = {}
  /\ todo = {}
  /\ agg = Blank
  /\ samples = <<>>

-----------------------------------------------------------------------------
(* The processes.                                                          *)

Running == {p \in Procs : state[p] = "running"}

\* What happens once the last sample is taken is of no matter.
Sampling == Len(samples) < MaxSamples

sampler == <<descendants, file, proc, status, todo, agg, samples>>

\* Those that have a processor spend a jiffy.
Work ==
  /\ Sampling
  /\ elapsed < MaxElapsed
  /\ elapsed' = elapsed + 1
  /\ \E busy \in {b \in SUBSET Running : Cardinality(b) <= Cores} :
       work' = [ p \in Procs |->
                   IF p \in busy THEN [work[p] EXCEPT ![Mode[p]] = @ + 1] ELSE work[p] ]
  /\ UNCHANGED <<state, sampler>>

\* Pids are handed out in order.
Fork(c) ==
  /\ Sampling
  /\ \A d \in Children : d < c => state[d] # "unborn"
  /\ state[Parent] = "running" /\ state[c] = "unborn"
  /\ state' = [state EXCEPT ![c] = "running"]
  /\ UNCHANGED <<elapsed, work, sampler>>

Exit(p) ==
  /\ Sampling
  /\ state[p] = "running"
  /\ state' = [state EXCEPT ![p] = "zombie"]
  /\ UNCHANGED <<elapsed, work, sampler>>

\* The parent's own reaping is left out: a zombie is as unreadable.
Reap(c) ==
  /\ Sampling
  /\ state[c] = "zombie"
  /\ state' = [state EXCEPT ![c] = "gone"]
  /\ UNCHANGED <<elapsed, work, sampler>>

-----------------------------------------------------------------------------
(* The reads.  Any may fail, and those of a process that is gone do.       *)

processes == <<elapsed, state, work>>

BeginSample ==
  /\ file = "idle"
  /\ Sampling
  /\ file' = "status"
  /\ proc' = Parent
  /\ agg' = [Blank EXCEPT !.at = elapsed, !.began = work,
                          !.dead = {p \in Procs : state[p] \in {"zombie", "gone"}}]
  /\ UNCHANGED <<processes, descendants, status, todo, samples>>

\* sample_once_aggregated returns, with a sample or an error; its locals go.
Return(timeline) ==
  /\ file' = "idle"
  /\ samples' = timeline
  /\ proc' = Parent /\ status' = {} /\ todo' = {} /\ agg' = Blank

Push(sample) == Return(Append(samples, [sample EXCEPT !.ended = work]))

\* Mutant: the child being read stays on the list.
NextChildKeeps(sample, left) ==
  IF left = {} THEN Push(sample)
  ELSE /\ file' = "status"
       /\ proc' = Min(left)
       /\ todo' = left
       /\ agg' = sample
       /\ status' = {}
       /\ UNCHANGED samples

\* The next child, if there is one; the sample is complete otherwise.
NextChild(sample, left) ==
  IF left = {} THEN Push(sample)
  ELSE /\ file' = "status"
       /\ proc' = Min(left)
       /\ todo' = left \ {Min(left)}
       /\ agg' = sample
       /\ status' = {}
       /\ UNCHANGED samples

\* The parent's failure is the sample's; a child's is its own.
ReadFails == IF proc = Parent THEN Return(samples) ELSE NextChild(agg, todo)

\* parse_status needs VmRSS, which a process that has exited has not.
ParseStatus(p) ==
  IF state[p] = "running" THEN {[rss |-> 1024 * Kib[p], threads |-> Threads[p]]} ELSE {}

ReadStatus ==
  /\ file = "status"
  /\ \/ /\ state[proc] # "gone"
        /\ status' = ParseStatus(proc)
        /\ file' = "stat"
        /\ UNCHANGED <<proc, todo, agg, samples>>
     \/ ReadFails
  /\ UNCHANGED <<processes, descendants>>

\* parse_stat, utime and stime: they outlast the process until it is reaped.
ParseStat(p) == work[p]

\* Mutant: a child's system time is left out.
AddUserOnly(sample, s, p) ==
  [ sample EXCEPT !.rss = @ + s.rss, !.threads = @ + s.threads,
                  !.user = @ + ParseStat(p).user, !.counted = @ \cup {p} ]

Add(sample, s, p) ==
  [ sample EXCEPT !.rss = @ + s.rss, !.threads = @ + s.threads,
                  !.user = @ + ParseStat(p).user, !.system = @ + ParseStat(p).system,
                  !.counted = @ \cup {p} ]

\* Both files are read before either is parsed.
ReadStat ==
  /\ file = "stat"
  /\ \/ /\ state[proc] # "gone" /\ status # {}
        /\ LET sample == Add(agg, CHOOSE s \in status : TRUE, proc) IN
           IF proc = Parent /\ descendants
           THEN /\ agg' = sample
                /\ status' = {}
                /\ file' = "children"
                /\ UNCHANGED <<proc, todo, samples>>
           ELSE NextChild(sample, todo)
     \/ ReadFails
  /\ UNCHANGED <<processes, descendants>>

Listed == {c \in Children : state[c] \in {"running", "zombie"}}

\* A list that cannot be read or parsed is an empty one; a zombie stays
\* listed until it is reaped, and orphans are no longer the parent's.
ReadChildren ==
  /\ file = "children"
  /\ \E list \in {Listed, {}} :
       /\ state[Parent] # "running" => list = {}
       /\ NextChild(agg, list)
  /\ UNCHANGED <<processes, descendants>>

Read == ReadStatus \/ ReadStat \/ ReadChildren

TreeNext ==
  \/ Work
  \/ \E c \in Children : Fork(c) \/ Reap(c)
  \/ \E p \in Procs : Exit(p)
  \/ BeginSample \/ Read

TreeSpec == TreeInit /\ [][TreeNext]_treeVars

-----------------------------------------------------------------------------
(* The warning of orchestrate (main.rs): the pid looks idle.               *)

\* Mutant: one idle sample is enough.
SuspiciousOnce(timeline) ==
  \E i \in DOMAIN timeline :
    LET s == timeline[i] IN
    s.rss < 10 * 1024 * 1024 /\ s.threads = 1 /\ s.user = 0 /\ s.system = 0

Suspicious(timeline) ==
  /\ timeline # <<>>
  /\ \A i \in DOMAIN timeline :
       LET s == timeline[i] IN
       s.rss < 10 * 1024 * 1024 /\ s.threads = 1 /\ s.user = 0 /\ s.system = 0

-----------------------------------------------------------------------------
Accounts == [Procs -> [user : Nat, system : Nat]]

Samples ==
  [ at : 0..MaxElapsed, rss : Nat, user : Nat, system : Nat, threads : Nat,
    counted : SUBSET Procs, dead : SUBSET Procs,
    began : {<< >>} \cup Accounts, ended : {<< >>} \cup Accounts ]

TreeTypeOK ==
  /\ elapsed \in 0..MaxElapsed
  /\ state \in [Procs -> {"unborn", "running", "zombie", "gone"}]
  /\ work \in Accounts
  /\ descendants \in BOOLEAN
  /\ file \in {"idle", "status", "stat", "children"}
  /\ proc \in Procs
  /\ status \in SUBSET [rss : Nat, threads : Nat]
  /\ todo \in SUBSET (Children \ ({proc} \cup agg.counted))
  /\ proc # Parent => Parent \in agg.counted
  /\ agg \in Samples
  /\ samples \in Seq(Samples)

Total(f, ps, mode) == SumFunctionOnSet([p \in Procs |-> f[p][mode]], ps)

Jiffies(f, ps) == Total(f, ps, "user") + Total(f, ps, "system")

\* A sample adds what each process it counts had between its begin and `end`.
AddsUp(s, end) ==
  /\ s.counted \cap s.dead = {}
  /\ \A mode \in {"user", "system"} :
       /\ Total(s.began, s.counted, mode) <= s[mode]
       /\ s[mode] <= Total(end, s.counted, mode)
  /\ s.rss = 1024 * SumFunctionOnSet(Kib, s.counted)
  /\ s.threads = SumFunctionOnSet(Threads, s.counted)

(* However the processes come and go between two files, a sample adds the  *)
(* parent and each child it could read once: the CPU time of each lies     *)
(* between what the process had when the reading began and when it ended,  *)
(* and no process that was dead when the reading began is in it.  While it *)
(* is read no child is read twice (TreeTypeOK).                            *)
SampleIsOfTheTree ==
  /\ TreeTypeOK
  /\ \A i \in DOMAIN samples :
       LET s == samples[i] IN
       /\ Parent \in s.counted /\ (~descendants => s.counted = {Parent})
       /\ AddsUp(s, s.ended)

(* The mean CPU use is work the monitored processes did between the two    *)
(* samples it is taken from: a process that leaves the tree, or can no     *)
(* longer be read, lowers it and never raises it, and one that joins       *)
(* raises it by no more than it worked.  A tree that stays as it was is    *)
(* measured: the figure misses only what was worked while it was read.     *)
CpuIsWorkOfTheTree ==
  \A ticks \in ClockTicks :
    \A figures \in DeriveResource(samples, ticks).figures :
      \A cpu \in figures.cpu_mean :
        LET first == First(samples)
            last  == Final(samples)
            joined == last.counted \ first.counted
        IN /\ cpu[1] \in Nat
           /\ cpu[1] <= Jiffies(last.ended, Procs) - Jiffies(first.began, Procs \ joined)
           /\ cpu[3] = last.at - first.at
           /\ first.counted = last.counted =>
                /\ Jiffies(last.began, last.counted) - Jiffies(first.ended, last.counted)
                     <= cpu[1]
                /\ cpu[1]
                     <= Jiffies(last.ended, last.counted) - Jiffies(first.began, last.counted)

(* "The user almost certainly passed the PID of a transient shell"         *)
(* (main.rs): what is warned of had not worked when it was last looked at, *)
(* and a single-threaded pid that only waits for its child is warned of.   *)
WarningIsOfAnIdlePid ==
  samples # <<>> =>
    LET last == Final(samples) IN
    /\ Suspicious(samples) => Jiffies(last.began, last.counted) = 0
    /\ ( /\ ~descendants /\ Threads[Parent] = 1 /\ Kib[Parent] < 10 * 1024
         /\ Jiffies(last.ended, {Parent}) = 0 )
       => Suspicious(samples)
=============================================================================
