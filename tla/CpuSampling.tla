----------------------------- MODULE CpuSampling -----------------------------
(***************************************************************************)
(* cpu_times, cpu_times_percent, cpu_util_percent and cpu_count(true) of   *)
(* pslib_linux.c and pslib_osx.c, called the way driver.c and              *)
(* tests/test_cpu.py call them: count the CPUs, take a sample, sleep, ask  *)
(* for the percentages since the sample, read one percentage per counted   *)
(* CPU, release everything.                                                *)
(*                                                                         *)
(* Meanwhile CPUs work and idle, and on Linux all but the first may go    *)
(* offline and come back: /proc/stat has a line for each online CPU, in    *)
(* ascending order, after the line of totals, which covers every CPU.      *)
(* Three fields of CpuTimes stand for the ten: idle, guest for guest and   *)
(* guest_nice, whose ticks the kernel also counts as user and nice, and    *)
(* user for the other seven.  A percentage 100 * n / d is the pair         *)
(* <<n, d>>.                                                               *)
(***************************************************************************)
EXTENDS Integers, Sequences, FiniteSets

CONSTANTS
  NCpus,
  TableSize,   \* entries cpu_times allocates on Linux: 20
  NULL,
  MaxSessions, MaxTicks, MaxHotplugs, MaxFailures

Cpu == 1 .. NCpus
Line == 0 .. NCpus   \* of the kernel's table: 0 is the line of totals
Field == {"user", "idle", "guest"}
CpuTimes == [Field -> Nat]
Zero == [f \in Field |-> 0]

Ratio == Int \X Int
Percentage == [Field -> Ratio] \cup [{"busy"} -> Ratio]

ASSUME SizeAssumption == NCpus \in Nat \ {0} /\ TableSize \in Nat \ {0}
ASSUME SentinelAssumption ==
  NULL \notin Seq(CpuTimes) \cup Seq(Percentage \cup {NULL}) \cup Percentage

VARIABLES
  platform,    \* "linux" or "osx"
  online,      \* the CPUs that are online
  counters,    \* CpuTimes since boot: totals, and those of each CPU
  pc,
  percpu, fn,  \* the arguments: "times" is cpu_times_percent, "util" the other
  counted,     \* the caller's ncpus
  ncpus,       \* the callee's ncpus
  prev,        \* the sample: CpuTimes by index, or NULL
  current,     \* the callee's own sample
  result,      \* what the callee returned: percentages by index, or NULL
  heap,        \* live blocks <<session, name>>
  fault,
  sessions, ticks, hotplugs, failures,
  steady,      \* history: no CPU went on or off since the session began
  since,       \* history: the ticks since the sample, likewise
  pairs        \* history: the CPUs that prev[i] and current[i] describe

machine == <<platform, online, counters, ticks, hotplugs>>
bounds == <<sessions, failures>>
history == <<steady, since, pairs>>
call == <<percpu, fn, counted, ncpus, prev, current, result>>
vars == <<machine, pc, call, heap, fault, bounds, history>>

\* The i-th CPU of S in ascending order
Nth(S, i) == CHOOSE c \in S : Cardinality({d \in S : d < c}) = i - 1

Totals == counters[0]

sum_cpu_time(t) == t["user"] + t["idle"] + t["guest"]

calculate_cpu_times_percentage(t1, t2) ==
  [f \in Field |-> <<t2[f] - t1[f], sum_cpu_time(t2) - sum_cpu_time(t1)>>]

\* Fault: the idle time of the sample is taken for both
UtilStaleIdle(t1, t2) ==
  LET busy(t) == sum_cpu_time(t) - t1["idle"]
  IN  [f \in {"busy"} |->
         <<busy(t2) - busy(t1), sum_cpu_time(t2) - sum_cpu_time(t1)>>]

calculate_cpu_util_percentage(t1, t2) ==
  LET busy(t) == sum_cpu_time(t) - t["idle"]
  IN  [f \in {"busy"} |->
         <<busy(t2) - busy(t1), sum_cpu_time(t2) - sum_cpu_time(t1)>>]

\* Entries of a table for each CPU: on OS X as many as the kernel describes
Entries == IF platform = "linux" THEN TableSize ELSE Cardinality(online)

PerCpuTimes(unset) ==
  [i \in 1 .. Entries |->
     IF i <= Cardinality(online) THEN counters[Nth(online, i)] ELSE unset]

\* Fault: the table is not zeroed
CpuTimesUnset == IF percpu THEN PerCpuTimes(NULL) ELSE <<Totals>>

\* The array cpu_times fills: one entry for the totals, or a table of which
\* the first Cardinality(online) entries are set.
cpu_times == IF percpu THEN PerCpuTimes(Zero) ELSE <<Totals>>

\* Fault: the CPUs that are configured, not those that are online
CpuCountConfigured == NCpus

logical_cpu_count == Cardinality(online)

\* UINT32_MAX, which is what cpu_count makes of -1.  Only the sysctl of OS X
\* can fail: the sysconf of Linux always counts at least one CPU.
Uncounted == NCpus + TableSize + 1

Goto(from, to) == pc = from /\ pc' = to
Fail == failures < MaxFailures /\ failures' = failures + 1
Blocks(names) == {<<sessions, n>> : n \in names}
-----------------------------------------------------------------------------
Init ==
  /\ platform \in {"linux", "osx"}
  /\ online = Cpu
  /\ counters = [l \in Line |-> Zero]
  /\ pc = "idle"
  /\ percpu = FALSE /\ fn = "util"
  /\ counted = 0 /\ ncpus = 0
  /\ prev = NULL /\ current = NULL /\ result = NULL
  /\ heap = {}
  /\ fault = "none"
  /\ sessions = 0 /\ ticks = 0 /\ hotplugs = 0 /\ failures = 0
  /\ steady = TRUE
  /\ since = [l \in Line |-> Zero]
  /\ pairs = [i \in Cpu |-> <<0, 0>>]

Added(t, c, fields) ==
  [l \in Line |-> [f \in Field |->
     IF l \in {0, c} /\ f \in fields THEN t[l][f] + 1 ELSE t[l][f]]]

\* An online CPU works, idles, or, on Linux, runs a guest
Tick(c, fields) ==
  /\ pc # "crashed"
  /\ "guest" \in fields => platform = "linux"
  /\ c \in online
  /\ ticks < MaxTicks
  /\ ticks' = ticks + 1
  /\ counters' = Added(counters, c, fields)
  /\ since' = IF pc \in {"sampled", "reference"} THEN Added(since, c, fields) ELSE since
  /\ UNCHANGED <<platform, online, hotplugs, pc, call, heap, fault, bounds, steady, pairs>>

Hotplug(c) ==
  /\ platform = "linux" /\ pc # "crashed"
  /\ c # 1
  /\ hotplugs < MaxHotplugs
  /\ hotplugs' = hotplugs + 1
  /\ online' = IF c \in online THEN online \ {c} ELSE online \cup {c}
  /\ steady' = FALSE
  /\ UNCHANGED <<platform, counters, ticks, pc, call, heap, fault, bounds, since, pairs>>
-----------------------------------------------------------------------------
\* cpu_count(true), which is not checked for -1
Count(n) ==
  \/ n = logical_cpu_count /\ UNCHANGED failures
  \/ n = Uncounted /\ platform = "osx" /\ Fail

\* The caller's own count, which only the per-CPU tests ask for
Begin(p) ==
  /\ Goto("idle", "counted")
  /\ sessions < MaxSessions
  /\ sessions' = sessions + 1
  /\ percpu' = p
  /\ IF p THEN \E n \in {logical_cpu_count, Uncounted} : Count(n) /\ counted' = n
          ELSE counted' = 1 /\ UNCHANGED failures
  /\ steady' = TRUE
  /\ UNCHANGED <<machine, fn, ncpus, prev, current, result, heap, fault,
                 since, pairs>>

\* Entries past the end of the table that a call of cpu_times writes
Overrun == percpu /\ Cardinality(online) > Entries

\* The CPU that an index describes; 0 if none does, or the totals do
Behind(i) ==
  IF percpu /\ i <= Cardinality(online) THEN Nth(online, i) ELSE 0

Sample ==
  /\ pc = "counted"
  /\ IF Overrun
       THEN /\ pc' = "crashed"
            /\ fault' = "wild_write"
            /\ UNCHANGED <<prev, heap, since, pairs>>
       ELSE /\ pc' = "sampled"
            /\ prev' = cpu_times
            /\ heap' = heap \cup Blocks({"prev"})
            /\ since' = [l \in Line |-> Zero]
            /\ pairs' = [i \in Cpu |-> <<Behind(i), 0>>]
            /\ UNCHANGED fault
  /\ UNCHANGED <<machine, percpu, fn, counted, ncpus, current, result, bounds,
                 steady>>

\* test_cpu_times and its variant per CPU print the sample itself, an entry
\* for each CPU counted
ReportTimes ==
  /\ pc = "sampled" /\ prev # NULL
  /\ IF counted > Len(prev)
       THEN pc' = "crashed" /\ fault' = "wild_read" /\ UNCHANGED heap
       ELSE pc' = "idle" /\ heap' = heap \ Blocks({"prev"}) /\ UNCHANGED fault
  /\ prev' = NULL
  /\ UNCHANGED <<machine, percpu, fn, counted, ncpus, current, result, bounds,
                 history>>

\* A cpu_times that fails frees what it has allocated, but on OS X it keeps
\* the port of the host if it is host_statistics or host_processor_info
KeepPort ==
  \E lost \in {{}} \cup (IF platform = "osx" THEN {{"port"}} ELSE {}) :
    heap' = heap \cup Blocks(lost)

\* A call or an allocation fails in the first cpu_times.  driver.c stops;
\* tests/test_cpu.py passes the NULL on.
SampleFails ==
  /\ pc = "counted"
  /\ Fail
  /\ prev' = NULL
  /\ pc' \in {"sampled", "idle"}
  /\ KeepPort
  /\ UNCHANGED <<machine, percpu, fn, counted, ncpus, current, result, fault,
                 sessions, history>>

\* The one calloc of cpu_times that is not checked, that of the totals
TotalsAllocFails ==
  /\ pc \in {"counted", "reference"}
  /\ ~percpu
  /\ Fail
  /\ pc' = "crashed"
  /\ fault' = "null_deref"
  /\ UNCHANGED <<machine, call, heap, sessions, history>>

\* per_cpu_times of OS X counts the words of the kernel's array in pages when
\* it unmaps it: what lies behind it in memory goes too, and the program dies
\* when it next needs that, at once or later in the session.
UnmapTooMuch ==
  /\ pc \in {"sampled", "reference", "refused", "compute", "answered"}
  /\ platform = "osx" /\ percpu
  /\ pc' = "crashed"
  /\ fault' = "wild_unmap"
  /\ UNCHANGED <<machine, call, heap, bounds, history>>

\* cpu_times_percent and cpu_util_percent: cpu_count and, in the latter, the
\* calloc of the percentages come first, then check(prev_times).
Call(f) ==
  /\ pc = "sampled"
  /\ fn' = f
  /\ \E n \in {logical_cpu_count, Uncounted} :
       /\ IF percpu THEN Count(n) /\ ncpus' = n
                    ELSE ncpus' = 1 /\ UNCHANGED failures
       /\ f = "util" => result' = [i \in 1 .. ncpus' |-> NULL]
  /\ heap' = IF f = "util" THEN heap \cup Blocks({"result"}) ELSE heap
  /\ f = "times" => result' = NULL
  /\ pc' = IF prev = NULL THEN "refused" ELSE "reference"
  /\ UNCHANGED <<machine, percpu, counted, prev, current, fault, sessions,
                 history>>

\* The calloc of the percentages fails
CallAllocFails ==
  /\ pc = "sampled"
  /\ fn' = "util"
  /\ \/ ncpus' = (IF percpu THEN logical_cpu_count ELSE 1)
     \/ ncpus' = Uncounted /\ percpu /\ platform = "osx"
  /\ Fail
  /\ result' = NULL
  /\ pc' = IF prev = NULL THEN "refused" ELSE "reference"
  /\ UNCHANGED <<machine, percpu, counted, prev, current, heap, fault, sessions,
                 history>>

\* The callee's cpu_times
Reference ==
  /\ pc = "reference"
  /\ IF Overrun
       THEN /\ pc' = "crashed"
            /\ fault' = "wild_write"
            /\ UNCHANGED <<current, heap, pairs>>
       ELSE /\ pc' = "compute"
            /\ current' = cpu_times
            /\ heap' = heap \cup Blocks({"current"})
            /\ pairs' = [i \in Cpu |-> <<pairs[i][1], Behind(i)>>]
            /\ UNCHANGED fault
  /\ UNCHANGED <<machine, percpu, fn, counted, ncpus, prev, result, bounds,
                 steady, since>>

ReferenceFails ==
  /\ Goto("reference", "refused")
  /\ Fail
  /\ KeepPort
  /\ UNCHANGED <<machine, call, fault, sessions, history>>

\* Fault: current is not freed
RefuseKeepsCurrent ==
  /\ Goto("refused", "answered")
  /\ current' = NULL
  /\ result' = NULL
  /\ UNCHANGED <<machine, percpu, fn, counted, ncpus, prev, heap, fault, bounds,
                 history>>

\* error: current is freed, cpu_util_percent's percentages are not
Refuse ==
  /\ Goto("refused", "answered")
  /\ current' = NULL
  /\ result' = NULL
  /\ heap' = heap \ Blocks({"current"})
  /\ UNCHANGED <<machine, percpu, fn, counted, ncpus, prev, fault, bounds,
                 history>>

\* cpu_times_percent allocates its result after current
ResultAllocFails ==
  /\ Goto("compute", "refused")
  /\ fn = "times"
  /\ (ncpus = Uncounted /\ UNCHANGED failures) \/ Fail
  /\ UNCHANGED <<machine, call, heap, fault, sessions, history>>

\* The calloc in calculate_cpu_times_percentage fails and *t is read, or the
\* percentages that cpu_util_percent did not get are written
ComputeCrashes ==
  /\ Goto("compute", "crashed")
  /\ \/ fn = "times" /\ Fail
     \/ fn = "util" /\ result = NULL /\ UNCHANGED failures
  /\ fault' = "null_deref"
  /\ UNCHANGED <<machine, call, heap, sessions, history>>

Compute ==
  /\ pc = "compute"
  /\ fn = "util" => result # NULL
  /\ IF ncpus > Len(current)
       THEN /\ pc' = "crashed"
            /\ fault' = "wild_read"
            /\ UNCHANGED <<current, result, heap>>
       ELSE /\ pc' = "answered"
            /\ result' =
                 [i \in 1 .. ncpus |->
                    IF fn = "util"
                      THEN calculate_cpu_util_percentage(prev[i], current[i])
                      ELSE calculate_cpu_times_percentage(prev[i], current[i])]
            /\ current' = NULL
            /\ heap' = (heap \ Blocks({"current"})) \cup Blocks({"result"})
            /\ UNCHANGED fault
  /\ UNCHANGED <<machine, percpu, fn, counted, ncpus, prev, bounds, history>>

\* The caller reads `counted` percentages and frees result and sample.  For
\* NULL, the callers of cpu_times_percent return without freeing the sample
\* and those of cpu_util_percent dereference it.
Report ==
  /\ pc = "answered"
  /\ IF result = NULL
       THEN IF fn = "times"
              THEN pc' = "idle" /\ UNCHANGED <<heap, fault>>
              ELSE pc' = "crashed" /\ fault' = "null_deref" /\ UNCHANGED heap
       ELSE IF counted > Len(result)
              THEN pc' = "crashed" /\ fault' = "wild_read" /\ UNCHANGED heap
              ELSE /\ pc' = "idle"
                   /\ heap' = heap \ Blocks({"prev", "result"})
                   /\ UNCHANGED fault
  /\ prev' = NULL
  /\ result' = NULL
  /\ UNCHANGED <<machine, percpu, fn, counted, ncpus, current, bounds, history>>

library ==
  \/ \E p \in BOOLEAN : Begin(p)
  \/ Sample \/ ReportTimes \/ SampleFails \/ TotalsAllocFails \/ UnmapTooMuch
  \/ (\E f \in {"times", "util"} : Call(f)) \/ CallAllocFails
  \/ Reference \/ ReferenceFails \/ Refuse
  \/ ResultAllocFails \/ ComputeCrashes \/ Compute \/ Report

Next ==
  \/ library
  \/ \E c \in Cpu, fields \in {{"user"}, {"idle"}, {"user", "guest"}} :
       Tick(c, fields)
  \/ \E c \in Cpu : Hotplug(c)

Spec == Init /\ [][Next]_vars
-----------------------------------------------------------------------------
\* Every variable stays in its range: in particular each entry of a sample that
\* cpu_times returns is a CpuTimes, also past the CPUs that are online.
TypeOK ==
  /\ platform \in {"linux", "osx"} /\ online \in SUBSET Cpu
  /\ counters \in [Line -> CpuTimes] /\ since \in [Line -> CpuTimes]
  /\ pc \in {"idle", "counted", "sampled", "reference", "refused", "compute",
             "answered", "crashed"}
  /\ percpu \in BOOLEAN /\ fn \in {"times", "util"}
  /\ {counted, ncpus} \subseteq (0 .. NCpus) \cup {Uncounted}
  /\ prev \in Seq(CpuTimes) \cup {NULL}
  /\ current \in Seq(CpuTimes) \cup {NULL}
  /\ result \in Seq(Percentage \cup {NULL}) \cup {NULL}
  /\ heap \subseteq Nat \X {"prev", "current", "result", "port"}
  /\ fault \in {"none", "wild_read", "wild_write", "wild_unmap", "null_deref"}
  /\ {sessions, ticks, hotplugs, failures} \subseteq Nat
  /\ steady \in BOOLEAN
  /\ pairs \in [Cpu -> (Cpu \cup {0}) \X (Cpu \cup {0})]

\* The ticks of e, those of guests once
Ticks(e) == e["user"] + e["idle"]

\* Both samples have the totals at index i, or the same CPU
Same(i) ==
  /\ pairs[i][1] = pairs[i][2]
  /\ percpu => pairs[i][1] # 0

\* The percentage r is 0 / 0 exactly if no tick has passed, between 0 and 100
\* otherwise, and the share that x has of the ticks of e unless guests ran.
Share(r, x, e) ==
  /\ r[2] = 0 <=> Ticks(e) = 0
  /\ 0 <= r[1] /\ r[1] <= r[2]
  /\ e["guest"] = 0 => r[1] * Ticks(e) = x * r[2]

\* An answer has a percentage for each CPU counted if no CPU came or went in
\* the session.  In any session, whatever was online before the sample,
\* between it and the call, and in earlier sessions, those of the totals and of
\* each CPU that both samples have at its index are shares of the ticks since
\* the sample.  A guest's ticks are in the sum twice: while one runs, a CPU is
\* shown too busy, never too idle, and each field too small, never too large.
PercentageIsShare ==
  pc = "answered" /\ result # NULL =>
    /\ steady /\ counted # Uncounted => Len(result) = counted
    /\ \A i \in 1 .. Len(result) :
         LET e == since[pairs[i][1]]
         IN  /\ steady => Same(i)
             /\ Same(i) /\ fn = "util" =>
                  LET r == result[i]["busy"]
                  IN  Share(r, e["user"], e) /\ r[1] * Ticks(e) >= e["user"] * r[2]
             /\ Same(i) /\ fn = "times" =>
                  \A f \in Field :
                    LET r == result[i][f]
                    IN  Share(r, e[f], e) /\ r[1] * Ticks(e) <= e[f] * r[2]

\* Callers and callee count the CPUs separately: an array is read past its
\* end only if a CPU came or went in between or could not be counted, a null
\* pointer is only dereferenced after a failure, and a table only overrun, on
\* Linux, if more CPUs are online than it has entries.  What is unmapped by
\* mistake needs none of this, but it takes OS X and the CPUs one by one.
FaultHasCause ==
  /\ fault = "wild_read" => ~steady \/ failures > 0
  /\ fault = "null_deref" => failures > 0
  /\ fault = "wild_write" => platform = "linux" /\ Cardinality(online) > TableSize
  /\ fault = "wild_unmap" => platform = "osx" /\ percpu

\* Of all sessions, and of a call that has just returned NULL, there remain for
\* each failure at most one block and, on OS X, one port, and never the callee's
\* sample; the caller's is still needed after such a call.
LeaksBounded ==
  LET ports == {b \in heap : b[2] = "port"}
      lost == IF pc = "idle" THEN heap \ ports
                             ELSE heap \ (ports \cup Blocks({"prev"}))
  IN  pc = "idle" \/ (pc = "answered" /\ result = NULL) =>
        /\ Cardinality(ports) <= failures
        /\ Cardinality(lost) <= failures
        /\ platform = "linux" => ports = {}
        /\ \A b \in heap : b[2] # "current"

\* If both samples describe a CPU at index i, it is the same one (driver.c
\* prints the percentage after "Cpu #i").
SameCpuCompared ==
  pc = "answered" /\ result # NULL =>
    \A i \in 1 .. ncpus : 0 \notin {pairs[i][1], pairs[i][2]} => Same(i)
=============================================================================
