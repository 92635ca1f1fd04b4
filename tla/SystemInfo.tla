----------------------------- MODULE SystemInfo -----------------------------
(***************************************************************************)
(* virtual_memory, swap_memory, get_boot_time, disk_usage and pid_exists   *)
(* of pslib_linux.c and pslib_osx.c, called one after the other by one     *)
(* program.                                                                *)
(*                                                                         *)
(* Each function is a sequence of steps, most of them behind a check that  *)
(* jumps to error.  Between two steps pages of memory change their use and *)
(* the clock may be set, on which the boot time depends.  errno belongs to *)
(* the program: what one call leaves there, the next one finds.            *)
(*                                                                         *)
(* A percentage is the pair <<n, d>> that percentage divides.  Memory is   *)
(* counted in pages; "free" stands for free and buffers, which come from   *)
(* the same snapshot, "cached" for the inactive pages of OS X as well.     *)
(***************************************************************************)
EXTENDS Integers, Sequences

CONSTANTS
  Total,       \* pages of memory
  Word,        \* 2^64 in units of a page: unsigned differences wrap there
  Ulp,         \* distance of two floats of the size of the time: 128 seconds
  MaxClock,
  MaxCalls, MaxChanges, MaxFailures

ASSUME MemoryAssumption == Total \in Nat \ {0} /\ Word \in Nat /\ 2 * Total < Word
ASSUME UlpAssumption == Ulp \in Nat \ {0}
ASSUME ClockAssumption == MaxClock \in Nat

VARIABLES
  platform,    \* "linux" or "osx"
  free, cached, clock,
  errno,
  fn, pc,      \* the function, and its next step; 0 between calls
  local,       \* freeram, or total on OS X
  ok, percent, boot,      \* what is returned
  heap,        \* memory, streams and Mach ports
  fault,
  calls, changes, failures,
  drift,       \* history: pages that have changed their use since freeram
  seen,        \* history: boot times in /proc/stat during the call
  refused      \* history: kill has been refused, now or earlier

vars == <<platform, free, cached, clock, errno, fn, pc, local, ok, percent,
          boot, heap, fault, calls, changes, failures, drift, seen, refused>>
system == <<platform, free, cached, clock, changes, seen>>

Fail == failures < MaxFailures /\ failures' = failures + 1
Block(kind) == <<calls, kind>>

Init ==
  /\ platform \in {"linux", "osx"}
  /\ free = Total /\ cached = 0 /\ clock = 0
  /\ errno = "0"
  /\ fn = "pid_exists" /\ pc = 0 /\ local = 0
  /\ ok = FALSE /\ percent = <<0, 0>> /\ boot = 0
  /\ heap = {} /\ fault = "none"
  /\ calls = 0 /\ changes = 0 /\ failures = 0
  /\ drift = 0 /\ seen = {} /\ refused = FALSE

change ==
  /\ fault = "none"
  /\ changes < MaxChanges
  /\ changes' = changes + 1
  /\ UNCHANGED <<platform, errno, fn, pc, local, ok, percent, boot, heap, fault,
                 calls, failures, refused>>

\* A page of free, cached or used memory becomes one of the others
MovePage(f, c) ==
  /\ change
  /\ f + c <= Total
  /\ f - free \in {-1, 0, 1} /\ c - cached \in {-1, 0, 1}
  /\ (f + c) - (free + cached) \in {-1, 0, 1} /\ <<f, c>> # <<free, cached>>
  /\ free' = f /\ cached' = c
  /\ drift' = drift + 1
  /\ UNCHANGED <<clock, seen>>

\* The boot time in /proc/stat is the clock's time less the time since then
SetClock(t) ==
  /\ change
  /\ clock' = t
  /\ seen' = seen \cup {t}
  /\ UNCHANGED <<free, cached, drift>>
-----------------------------------------------------------------------------
(* The steps of each function.                                             *)
virtual_memory == <<"calloc", "sysinfo", "fopen", "meminfo">>
swap_memory == <<"sysinfo", "fopen", "calloc", "vmstat">>
get_boot_time == <<"fopen", "calloc", "stat">>
osx_virtual_memory == <<"hw.memsize", "vminfo">>
osx_swap_memory == <<"vm.swapusage", "vminfo">>
osx_get_boot_time == <<"kern.boottime">>
disk_usage == <<"statvfs">>
pid_exists == <<"kill">>

Function == {"virtual_memory", "swap_memory", "get_boot_time", "disk_usage",
             "pid_exists"}

StepsOf(f, p) ==
  CASE f = "disk_usage" -> disk_usage
    [] f = "pid_exists" -> pid_exists
    [] f = "virtual_memory" ->
         IF p = "linux" THEN virtual_memory ELSE osx_virtual_memory
    [] f = "swap_memory" ->
         IF p = "linux" THEN swap_memory ELSE osx_swap_memory
    [] f = "get_boot_time" ->
         IF p = "linux" THEN get_boot_time ELSE osx_get_boot_time

Steps == StepsOf(fn, platform)
End == Len(Steps) + 1
At(s) == fault = "none" /\ pc \in 1 .. Len(Steps) /\ Steps[pc] = s

\* What error and the end of a function release
Released == {Block("line"), Block("stream")}

\* Fault: the end of a function does not close its stream
ReturnOpen(result) ==
  /\ pc' = End
  /\ ok' = result
  /\ heap' = heap \ {Block("line")}
  /\ UNCHANGED <<system, fn, fault, calls, drift>>

Return(result) ==
  /\ pc' = End
  /\ ok' = result
  /\ heap' = heap \ Released
  /\ UNCHANGED <<system, fn, fault, calls, drift>>

Call(f) ==
  /\ pc = 0 /\ fault = "none"
  /\ calls < MaxCalls
  /\ calls' = calls + 1
  /\ fn' = f /\ pc' = 1
  /\ drift' = 0 /\ seen' = {clock}
  /\ ok' = FALSE /\ percent' = <<0, 0>> /\ boot' = 0 /\ local' = 0
  /\ UNCHANGED <<platform, free, cached, clock, errno, heap, fault, changes,
                 failures, refused>>

\* The caller looks at the answer and goes on
Back ==
  /\ pc = End /\ fault = "none"
  /\ pc' = 0
  /\ UNCHANGED <<system, errno, fn, local, ok, percent, boot, heap, fault,
                 calls, failures, drift, refused>>

\* Fault: check does not reset errno
CheckFailsKeepsErrno ==
  /\ \E s \in {"calloc", "sysinfo", "fopen", "statvfs", "kern.boottime"} : At(s)
  /\ Fail
  /\ errno' = "ENOMEM"
  /\ Return(FALSE)
  /\ UNCHANGED <<local, percent, boot, refused>>

\* check: the error is logged, errno reset, and what there is released
CheckFails ==
  /\ \E s \in {"calloc", "sysinfo", "fopen", "statvfs", "kern.boottime"} : At(s)
  /\ Fail
  /\ errno' = "0"
  /\ Return(FALSE)
  /\ UNCHANGED <<local, percent, boot, refused>>

Obtain(s, kind) ==
  /\ At(s)
  /\ pc' = pc + 1
  /\ heap' = heap \cup {Block(kind)}
  /\ UNCHANGED <<system, errno, fn, local, ok, percent, boot, fault, calls,
                 failures, drift, refused>>
-----------------------------------------------------------------------------
percentage(n, d) == <<n, d>>

\* Fault: what is available, not what is not
PercentAvailable(available, total) == percentage(available, total)

\* Fault: the difference is signed
PercentUsedSigned(available, total) == percentage(total - available, total)

\* total - available is an unsigned difference
PercentUsed(available, total) == percentage((total - available) % Word, total)

\* From now on free is a copy
Sysinfo ==
  /\ At("sysinfo")
  /\ pc' = pc + 1
  /\ IF fn = "virtual_memory"
       THEN local' = free /\ UNCHANGED percent
       ELSE /\ \E total \in 0 .. Total : \E used \in 0 .. total :
                 percent' = percentage(used, total)
            /\ UNCHANGED local
  /\ drift' = 0
  /\ UNCHANGED <<system, errno, fn, ok, boot, heap, fault, calls, failures,
                 refused>>

\* The lines of /proc/meminfo, or some of them: then cached counts as 0
Meminfo ==
  /\ At("meminfo")
  /\ \/ percent' = PercentUsed(local + cached, Total) /\ UNCHANGED failures
     \/ percent' = PercentUsed(local, Total) /\ Fail
  /\ Return(TRUE)
  /\ UNCHANGED <<errno, local, boot, refused>>

\* pswpin and pswpout, which the percentage does not depend on
Vmstat ==
  /\ At("vmstat")
  /\ Return(TRUE)
  /\ UNCHANGED <<errno, local, percent, boot, failures, refused>>

\* "btime" in /proc/stat
Btime ==
  /\ At("stat")
  /\ ~(errno # "0" /\ clock = 0)
  /\ boot' = clock
  /\ Return(TRUE)
  /\ UNCHANGED <<errno, local, percent, failures, refused>>

\* There is no such line, and -1 is returned
NoBtime ==
  /\ At("stat")
  /\ Fail
  /\ Return(FALSE)
  /\ UNCHANGED <<errno, local, percent, boot, refused>>

\* A boot time of 0 is an error if errno is set, whoever has set it.  The
\* error path frees line, and then tmp, which points into it.
BtimeRejected ==
  /\ At("stat")
  /\ errno # "0" /\ clock = 0
  /\ fault' = "bad_free"
  /\ UNCHANGED <<system, errno, fn, pc, local, ok, percent, boot, heap, calls,
                 failures, drift, refused>>
-----------------------------------------------------------------------------
(* OS X.  If sysctl fails for hw.memsize or vm.swapusage, that is logged   *)
(* and the total is what was on the stack.                                 *)
Memsize ==
  /\ At("hw.memsize")
  /\ pc' = pc + 1
  /\ \/ local' = Total /\ UNCHANGED <<failures, errno>>
     \/ Fail /\ errno' = "ENOMEM" /\ local' \in {0, Total + 1}
  /\ UNCHANGED <<system, fn, ok, percent, boot, heap, fault, calls, drift,
                 refused>>

Swapusage ==
  /\ At("vm.swapusage")
  /\ pc' = pc + 1
  /\ \/ /\ \E total \in 0 .. Total : \E used \in 0 .. total :
             percent' = percentage(used, total)
        /\ UNCHANGED <<failures, errno>>
     \/ /\ Fail
        /\ errno' = "ENOMEM"
        /\ percent' \in {percentage(Total, Total + 1), percentage(Total + 1, 0)}
  /\ UNCHANGED <<system, fn, local, ok, boot, heap, fault, calls, drift, refused>>

\* host_statistics: free and cached come from the same snapshot
Vminfo ==
  /\ At("vminfo")
  /\ percent' = IF fn = "virtual_memory" THEN PercentUsed(free + cached, local)
                                         ELSE percent
  /\ Return(TRUE)
  /\ UNCHANGED <<errno, local, boot, failures, refused>>

\* The port of the host is not deallocated then
sys_vminfo_fails ==
  /\ At("vminfo")
  /\ Fail
  /\ pc' = End
  /\ heap' = heap \cup {Block("port")}
  /\ UNCHANGED <<system, errno, fn, local, ok, percent, boot, fault, calls,
                 drift, refused>>

\* Fault: the time is cut to a multiple of Ulp
AsFloatTruncated(t) == (t \div Ulp) * Ulp

\* The cast of a time to float
AsFloat(t) == ((t + Ulp \div 2) \div Ulp) * Ulp

Boottime ==
  /\ At("kern.boottime")
  /\ boot' = AsFloat(clock)
  /\ Return(TRUE)
  /\ UNCHANGED <<errno, local, percent, failures, refused>>
-----------------------------------------------------------------------------
(* Both platforms.                                                         *)
Statvfs ==
  /\ At("statvfs")
  /\ \E blocks \in 0 .. Total : \E bfree \in 0 .. blocks :
       percent' = percentage(blocks - bfree, blocks)
  /\ Return(TRUE)
  /\ UNCHANGED <<errno, local, boot, failures, refused>>

\* kill(pid, 0) for a process of this user, or pid 0, for which it is not
\* called; for one of another user; for none.  errno stays as kill leaves it.
Kill ==
  /\ At("kill")
  /\ \/ Return(TRUE) /\ UNCHANGED <<errno, refused>>
     \/ Return(TRUE) /\ errno' = "EPERM" /\ refused' = TRUE
     \/ Return(FALSE) /\ errno' = "ESRCH" /\ refused' = TRUE
  /\ UNCHANGED <<local, percent, boot, failures>>

library ==
  \/ \E f \in Function : Call(f)
  \/ CheckFails \/ Obtain("calloc", "line") \/ Obtain("fopen", "stream")
  \/ Sysinfo \/ Meminfo \/ Vmstat \/ Btime \/ NoBtime \/ BtimeRejected
  \/ Memsize \/ Swapusage \/ Vminfo \/ sys_vminfo_fails \/ Boottime
  \/ Statvfs \/ Kill \/ Back

Next ==
  \/ library
  \/ \E f, c \in 0 .. Total : MovePage(f, c)
  \/ \E t \in 0 .. MaxClock : SetClock(t)

Spec == Init /\ [][Next]_vars
-----------------------------------------------------------------------------
\* Every variable stays in its range: memory is never counted twice, and no
\* function goes on after its end.
TypeOK ==
  /\ platform \in {"linux", "osx"}
  /\ free \in 0 .. Total /\ cached \in 0 .. Total /\ free + cached <= Total
  /\ clock \in Nat /\ boot \in Nat
  /\ errno \in {"0", "EPERM", "ESRCH", "ENOMEM"}
  /\ fn \in Function /\ pc \in 0 .. End
  /\ local \in 0 .. Total + 1
  /\ ok \in BOOLEAN /\ refused \in BOOLEAN
  /\ percent \in (0 .. Word) \X (0 .. Total + 1)
  /\ heap \subseteq Nat \X {"line", "stream", "port"}
  /\ fault \in {"none", "bad_free"}
  /\ calls \in Nat /\ changes \in Nat /\ failures \in Nat /\ drift \in Nat
  /\ seen \subseteq Nat

\* A percentage that virtual_memory, swap_memory and disk_usage return is one
\* of something, but for a machine without swap and a file system without
\* blocks, and not above 100, but for memory on Linux: there it wraps, by no
\* more than the pages that changed their use between sysinfo and /proc/meminfo.
PercentSane ==
  pc = End /\ ok /\ failures = 0 =>
    LET n == percent[1]
        d == percent[2]
    IN  /\ d = 0 => n = 0 /\ fn # "virtual_memory"
        /\ n > d => /\ fn = "virtual_memory" /\ platform = "linux"
                    /\ Word - n <= drift

\* get_boot_time returns a boot time that was valid during the call, on OS X
\* to the precision of a float, and -1 only if something failed.
BootTimeRight ==
  pc = End /\ fn = "get_boot_time" =>
    IF ok
      THEN IF platform = "linux"
             THEN boot \in seen
             ELSE \E t \in seen : 2 * boot \in 2 * t - Ulp .. 2 * t + Ulp
      ELSE failures > 0

\* As far as these functions set errno, only a pid_exists that was refused
\* earlier makes get_boot_time free a pointer that is not the heap's, and only
\* if the clock stood at the epoch when the machine was booted.
BadFreeNeedsRefusal == fault # "none" => refused /\ 0 \in seen

\* Streams and memory are given back on every path, and all else too if
\* nothing fails.
AllReleased ==
  pc \in {0, End} =>
    /\ \A b \in heap : b[2] = "port"
    /\ failures = 0 => heap = {}
=============================================================================
