-------------------------- MODULE SystemInfoProofs --------------------------
(***************************************************************************)
(* What SystemInfo promises for any amount of memory, precision of a float *)
(* and number of calls, changes and failures.                              *)
(***************************************************************************)
EXTENDS SystemInfo, TLAPS

LEMMA Shape ==
  ASSUME NEW f \in Function, NEW p \in {"linux", "osx"}
  PROVE  /\ f = "virtual_memory" /\ p = "linux" => StepsOf(f, p) = virtual_memory
         /\ f = "swap_memory" /\ p = "linux" => StepsOf(f, p) = swap_memory
         /\ f = "get_boot_time" /\ p = "linux" => StepsOf(f, p) = get_boot_time
         /\ f = "virtual_memory" /\ p = "osx" => StepsOf(f, p) = osx_virtual_memory
         /\ f = "swap_memory" /\ p = "osx" => StepsOf(f, p) = osx_swap_memory
         /\ f = "get_boot_time" /\ p = "osx" => StepsOf(f, p) = osx_get_boot_time
         /\ f = "disk_usage" => StepsOf(f, p) = disk_usage
         /\ f = "pid_exists" => StepsOf(f, p) = pid_exists
  BY DEF StepsOf, Function

LEMMA Lengths ==
  ASSUME NEW f \in Function, NEW p \in {"linux", "osx"}
  PROVE  /\ f = "virtual_memory" /\ p = "linux" => Len(StepsOf(f, p)) = 4
         /\ f = "swap_memory" /\ p = "linux" => Len(StepsOf(f, p)) = 4
         /\ f = "get_boot_time" /\ p = "linux" => Len(StepsOf(f, p)) = 3
         /\ f = "virtual_memory" /\ p = "osx" => Len(StepsOf(f, p)) = 2
         /\ f = "swap_memory" /\ p = "osx" => Len(StepsOf(f, p)) = 2
         /\ f = "get_boot_time" /\ p = "osx" => Len(StepsOf(f, p)) = 1
         /\ f \in {"disk_usage", "pid_exists"} => Len(StepsOf(f, p)) = 1
         /\ Len(StepsOf(f, p)) \in 1 .. 4
<1>1. CASE f = "virtual_memory" /\ p = "linux"
  <2>1. StepsOf(f, p) = virtual_memory
    BY <1>1, Shape
  <2>2. QED
    BY <1>1, <2>1 DEF virtual_memory
<1>2. CASE f = "swap_memory" /\ p = "linux"
  <2>1. StepsOf(f, p) = swap_memory
    BY <1>2, Shape
  <2>2. QED
    BY <1>2, <2>1 DEF swap_memory
<1>3. CASE f = "get_boot_time" /\ p = "linux"
  <2>1. StepsOf(f, p) = get_boot_time
    BY <1>3, Shape
  <2>2. QED
    BY <1>3, <2>1 DEF get_boot_time
<1>4. CASE f = "virtual_memory" /\ p = "osx"
  <2>1. StepsOf(f, p) = osx_virtual_memory
    BY <1>4, Shape
  <2>2. QED
    BY <1>4, <2>1 DEF osx_virtual_memory
<1>5. CASE f = "swap_memory" /\ p = "osx"
  <2>1. StepsOf(f, p) = osx_swap_memory
    BY <1>5, Shape
  <2>2. QED
    BY <1>5, <2>1 DEF osx_swap_memory
<1>6. CASE f = "get_boot_time" /\ p = "osx"
  <2>1. StepsOf(f, p) = osx_get_boot_time
    BY <1>6, Shape
  <2>2. QED
    BY <1>6, <2>1 DEF osx_get_boot_time
<1>7. CASE f = "disk_usage"
  <2>1. StepsOf(f, p) = disk_usage
    BY <1>7, Shape
  <2>2. QED
    BY <1>7, <2>1 DEF disk_usage
<1>8. CASE f = "pid_exists"
  <2>1. StepsOf(f, p) = pid_exists
    BY <1>8, Shape
  <2>2. QED
    BY <1>8, <2>1 DEF pid_exists
<1>9. QED
  BY <1>1, <1>2, <1>3, <1>4, <1>5, <1>6, <1>7, <1>8 DEF Function

LEMMA Ends ==
  ASSUME fn \in Function, platform \in {"linux", "osx"}
  PROVE  /\ End \in 2 .. 5
         /\ fn = "virtual_memory" /\ platform = "linux" => End = 5
         /\ fn = "swap_memory" /\ platform = "linux" => End = 5
         /\ fn = "get_boot_time" /\ platform = "linux" => End = 4
         /\ fn = "virtual_memory" /\ platform = "osx" => End = 3
         /\ fn = "swap_memory" /\ platform = "osx" => End = 3
         /\ fn = "get_boot_time" /\ platform = "osx" => End = 2
         /\ fn \in {"disk_usage", "pid_exists"} => End = 2
<1> DEFINE n == Len(Steps)
<1>1. /\ n \in 1 .. 4
      /\ fn = "virtual_memory" /\ platform = "linux" => n = 4
      /\ fn = "swap_memory" /\ platform = "linux" => n = 4
      /\ fn = "get_boot_time" /\ platform = "linux" => n = 3
      /\ fn = "virtual_memory" /\ platform = "osx" => n = 2
      /\ fn = "swap_memory" /\ platform = "osx" => n = 2
      /\ fn = "get_boot_time" /\ platform = "osx" => n = 1
      /\ fn \in {"disk_usage", "pid_exists"} => n = 1
  BY Lengths, Zenon DEF Steps
<1>2. End = n + 1
  BY DEF End
<1> HIDE DEF n
<1>3. QED
  BY <1>1, <1>2

LEMMA EndRangeNext ==
  ASSUME fn' \in Function, platform' \in {"linux", "osx"}
  PROVE  End' \in 2 .. 5
<1> DEFINE n == Len(Steps')
<1>1. n \in 1 .. 4
  BY Lengths, Zenon DEF Steps
<1>2. End' = n + 1
  BY DEF End
<1> HIDE DEF n
<1>3. QED
  BY <1>1, <1>2

LEMMA Where ==
  ASSUME fn \in Function, platform \in {"linux", "osx"}, pc \in Int
  PROVE  /\ \A s : At(s) => pc >= 1 /\ pc < End /\ fault = "none"
         /\ At("meminfo") => fn = "virtual_memory" /\ platform = "linux" /\ pc = 4
         /\ At("vmstat") => fn = "swap_memory" /\ platform = "linux" /\ pc = 4
         /\ At("stat") => fn = "get_boot_time" /\ platform = "linux" /\ pc = 3
         /\ At("hw.memsize") => fn = "virtual_memory" /\ platform = "osx" /\ pc = 1
         /\ At("vm.swapusage") => fn = "swap_memory" /\ platform = "osx" /\ pc = 1
         /\ At("vminfo") => fn \in {"virtual_memory", "swap_memory"} /\ platform = "osx" /\ pc = 2
         /\ At("kern.boottime") => fn = "get_boot_time" /\ platform = "osx" /\ pc = 1
         /\ At("statvfs") => fn = "disk_usage" /\ pc = 1
         /\ At("kill") => fn = "pid_exists" /\ pc = 1
         /\ At("sysinfo") => \/ fn = "virtual_memory" /\ platform = "linux" /\ pc = 2
                             \/ fn = "swap_memory" /\ platform = "linux" /\ pc = 1
         /\ At("calloc") \/ At("fopen") => pc + 1 < End /\ platform = "linux"
         /\ At("calloc") \/ At("fopen") =>
              (fn = "virtual_memory" => pc # 2) /\ (fn = "swap_memory" => pc # 1)
<1>1. \A s : At(s) => pc >= 1 /\ pc < End /\ fault = "none" /\ Steps[pc] = s
  BY Ends DEF At, End
<1>2. CASE fn = "virtual_memory" /\ platform = "linux"
  <2>1. (\A s : At(s) => pc \in 1 .. 4) /\ Steps = virtual_memory
    BY <1>1, <1>2, Ends, Shape DEF Steps
  <2>2. QED
    BY <1>1, <1>2, <2>1, Ends DEF virtual_memory
<1>3. CASE fn = "swap_memory" /\ platform = "linux"
  <2>1. (\A s : At(s) => pc \in 1 .. 4) /\ Steps = swap_memory
    BY <1>1, <1>3, Ends, Shape DEF Steps
  <2>2. QED
    BY <1>1, <1>3, <2>1, Ends DEF swap_memory
<1>4. CASE fn = "get_boot_time" /\ platform = "linux"
  <2>1. (\A s : At(s) => pc \in 1 .. 3) /\ Steps = get_boot_time
    BY <1>1, <1>4, Ends, Shape DEF Steps
  <2>2. QED
    BY <1>1, <1>4, <2>1, Ends DEF get_boot_time
<1>5. CASE fn = "virtual_memory" /\ platform = "osx"
  <2>1. (\A s : At(s) => pc \in {1, 2}) /\ Steps = osx_virtual_memory
    BY <1>1, <1>5, Ends, Shape DEF Steps
  <2>2. QED
    BY <1>1, <1>5, <2>1, Ends DEF osx_virtual_memory
<1>6. CASE fn = "swap_memory" /\ platform = "osx"
  <2>1. (\A s : At(s) => pc \in {1, 2}) /\ Steps = osx_swap_memory
    BY <1>1, <1>6, Ends, Shape DEF Steps
  <2>2. QED
    BY <1>1, <1>6, <2>1, Ends DEF osx_swap_memory
<1>7. CASE fn = "get_boot_time" /\ platform = "osx"
  <2>1. (\A s : At(s) => pc = 1) /\ Steps = osx_get_boot_time
    BY <1>1, <1>7, Ends, Shape DEF Steps
  <2>2. QED
    BY <1>1, <1>7, <2>1, Ends DEF osx_get_boot_time
<1>8. CASE fn = "disk_usage"
  <2>1. (\A s : At(s) => pc = 1) /\ Steps = disk_usage
    BY <1>1, <1>8, Ends, Shape DEF Steps
  <2>2. QED
    BY <1>1, <1>8, <2>1, Ends DEF disk_usage
<1>9. CASE fn = "pid_exists"
  <2>1. (\A s : At(s) => pc = 1) /\ Steps = pid_exists
    BY <1>1, <1>9, Ends, Shape DEF Steps
  <2>2. QED
    BY <1>1, <1>9, <2>1, Ends DEF pid_exists
<1>10. QED
  BY <1>2, <1>3, <1>4, <1>5, <1>6, <1>7, <1>8, <1>9 DEF Function

LEMMA Mod ==
  ASSUME NEW w \in Nat, NEW a \in Int, w > 0, 0 - w <= a, a < w
  PROVE  a % w = IF a < 0 THEN a + w ELSE a
  OBVIOUS

LEMMA Round ==
  ASSUME NEW t \in Nat
  PROVE  /\ AsFloat(t) \in Nat
         /\ 2 * AsFloat(t) \in 2 * t - Ulp .. 2 * t + Ulp
  BY UlpAssumption DEF AsFloat
-----------------------------------------------------------------------------
(* Between calls nothing but ports is allocated; during a call also what   *)
(* the function releases in the end.                                       *)
HeapInv ==
  /\ \A b \in heap : b[2] = "port" \/ b \in Released
  /\ failures = 0 => heap \subseteq Released
  /\ pc \in {0, End} \/ platform = "osx" => heap \cap Released = {}

SafeInv == TypeOK /\ HeapInv

LEMMA EndKept ==
  ASSUME UNCHANGED <<fn, platform>>
  PROVE  End' = End
  BY DEF End, Steps

LEMMA ReleasedKept ==
  ASSUME UNCHANGED calls
  PROVE  Released' = Released
  BY DEF Released, Block

LEMMA ReturnReleases ==
  ASSUME TypeOK, HeapInv, NEW r, Return(r), failures' \in {failures, failures + 1}
  PROVE  /\ HeapInv'
         /\ UNCHANGED <<system, fn, fault, calls, drift>>
         /\ pc' = End' /\ ok' = r
         /\ heap' \subseteq heap
<1>1. End' = End /\ Released' = Released
  BY EndKept, ReleasedKept DEF Return, system
<1>2. QED
  BY <1>1 DEF Return, HeapInv, TypeOK, system

LEMMA SafeInductive == Spec => []SafeInv
<1> USE MemoryAssumption, UlpAssumption, ClockAssumption
<1>1. Init => SafeInv
  <2> SUFFICES ASSUME Init PROVE SafeInv
    OBVIOUS
  <2>1. End \in 2 .. 5
    BY Ends DEF Init, Function
  <2>2. TypeOK
    <3>1. ok \in BOOLEAN /\ refused \in BOOLEAN
      BY Zenon DEF Init
    <3>2. QED
      BY <2>1, <3>1 DEF Init, TypeOK, Function
  <2>3. HeapInv
    BY <2>1 DEF Init, HeapInv
  <2>4. QED
    BY <2>2, <2>3 DEF SafeInv
<1>2. SafeInv /\ [Next]_vars => SafeInv'
  <2> SUFFICES ASSUME SafeInv, [Next]_vars PROVE SafeInv'
    OBVIOUS
  <2>0. /\ fn \in Function /\ platform \in {"linux", "osx"} /\ pc \in Int
        /\ End \in 2 .. 5 /\ TypeOK /\ HeapInv
    BY Ends DEF SafeInv, TypeOK
  <2>1. ASSUME NEW f \in Function, Call(f) PROVE SafeInv'
    <3>1. End' \in 2 .. 5
      BY <2>0, <2>1, EndRangeNext DEF Call
    <3>0. ok' \in BOOLEAN
      BY <2>1, Zenon DEF Call
    <3>2. TypeOK'
      BY <2>0, <2>1, <3>0, <3>1 DEF Call, TypeOK
    <3>3. HeapInv'
      <4>1. /\ pc = 0 /\ pc' = 1 /\ heap' = heap /\ failures' = failures
            /\ \A b \in heap : b \notin Released /\ b[2] = "port"
            /\ failures = 0 => heap = {}
        BY <2>0, <2>1 DEF Call, HeapInv
      <4>2. \A b \in Released' : b[2] # "port"
        BY DEF Released, Block
      <4>3. heap' \cap Released' = {}
        BY <4>1, <4>2
      <4>4. QED
        BY <4>1, <4>3 DEF HeapInv
    <3>4. QED
      BY <3>2, <3>3 DEF SafeInv
  <2>2. CASE CheckFails
    <3>1. /\ HeapInv' /\ UNCHANGED <<system, fn, fault, calls, drift>>
          /\ pc' = End' /\ End' \in 2 .. 5 /\ heap' \subseteq heap
      BY <2>0, <2>2, ReturnReleases, EndKept DEF CheckFails, Fail, system, TypeOK
    <3>0. ok' \in BOOLEAN
      BY <2>2, Zenon DEF CheckFails, Return
    <3>2. TypeOK'
      BY <2>0, <2>2, <3>0, <3>1 DEF CheckFails, Fail, system, TypeOK, Return
    <3>3. QED
      BY <3>1, <3>2 DEF SafeInv
  <2>3. ASSUME NEW s \in {"calloc", "fopen"}, NEW kind \in {"line", "stream"},
               Obtain(s, kind)
        PROVE  SafeInv'
    <3>1. End' = End /\ Released' = Released /\ pc >= 1 /\ pc + 1 < End
          /\ platform = "linux"
      BY <2>0, <2>3, EndKept, ReleasedKept, Where DEF Obtain, system
    <3>2. TypeOK'
      BY <2>0, <2>3, <3>1 DEF Obtain, system, TypeOK, Block
    <3>3. HeapInv'
      BY <2>0, <2>3, <3>1 DEF Obtain, HeapInv, Released, system
    <3>4. QED
      BY <3>2, <3>3 DEF SafeInv
  <2>4. CASE Sysinfo
    <3>1. End' = End /\ Released' = Released /\ pc >= 1 /\ pc + 1 < End
      BY <2>0, <2>4, EndKept, ReleasedKept, Where, Ends DEF Sysinfo, system
    <3>2. TypeOK'
      BY <2>0, <2>4, <3>1 DEF Sysinfo, Fail, system, TypeOK, percentage
    <3>3. HeapInv'
      BY <2>0, <2>4, <3>1 DEF Sysinfo, Fail, HeapInv, TypeOK, system
    <3>4. QED
      BY <3>2, <3>3 DEF SafeInv
  <2>5. CASE Meminfo
    <3>1. /\ HeapInv' /\ UNCHANGED <<system, fn, fault, calls, drift>>
          /\ pc' = End' /\ End' \in 2 .. 5 /\ heap' \subseteq heap
      BY <2>0, <2>5, ReturnReleases, EndKept DEF Meminfo, Fail, system, TypeOK
    <3>2. TypeOK'
      BY <2>0, <2>5, <3>1 DEF Meminfo, Fail, system, TypeOK, PercentUsed, percentage, Return
    <3>3. QED
      BY <3>1, <3>2 DEF SafeInv
  <2>6. CASE Vmstat
    <3>1. /\ HeapInv' /\ UNCHANGED <<system, fn, fault, calls, drift>>
          /\ pc' = End' /\ End' \in 2 .. 5 /\ heap' \subseteq heap
      BY <2>0, <2>6, ReturnReleases, EndKept DEF Vmstat, Fail, system, TypeOK
    <3>2. TypeOK'
      BY <2>0, <2>6, <3>1 DEF Vmstat, system, TypeOK, Return
    <3>3. QED
      BY <3>1, <3>2 DEF SafeInv
  <2>7. CASE Btime
    <3>1. /\ HeapInv' /\ UNCHANGED <<system, fn, fault, calls, drift>>
          /\ pc' = End' /\ End' \in 2 .. 5 /\ heap' \subseteq heap
      BY <2>0, <2>7, ReturnReleases, EndKept DEF Btime, Fail, system, TypeOK
    <3>2. TypeOK'
      BY <2>0, <2>7, <3>1 DEF Btime, system, TypeOK, Return
    <3>3. QED
      BY <3>1, <3>2 DEF SafeInv
  <2>8. CASE NoBtime
    <3>1. /\ HeapInv' /\ UNCHANGED <<system, fn, fault, calls, drift>>
          /\ pc' = End' /\ End' \in 2 .. 5 /\ heap' \subseteq heap
      BY <2>0, <2>8, ReturnReleases, EndKept DEF NoBtime, Fail, system, TypeOK
    <3>0. ok' \in BOOLEAN
      BY <2>8, Zenon DEF NoBtime, Return
    <3>2. TypeOK'
      BY <2>0, <2>8, <3>0, <3>1 DEF NoBtime, Fail, system, TypeOK, Return
    <3>3. QED
      BY <3>1, <3>2 DEF SafeInv
  <2>9. CASE BtimeRejected
    <3>1. End' = End /\ Released' = Released /\ pc >= 1 /\ pc < End
      BY <2>0, <2>9, EndKept, ReleasedKept, Where DEF BtimeRejected, system
    <3>2. TypeOK'
      BY <2>0, <2>9, <3>1 DEF BtimeRejected, Fail, system, TypeOK, percentage
    <3>3. HeapInv'
      BY <2>0, <2>9, <3>1 DEF BtimeRejected, Fail, HeapInv, TypeOK, system
    <3>4. QED
      BY <3>2, <3>3 DEF SafeInv
  <2>10. CASE Memsize
    <3>1. End' = End /\ Released' = Released /\ pc >= 1 /\ pc + 1 < End
      BY <2>0, <2>10, EndKept, ReleasedKept, Where, Ends DEF Memsize, system
    <3>2. TypeOK'
      BY <2>0, <2>10, <3>1 DEF Memsize, Fail, system, TypeOK, percentage
    <3>3. HeapInv'
      BY <2>0, <2>10, <3>1 DEF Memsize, Fail, HeapInv, TypeOK, system
    <3>4. QED
      BY <3>2, <3>3 DEF SafeInv
  <2>11. CASE Swapusage
    <3>1. End' = End /\ Released' = Released /\ pc >= 1 /\ pc + 1 < End
      BY <2>0, <2>11, EndKept, ReleasedKept, Where, Ends DEF Swapusage, system
    <3>2. TypeOK'
      BY <2>0, <2>11, <3>1 DEF Swapusage, Fail, system, TypeOK, percentage
    <3>3. HeapInv'
      BY <2>0, <2>11, <3>1 DEF Swapusage, Fail, HeapInv, TypeOK, system
    <3>4. QED
      BY <3>2, <3>3 DEF SafeInv
  <2>12. CASE Vminfo
    <3>1. /\ HeapInv' /\ UNCHANGED <<system, fn, fault, calls, drift>>
          /\ pc' = End' /\ End' \in 2 .. 5 /\ heap' \subseteq heap
      BY <2>0, <2>12, ReturnReleases, EndKept DEF Vminfo, Fail, system, TypeOK
    <3>2. TypeOK'
      BY <2>0, <2>12, <3>1 DEF Vminfo, system, TypeOK, PercentUsed, percentage, Return
    <3>3. QED
      BY <3>1, <3>2 DEF SafeInv
  <2>13. CASE sys_vminfo_fails
    <3>1. /\ End' = End /\ Released' = Released /\ pc = 2 /\ End = 3
          /\ platform = "osx" /\ Block("port") \notin Released
      BY <2>0, <2>13, EndKept, ReleasedKept, Where, Ends
         DEF sys_vminfo_fails, system, Released, Block
    <3>2. TypeOK'
      BY <2>0, <2>13, <3>1 DEF sys_vminfo_fails, Fail, system, TypeOK, Block
    <3>3. HeapInv'
      <4>1. /\ heap' = heap \cup {Block("port")} /\ failures' # 0
            /\ heap \cap Released = {} /\ Block("port")[2] = "port"
        BY <2>0, <2>13, <3>1 DEF sys_vminfo_fails, Fail, HeapInv, TypeOK, Block
      <4>2. QED
        BY <2>0, <3>1, <4>1 DEF HeapInv
    <3>4. QED
      BY <3>2, <3>3 DEF SafeInv
  <2>14. CASE Boottime
    <3>1. /\ HeapInv' /\ UNCHANGED <<system, fn, fault, calls, drift>>
          /\ pc' = End' /\ End' \in 2 .. 5 /\ heap' \subseteq heap
      BY <2>0, <2>14, ReturnReleases, EndKept DEF Boottime, Fail, system, TypeOK
    <3>2. TypeOK'
      BY <2>0, <2>14, <3>1, Round DEF Boottime, system, TypeOK, Return
    <3>3. QED
      BY <3>1, <3>2 DEF SafeInv
  <2>15. CASE Statvfs
    <3>1. /\ HeapInv' /\ UNCHANGED <<system, fn, fault, calls, drift>>
          /\ pc' = End' /\ End' \in 2 .. 5 /\ heap' \subseteq heap
      BY <2>0, <2>15, ReturnReleases, EndKept DEF Statvfs, Fail, system, TypeOK
    <3>2. TypeOK'
      BY <2>0, <2>15, <3>1 DEF Statvfs, system, TypeOK, percentage, Return
    <3>3. QED
      BY <3>1, <3>2 DEF SafeInv
  <2>16. CASE Kill
    <3>1. /\ HeapInv' /\ UNCHANGED <<system, fn, fault, calls, drift>>
          /\ pc' = End' /\ End' \in 2 .. 5 /\ heap' \subseteq heap
      BY <2>0, <2>16, ReturnReleases, EndKept DEF Kill, Fail, system, TypeOK
    <3>0. ok' \in BOOLEAN /\ refused' \in BOOLEAN
      BY <2>0, <2>16, Zenon DEF Kill, Return, TypeOK
    <3>2. TypeOK'
      BY <2>0, <2>16, <3>0, <3>1 DEF Kill, system, TypeOK, Return
    <3>3. QED
      BY <3>1, <3>2 DEF SafeInv
  <2>17. CASE Back
    <3>1. End' = End /\ Released' = Released
      BY <2>17, EndKept, ReleasedKept DEF Back, system
    <3>2. TypeOK'
      BY <2>0, <2>17, <3>1 DEF Back, system, TypeOK
    <3>3. HeapInv'
      BY <2>0, <2>17, <3>1 DEF Back, HeapInv, system
    <3>4. QED
      BY <3>2, <3>3 DEF SafeInv
  <2>18. ASSUME NEW f \in 0 .. Total, NEW c \in 0 .. Total, MovePage(f, c)
         PROVE  SafeInv'
    <3>1. End' = End /\ Released' = Released
      BY <2>18, EndKept, ReleasedKept DEF MovePage, change, system
    <3>2. TypeOK'
      BY <2>0, <2>18, <3>1 DEF MovePage, change, system, TypeOK
    <3>3. HeapInv'
      BY <2>0, <2>18, <3>1 DEF MovePage, change, HeapInv, system
    <3>4. QED
      BY <3>2, <3>3 DEF SafeInv
  <2>19. ASSUME NEW t \in 0 .. MaxClock, SetClock(t) PROVE SafeInv'
    <3>1. End' = End /\ Released' = Released
      BY <2>19, EndKept, ReleasedKept DEF SetClock, change, system
    <3>2. TypeOK'
      BY <2>0, <2>19, <3>1 DEF SetClock, change, system, TypeOK
    <3>3. HeapInv'
      BY <2>0, <2>19, <3>1 DEF SetClock, change, HeapInv, system
    <3>4. QED
      BY <3>2, <3>3 DEF SafeInv
  <2>20. CASE UNCHANGED vars
    <3>1. End' = End /\ Released' = Released
      BY <2>20, EndKept, ReleasedKept DEF vars, system
    <3>2. TypeOK'
      BY <2>0, <2>20, <3>1 DEF vars, system, TypeOK
    <3>3. HeapInv'
      BY <2>0, <2>20, <3>1 DEF vars, HeapInv, system
    <3>4. QED
      BY <3>2, <3>3 DEF SafeInv
  <2>21. QED
    BY <2>1, <2>2, <2>3, <2>4, <2>5, <2>6, <2>7, <2>8, <2>9, <2>10, <2>11,
       <2>12, <2>13, <2>14, <2>15, <2>16, <2>17, <2>18, <2>19, <2>20
       DEF Next, library
<1>3. QED
  BY <1>1, <1>2, PTL DEF Spec

(* Type correctness of the five functions for any memory and bounds.       *)
THEOREM TypeCorrect == Spec => []TypeOK
  BY SafeInductive, PTL DEF SafeInv

(* Whatever fails and wherever, streams and memory are given back, and     *)
(* only a port of OS X is lost, by a call that failed.                     *)
THEOREM NothingKept == Spec => []AllReleased
<1>1. SafeInv => AllReleased
  <2> SUFFICES ASSUME SafeInv PROVE AllReleased
    OBVIOUS
  <2>1. QED
    BY DEF SafeInv, HeapInv, AllReleased
<1>2. QED
  BY <1>1, SafeInductive, PTL
-----------------------------------------------------------------------------
(* The percentage while it is computed: free is a copy, and since the copy *)
(* was made, memory that was not counted in it may have become cached.     *)
LocalInv == pc # End =>
  /\ fn = "virtual_memory" /\ platform = "linux" /\ pc > 2 =>
       local \in 0 .. Total /\ local + cached <= Total + drift
  /\ fn = "virtual_memory" /\ platform = "osx" /\ pc = 2 /\ failures = 0 =>
       local = Total
  /\ fn = "swap_memory" /\ platform = "linux" /\ pc > 1 =>
       percent[1] <= percent[2]
  /\ fn = "swap_memory" /\ platform = "osx" /\ pc = 2 /\ failures = 0 =>
       percent[1] <= percent[2]
  /\ pc > 0 /\ fn \in {"get_boot_time", "pid_exists"} => percent = <<0, 0>>

LEMMA PercentOf ==
  ASSUME NEW a \in Nat, NEW d \in 0 .. Total, a <= 2 * Total
  PROVE  /\ PercentUsed(a, d)[2] = d
         /\ PercentUsed(a, d)[1] = IF a <= d THEN d - a ELSE Word + d - a
<1>1. d - a \in Int /\ 0 - Word <= d - a /\ d - a < Word /\ Word \in Nat /\ Word > 0
  BY MemoryAssumption
<1>2. (d - a) % Word = IF d - a < 0 THEN d - a + Word ELSE d - a
  BY <1>1, Mod
<1>3. QED
  BY <1>1, <1>2, MemoryAssumption DEF PercentUsed, percentage

LEMMA PercentInductive == Spec => [](LocalInv /\ PercentSane)
<1> USE MemoryAssumption
<1>1. Init => LocalInv /\ PercentSane
  <2> SUFFICES ASSUME Init PROVE LocalInv /\ PercentSane
    OBVIOUS
  <2>1. pc = 0 /\ End \in 2 .. 5
    BY Ends DEF Init, Function
  <2>2. QED
    BY <2>1 DEF LocalInv, PercentSane
<1>2. SafeInv /\ SafeInv' /\ LocalInv /\ PercentSane /\ [Next]_vars
        => LocalInv' /\ PercentSane'
  <2> SUFFICES ASSUME SafeInv, SafeInv', LocalInv, PercentSane, [Next]_vars
               PROVE  LocalInv' /\ PercentSane'
    OBVIOUS
  <2> DEFINE Goal == LocalInv' /\ PercentSane'
  <2>0. /\ fn \in Function /\ platform \in {"linux", "osx"} /\ pc \in Int
        /\ End \in 2 .. 5 /\ End' \in 2 .. 5 /\ TypeOK /\ TypeOK'
    <3>1. /\ TypeOK /\ TypeOK' /\ fn \in Function /\ platform \in {"linux", "osx"}
          /\ fn' \in Function /\ platform' \in {"linux", "osx"} /\ pc \in 0 .. End
      BY DEF SafeInv, TypeOK
    <3>2. End \in 2 .. 5 /\ End' \in 2 .. 5
      BY <3>1, Ends, EndRangeNext
    <3>3. QED
      BY <3>1, <3>2
  <2>1. ASSUME NEW f \in Function, Call(f) PROVE Goal
    BY <2>0, <2>1 DEF Call, LocalInv, PercentSane
  <2>2. CASE CheckFails \/ NoBtime
    <3>1. pc' = End' /\ ~ok'
      BY <2>2, EndKept, Zenon DEF CheckFails, NoBtime, Return, system
    <3>2. QED
      BY <3>1, Zenon DEF LocalInv, PercentSane
  <2>3. ASSUME NEW s \in {"calloc", "fopen"}, NEW kind, Obtain(s, kind) PROVE Goal
    <3>1. /\ End' = End /\ pc >= 1 /\ pc + 1 < End /\ platform = "linux"
          /\ fn = "virtual_memory" => pc # 2
          /\ fn = "swap_memory" => pc # 1
      BY <2>0, <2>3, EndKept, Where DEF Obtain, system
    <3>2. QED
      BY <2>0, <2>3, <3>1 DEF Obtain, system, LocalInv, PercentSane
  <2>4. CASE Sysinfo
    <3>1. /\ End' = End /\ pc + 1 < End /\ platform = "linux"
          /\ fn \in {"virtual_memory", "swap_memory"}
          /\ pc' = pc + 1 /\ UNCHANGED <<fn, platform, cached>> /\ drift' = 0
      BY <2>0, <2>4, EndKept, Where, Ends DEF Sysinfo, system
    <3>2. CASE fn = "virtual_memory"
      BY <2>0, <2>4, <3>1, <3>2 DEF Sysinfo, LocalInv, PercentSane, TypeOK
    <3>3. CASE fn = "swap_memory"
      <4>1. percent'[1] <= percent'[2]
        BY <2>4, <3>3 DEF Sysinfo, percentage
      <4>2. QED
        BY <2>0, <3>1, <3>3, <4>1 DEF LocalInv, PercentSane
    <3>4. QED
      BY <3>1, <3>2, <3>3
  <2>5. CASE Meminfo
    <3>1. /\ pc' = End' /\ fn' = "virtual_memory" /\ platform' = "linux"
          /\ pc = 4 /\ End = 5 /\ drift' = drift
      BY <2>0, <2>5, EndKept, Where, Ends DEF Meminfo, Return, system
    <3>2. LocalInv'
      BY <3>1 DEF LocalInv
    <3>3. PercentSane'
      <4>1. SUFFICES ASSUME failures' = 0 PROVE PercentSane'
        BY DEF PercentSane
      <4>2. percent' = PercentUsed(local + cached, Total)
        BY <2>0, <2>5, <4>1 DEF Meminfo, Fail, TypeOK
      <4>3. /\ local \in 0 .. Total /\ local + cached <= Total + drift
            /\ cached \in 0 .. Total /\ drift \in Nat
        <5>1. cached \in 0 .. Total /\ drift \in Nat
          BY <2>0 DEF TypeOK
        <5>2. pc # End /\ fn = "virtual_memory" /\ platform = "linux" /\ pc > 2
          BY <2>0, <2>5, <3>1, Where DEF Meminfo
        <5>3. QED
          BY <5>1, <5>2, Zenon DEF LocalInv
      <4> DEFINE a == local + cached
      <4>4. /\ percent'[2] = Total
            /\ percent'[1] = IF a <= Total THEN Total - a ELSE Word + Total - a
        BY <4>2, <4>3, PercentOf
      <4>5. QED
        BY <3>1, <4>3, <4>4 DEF PercentSane
    <3>4. QED
      BY <3>2, <3>3
  <2>6. CASE Vmstat
    <3>1. /\ pc' = End' /\ fn' = "swap_memory" /\ platform' = "linux"
          /\ pc = 4 /\ End = 5 /\ percent' = percent
      BY <2>0, <2>6, EndKept, Where, Ends DEF Vmstat, Return, system
    <3>2. percent[1] <= percent[2]
      <4>1. /\ pc # End /\ fn = "swap_memory" /\ platform = "linux" /\ pc > 1
        BY <2>0, <2>6, <3>1, Where DEF Vmstat
      <4>2. QED
        BY <4>1, Zenon DEF LocalInv
    <3>3. percent[1] \in Nat /\ percent[2] \in Nat
      BY <2>0 DEF TypeOK
    <3>4. QED
      BY <3>1, <3>2, <3>3 DEF LocalInv, PercentSane
  <2>7. CASE Btime \/ Boottime
    <3>1. /\ pc' = End' /\ fn' = "get_boot_time" /\ percent' = percent
          /\ fn = "get_boot_time" /\ pc # End /\ pc > 0
      BY <2>0, <2>7, EndKept, Where DEF Btime, Boottime, Return, system
    <3>2. percent = <<0, 0>>
      BY <3>1, Zenon DEF LocalInv
    <3>3. QED
      BY <3>1, <3>2 DEF LocalInv, PercentSane
  <2>8. CASE BtimeRejected
    <3>1. /\ End' = End /\ fn = "get_boot_time" /\ pc # End
          /\ UNCHANGED <<fn, pc, percent>> /\ pc > 0
      BY <2>0, <2>8, EndKept, Where DEF BtimeRejected, system
    <3>2. QED
      BY <3>1 DEF LocalInv, PercentSane
  <2>9. CASE Memsize
    <3>1. /\ End' = End /\ End = 3 /\ pc' = 2 /\ fn' = "virtual_memory"
          /\ platform' = "osx"
      BY <2>0, <2>9, EndKept, Where, Ends DEF Memsize, system
    <3>2. failures' = 0 => local' = Total
      BY <2>0, <2>9 DEF Memsize, Fail, TypeOK
    <3>3. QED
      BY <3>1, <3>2 DEF LocalInv, PercentSane
  <2>10. CASE Swapusage
    <3>1. /\ End' = End /\ End = 3 /\ pc' = 2 /\ fn' = "swap_memory"
          /\ platform' = "osx"
      BY <2>0, <2>10, EndKept, Where, Ends DEF Swapusage, system
    <3>2. failures' = 0 => percent'[1] <= percent'[2]
      BY <2>0, <2>10 DEF Swapusage, Fail, TypeOK, percentage
    <3>3. QED
      BY <3>1, <3>2 DEF LocalInv, PercentSane
  <2>11. CASE Vminfo
    <3>1. /\ pc' = End' /\ fn' = fn /\ platform' = "osx" /\ platform = "osx"
          /\ pc = 2 /\ End = 3 /\ failures' = failures
          /\ fn \in {"virtual_memory", "swap_memory"}
      BY <2>0, <2>11, EndKept, Where, Ends DEF Vminfo, Return, system
    <3>2. LocalInv'
      BY <3>1 DEF LocalInv
    <3>3. PercentSane'
      <4>1. SUFFICES ASSUME failures = 0 PROVE PercentSane'
        BY <3>1 DEF PercentSane
      <4>2. CASE fn = "virtual_memory"
        <5>1. local = Total /\ percent' = PercentUsed(free + cached, local)
          BY <2>11, <3>1, <4>1, <4>2 DEF LocalInv, Vminfo
        <5>2. free + cached \in Nat /\ free + cached <= Total
          BY <2>0 DEF TypeOK
        <5> DEFINE a == free + cached
        <5>3. percent'[2] = Total /\ percent'[1] = Total - a
          BY <5>1, <5>2, PercentOf
        <5>4. QED
          BY <3>1, <4>2, <5>2, <5>3 DEF PercentSane
      <4>3. CASE fn = "swap_memory"
        <5>1. percent[1] <= percent[2] /\ percent' = percent
          BY <2>11, <3>1, <4>1, <4>3 DEF LocalInv, Vminfo
        <5>2. percent[1] \in Nat /\ percent[2] \in Nat
          BY <2>0 DEF TypeOK
        <5>3. QED
          BY <3>1, <4>3, <5>1, <5>2 DEF PercentSane
      <4>4. QED
        BY <3>1, <4>2, <4>3
    <3>4. QED
      BY <3>2, <3>3
  <2>12. CASE sys_vminfo_fails
    <3>1. pc' = End' /\ failures' # 0
      BY <2>0, <2>12, EndKept DEF sys_vminfo_fails, Fail, TypeOK, system
    <3>2. QED
      BY <3>1 DEF LocalInv, PercentSane
  <2>13. CASE Statvfs
    <3>1. pc' = End' /\ fn' = "disk_usage"
      BY <2>0, <2>13, EndKept, Where DEF Statvfs, Return, system
    <3>2. PICK blocks \in 0 .. Total : \E bfree \in 0 .. blocks :
            percent' = percentage(blocks - bfree, blocks)
      BY <2>13 DEF Statvfs
    <3>3. PICK bfree \in 0 .. blocks : percent' = percentage(blocks - bfree, blocks)
      BY <3>2
    <3>4. percent'[1] = blocks - bfree /\ percent'[2] = blocks
      BY <3>3 DEF percentage
    <3>5. QED
      BY <3>1, <3>2, <3>3, <3>4 DEF LocalInv, PercentSane
  <2>14. CASE Kill
    <3>1. /\ pc' = End' /\ fn' = "pid_exists" /\ percent' = percent
          /\ fn = "pid_exists" /\ pc # End /\ pc > 0
      BY <2>0, <2>14, EndKept, Where DEF Kill, Return, system
    <3>2. percent = <<0, 0>>
      BY <3>1, Zenon DEF LocalInv
    <3>3. QED
      BY <3>1, <3>2 DEF LocalInv, PercentSane
  <2>15. CASE Back
    <3>1. pc' = 0 /\ End' = End
      BY <2>15, EndKept DEF Back, system
    <3>2. QED
      BY <2>0, <3>1 DEF LocalInv, PercentSane
  <2>16. ASSUME NEW f \in 0 .. Total, NEW c \in 0 .. Total, MovePage(f, c)
         PROVE  Goal
    <3>1. /\ End' = End /\ drift' = drift + 1 /\ cached' = c
          /\ UNCHANGED <<fn, platform, pc, failures, local, percent, ok>>
      BY <2>16, EndKept DEF MovePage, change, system
    <3>2. c - cached \in {-1, 0, 1} /\ cached \in Nat /\ drift \in Nat
      BY <2>0, <2>16 DEF MovePage, TypeOK
    <3>3. LocalInv'
      BY <3>1, <3>2 DEF LocalInv
    <3>4. percent[1] \in Nat
      BY <2>0 DEF TypeOK
    <3>5. PercentSane'
      BY <3>1, <3>2, <3>4 DEF PercentSane
    <3>6. QED
      BY <3>3, <3>5
  <2>17. CASE (\E t \in 0 .. MaxClock : SetClock(t)) \/ UNCHANGED vars
    <3>1. UNCHANGED <<fn, platform, pc, failures, local, percent, ok, drift, cached>>
      BY <2>17 DEF SetClock, change, vars
    <3>2. End' = End
      BY <3>1, EndKept
    <3>3. QED
      BY <3>1, <3>2 DEF LocalInv, PercentSane
  <2>18. QED
    BY <2>1, <2>2, <2>3, <2>4, <2>5, <2>6, <2>7, <2>8, <2>9, <2>10, <2>11,
       <2>12, <2>13, <2>14, <2>15, <2>16, <2>17 DEF Next, library
<1>3. QED
  BY <1>1, <1>2, SafeInductive, PTL DEF Spec

(* A percentage is of something and not above 100, but for memory on       *)
(* Linux, where it is so by no more than the pages that changed their use  *)
(* between the two snapshots.                                              *)
THEOREM PercentagesSane == Spec => []PercentSane
  BY PercentInductive, PTL
-----------------------------------------------------------------------------
(* errno is set on Linux only since a refused pid_exists, and the present  *)
(* boot time is one of those seen.                                         *)
BootInv ==
  /\ platform = "linux" /\ errno # "0" => refused
  /\ pc > 0 => clock \in seen

LEMMA BootInductive == Spec => [](BootInv /\ BootTimeRight /\ BadFreeNeedsRefusal)
<1>1. Init => BootInv /\ BootTimeRight /\ BadFreeNeedsRefusal
  <2> SUFFICES ASSUME Init PROVE BootInv /\ BootTimeRight /\ BadFreeNeedsRefusal
    OBVIOUS
  <2>1. QED
    BY DEF Init, BootInv, BootTimeRight, BadFreeNeedsRefusal
<1>2. SafeInv /\ SafeInv' /\ BootInv /\ BootTimeRight /\ BadFreeNeedsRefusal
        /\ [Next]_vars
        => BootInv' /\ BootTimeRight' /\ BadFreeNeedsRefusal'
  <2> SUFFICES ASSUME SafeInv, SafeInv', BootInv, BootTimeRight,
                      BadFreeNeedsRefusal, [Next]_vars
               PROVE  BootInv' /\ BootTimeRight' /\ BadFreeNeedsRefusal'
    OBVIOUS
  <2> DEFINE Goal == BootInv' /\ BootTimeRight' /\ BadFreeNeedsRefusal'
  <2>0. /\ fn \in Function /\ platform \in {"linux", "osx"} /\ pc \in Int
        /\ clock \in Nat /\ failures \in Nat /\ End \in 2 .. 5 /\ End' \in 2 .. 5
    <3>1. /\ fn \in Function /\ platform \in {"linux", "osx"}
          /\ fn' \in Function /\ platform' \in {"linux", "osx"} /\ pc \in 0 .. End
          /\ clock \in Nat /\ failures \in Nat
      BY DEF SafeInv, TypeOK
    <3>2. End \in 2 .. 5 /\ End' \in 2 .. 5
      BY <3>1, Ends, EndRangeNext
    <3>3. QED
      BY <3>1, <3>2
  <2>1. ASSUME NEW f \in Function, Call(f) PROVE Goal
    BY <2>0, <2>1 DEF Call, BootInv, BootTimeRight, BadFreeNeedsRefusal
  <2>2. CASE CheckFails \/ NoBtime
    <3>1. /\ pc > 0 /\ fault' = "none" /\ ~ok' /\ failures' > 0
          /\ UNCHANGED <<platform, clock, seen, refused>>
          /\ errno' \in {"0", errno}
      <4>1. ~ok'
        BY <2>2, Zenon DEF CheckFails, NoBtime, Return
      <4>2. pc > 0 /\ fault = "none"
        <5>1. \E s : At(s)
          BY <2>2 DEF CheckFails, NoBtime
        <5>2. pc >= 1 /\ fault = "none"
          BY <2>0, <5>1, Where, Zenon
        <5>3. QED
          BY <2>0, <5>2
      <4>3. QED
        BY <2>0, <2>2, <4>1, <4>2 DEF CheckFails, NoBtime, Return, Fail, system
    <3>2. BootInv'
      BY <3>1 DEF BootInv
    <3>3. BootTimeRight'
      BY <3>1, Zenon DEF BootTimeRight
    <3>4. QED
      BY <3>1, <3>2, <3>3 DEF BadFreeNeedsRefusal
  <2>3. CASE Btime
    <3>1. /\ pc > 0 /\ fault' = "none" /\ platform = "linux" /\ boot' = clock
          /\ UNCHANGED <<platform, clock, seen, refused, errno>>
      BY <2>0, <2>3, Where DEF Btime, Return, system
    <3>2. ok'
      BY <2>3, Zenon DEF Btime, Return
    <3>3. BootInv' /\ boot' \in seen'
      BY <3>1 DEF BootInv
    <3>4. QED
      BY <3>1, <3>2, <3>3 DEF BootTimeRight, BadFreeNeedsRefusal
  <2>4. CASE Boottime
    <3>1. /\ pc > 0 /\ fault' = "none" /\ platform' = "osx" /\ boot' = AsFloat(clock)
          /\ UNCHANGED <<platform, clock, seen, refused, errno>>
      BY <2>0, <2>4, Where DEF Boottime, Return, system
    <3>2. ok'
      BY <2>4, Zenon DEF Boottime, Return
    <3>3. BootInv' /\ clock \in seen'
      BY <3>1 DEF BootInv
    <3>4. \E t \in seen' : 2 * boot' \in 2 * t - Ulp .. 2 * t + Ulp
      BY <2>0, <3>1, <3>3, Round
    <3>5. QED
      BY <3>1, <3>2, <3>3, <3>4 DEF BootTimeRight, BadFreeNeedsRefusal
  <2>5. CASE BtimeRejected
    <3>1. /\ pc > 0 /\ pc # End /\ platform = "linux" /\ errno # "0" /\ clock = 0
          /\ UNCHANGED <<platform, clock, seen, refused, errno, pc, fn>>
      BY <2>0, <2>5, Where DEF BtimeRejected, system
    <3>2. End' = End
      BY <3>1, EndKept
    <3>3. BootInv' /\ refused' /\ 0 \in seen'
      BY <3>1 DEF BootInv
    <3>4. QED
      BY <3>1, <3>2, <3>3 DEF BootTimeRight, BadFreeNeedsRefusal
  <2>6. CASE Kill
    <3>1. /\ pc > 0 /\ fault' = "none" /\ fn' # "get_boot_time"
          /\ UNCHANGED <<platform, clock, seen>>
      BY <2>0, <2>6, Where DEF Kill, Return, system
    <3>2. (UNCHANGED <<errno, refused>>) \/ refused'
      BY <2>6, Zenon DEF Kill
    <3>3. QED
      BY <3>1, <3>2 DEF BootInv, BootTimeRight, BadFreeNeedsRefusal
  <2>7. CASE Meminfo \/ Vmstat \/ Vminfo \/ sys_vminfo_fails \/ Statvfs
    <3>1. /\ pc > 0 /\ fault' = "none" /\ fn' # "get_boot_time"
          /\ UNCHANGED <<platform, clock, seen, errno, refused>>
      BY <2>0, <2>7, Where
         DEF Meminfo, Vmstat, Vminfo, sys_vminfo_fails, Statvfs, Return, system
    <3>2. QED
      BY <3>1 DEF BootInv, BootTimeRight, BadFreeNeedsRefusal
  <2>8. CASE \/ Sysinfo \/ Memsize \/ Swapusage
             \/ Obtain("calloc", "line") \/ Obtain("fopen", "stream")
    <3>1. /\ pc > 0 /\ pc' = pc + 1 /\ pc + 1 < End /\ fault' = "none"
          /\ UNCHANGED <<platform, fn, clock, seen, refused>>
          /\ platform = "linux" => errno' = errno
      BY <2>0, <2>8, Where, Ends DEF Sysinfo, Memsize, Swapusage, Obtain, system
    <3>2. End' = End
      BY <3>1, EndKept
    <3>3. QED
      BY <2>0, <3>1, <3>2 DEF BootInv, BootTimeRight, BadFreeNeedsRefusal
  <2>9. CASE Back
    <3>1. /\ pc' = 0 /\ fault' = "none"
          /\ UNCHANGED <<platform, errno, refused>>
      BY <2>9 DEF Back, system
    <3>2. QED
      BY <2>0, <3>1 DEF BootInv, BootTimeRight, BadFreeNeedsRefusal
  <2>10. CASE \/ \E f, c \in 0 .. Total : MovePage(f, c)
              \/ \E t \in 0 .. MaxClock : SetClock(t)
              \/ UNCHANGED vars
    <3>1. /\ UNCHANGED <<platform, errno, refused, pc, fn, fault, ok, boot, failures>>
          /\ seen \subseteq seen'
          /\ (UNCHANGED clock) \/ clock' \in seen'
      BY <2>10 DEF MovePage, SetClock, change, vars
    <3>2. End' = End
      BY <3>1, EndKept
    <3>3. BootInv' /\ BadFreeNeedsRefusal'
      BY <3>1 DEF BootInv, BadFreeNeedsRefusal
    <3>4. BootTimeRight'
      BY <3>1, <3>2 DEF BootTimeRight
    <3>5. QED
      BY <3>3, <3>4
  <2>11. QED
    BY <2>1, <2>2, <2>3, <2>4, <2>5, <2>6, <2>7, <2>8, <2>9, <2>10
       DEF Next, library
<1>3. QED
  BY <1>1, <1>2, SafeInductive, PTL DEF Spec

(* get_boot_time returns a boot time of the time of the call, or what a    *)
(* cast to float makes of one.                                             *)
THEOREM BootTimesRight == Spec => []BootTimeRight
  BY BootInductive, PTL

(* A pointer that is not the heap's is freed only after an errno of an     *)
(* earlier, refused call.                                                  *)
THEOREM BadFreesExplained == Spec => []BadFreeNeedsRefusal
  BY BootInductive, PTL
=============================================================================
