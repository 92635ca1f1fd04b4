# Verification of cpslib

TLA+ models of the C library in this repository (`pslib_linux.c`,
`pslib_osx.c`, `common.c` and the way `driver.c` calls them), model-checked with
TLC and proved with TLAPS: every safety property that a run checks and no
code violates is also a theorem for all values of the constants.

cpslib answers questions about the system (who is logged in, what is mounted,
how busy are the CPUs) by reading tables that the kernel and other programs
change all the time, and returns heap structures that the caller releases with
a `free_*` function. The library has no threads and keeps nothing on disk; what
is hard about it is

- **the environment moves**: every function takes several reads to build one
  answer, and some take several tables, which do not describe one moment;
- **failure paths**: C code with `check(...)`/`goto error`, in which every
  allocation, `fopen`, `sysctl` and `realloc` can fail and the cleanup has to
  fit what has been built so far;
- **growing and fixed tables**: two arrays are doubled with `realloc` while a
  cursor points into them, others have fixed sizes;
- **state that outlives a call**: the position of `getutent`, `errno`;
- **two implementations** behind one header, which fail in different ways.

## Components

| component | state | operations | modules | status |
|---|---|---|---|---|
| logged-in users | `UsersInfo`, growing array, position in utmp | `get_users`, `free_users_info` | `GetUsers`, `GrowArray`, `ScanQuery`, `GetUsersProofs` | modelled, proved |
| mounted file systems | `DiskPartitionInfo`, growing array, physical types | `disk_partitions`, `get_physical_devices`, `free_disk_partition_info` | `DiskPartitions`, `GrowArray`, `ScanQuery`, `DiskPartitionsProofs`; `OsxListings` | modelled, proved |
| block device counters | names wanted, counters table | `disk_io_counters`, `free_disk_iocounter_info` | `IOCounters`, `IOCountersProofs`; `OsxListings`, `OsxListingsProofs` | modelled, proved |
| network counters | table of 15 entries | `net_io_counters`, `free_net_iocounter_info` | `IOCounters`, `IOCountersProofs`; `OsxListings`, `OsxListingsProofs` | modelled, proved |
| CPU percentages | the caller's sample, the callee's, CPU counts | `cpu_times`, `cpu_times_percent`, `cpu_util_percent`, `cpu_count(true)` | `CpuSampling`, `CpuSamplingProofs` | modelled, proved |
| CPU packages | ids met so far | `cpu_count(false)`, `physical_cpu_count` | `PhysicalCpuCount`, `PhysicalCpuCountProofs` | modelled, proved |
| one process | the `Process` structure, link buffers, streams | `get_process` and its field readers, `free_process` | `GetProcess`, `GetProcessProofs` | modelled, proved |
| memory | two snapshots | `virtual_memory`, `swap_memory` | `SystemInfo`, `SystemInfoProofs` | modelled, proved |
| boot time | `errno` | `get_boot_time` | `SystemInfo`, `SystemInfoProofs` | modelled, proved |
| disk usage, pid test | `errno` | `disk_usage`, `pid_exists` | `SystemInfo`, `SystemInfoProofs` | modelled, proved |
| text helpers | none | `grep_awk`, `squeeze`, `str_comp`, `percentage` | where they are used | partly |
| driver | none | calls each function | the caller's actions of each module | partly |
| Python bindings, build files, `gcov_flush` | none | | | no program logic |

The functions of both platforms are modelled: in one module with a variable
`platform` where they take the same steps (`GetProcess`, `CpuSampling`,
`SystemInfo`), without one where they do not differ in what the module keeps
(`GetUsers`), and in `OsxListings` where the OS X function is another algorithm.

The functions do not call one another, with three exceptions, each inside one
module: `disk_partitions` calls `get_physical_devices`, the percentages call
`cpu_times` and `cpu_count`, and `get_process` its field readers (and
`get_boot_time`, whose answer is only added to the creation time). They share
state through the system tables, through the C library (`get_users`), and
through `errno` (`get_boot_time`).

What makes each correct: an answer is complete and consistent with what the
table held during the call; no store or free outside live blocks, on any
failure path; a released answer leaves nothing allocated and a failed call as
little as the code allows; streams closed exactly once; no crash unless memory
is exhausted or the system changed under the call; and calls end.

## Modules

Conventions common to all. `pc` is the place in the function, `"idle"` (0 in
`SystemInfo`) while the caller runs and `"crashed"` after undefined behaviour
that kills the program. One action is one stretch of code between two points
where something outside can intervene or fail; its comment names the code. Live
heap blocks form a set `heap` of tuples that start with the number of the call;
`calloc` and `strdup` add, `free` removes, and freeing or writing what is not in
`heap` sets `fault`. Any allocation or open may fail, at most `MaxFailures`
times; the system changes at most `MaxChanges` times; there are at most
`MaxCalls` calls. Operators under a comment `Fault: ...` are wrong variants of
the definition that follows them. They are not part of the specification:
substituted for it, they show which property notices.

- **`GrowArray`**: the array, its capacity and its cursor, in `get_users` and
  `disk_partitions`. The cursor has its own block and index, because after a
  `realloc` that moves the array it still points into the old block.
- **`ScanQuery`**: the abstract promise of a listing. Each slot of a table is
  looked at once, at some moment between call and return; the answer is what was
  seen, in order, or a refusal. It lists all that was there throughout
  the call and nothing that never was.
- **`GetUsers`**: `get_users` over a utmp file (`utmp`, one record per line),
  whose position `filepos` belongs to the C library and is not reset by a
  failing call. `Overwrite` is another program logging someone in or out.
  `CopyFails(k)` is the failing `strdup` number k+1. `Scan == INSTANCE ScanQuery`
  is the refinement mapping. The OS X function makes the two callocs in the other
  order, which decides what a failure of the first leaves behind
  (`InfoAllocFails` has both).
- **`DiskPartitions`**: `disk_partitions` and `get_physical_devices` of Linux over
  `/proc/filesystems` (`filesystems`) and the mount table (`mounts`), with
  `Register`, `Unregister`, `Mount`, `Unmount` as the environment. A type is
  registered before it is mounted and while it is. The types are a copy of the
  list made at `fopen`, read a line at a time (`SkipType`, `StoreType`), so that
  each `strdup` can fail on its own; of the four of an entry any may fail, as one
  failure. Strings lost to an unchecked `strdup` are `NULL`, and `LookupCrash` is
  `lfind` reading through one. The argument is chosen in the initial state.
- **`IOCounters`**: the passes of `disk_io_counters` over `/proc/partitions` and
  `/proc/diskstats`, and that of `net_io_counters` over `/proc/net/dev`, on
  Linux. All three files show a list of the kernel's, which it resumes by index,
  so a removal makes a reader skip a device and a device that came back is seen
  twice. `Kept` cuts names to ten characters, as `strndup(tmp, 10)` does. `i` of
  `net_io_counters` counts header lines and fields.
- **`OsxListings`**: `disk_partitions`, `disk_io_counters` and `net_io_counters`
  of OS X over one kernel list each. `Size` and `FillMounts` or `FillInterfaces`
  are the two system calls, between which the list changes (`room` is what the
  first one found); `MatchServices` copies the list that IOKit iterates over
  (`snap`, `pos`), whose members may be gone when they are asked, or have no
  name (`NamelessDisk`); `snap` is also the buffer of `getfsstat`, which is
  copied an entry at a time. Kernel references are in `heap` as memory is.
- **`CpuSampling`**: count the CPUs, sample, sleep, ask for percentages, print:
  the session that `driver.c` and `tests/test_cpu.py` run. A percentage is a
  pair of numerator and denominator. `Tick` and `Hotplug` are the environment;
  line 0 of the kernel's table, `counters`, has the totals. Of the three fields,
  `idle` is itself, `guest` is guest and guest_nice, and `user` the other seven;
  the kernel counts a guest's tick in two of them, guest and user. `UnmapTooMuch`
  is the program that dies of a `vm_deallocate` of more than it was given.
  `cpu_count` may answer `Uncounted`, which is -1 as an unsigned number.
- **`PhysicalCpuCount`**: the loop over `/proc/cpuinfo`. The array `ids` of
  longs is kept as the ints that `lfind` compares, two to a long; the high word
  of a stored id is 0.
- **`GetProcess`**: the fields of `Process` in the order they are read. A field
  holds the *incarnation* (which process had the pid) it was read from, so that
  completeness and mixing can be told, or `Misread` where `grep_awk` counts a
  space in the name as a separator. Files opened under `/proc/<pid>` stay bound
  to their incarnation. `ReadLink` is one `readlink` of the doubling loop.
  `faults` and `failures` are those of the current call, so that what went wrong
  in an earlier one excuses nothing.
- **`SystemInfo`**: the five functions that answer with numbers. Each is a
  sequence of steps (`virtual_memory == <<"calloc", "sysinfo", ...>>`), and an
  action is one step wherever it occurs: `CheckFails` is the `check` of any of
  them. `MovePage` and `SetClock` come between steps; `errno` passes from call to
  call. `Word` is where unsigned differences wrap, `Ulp` the distance of floats.

`MCGetUsers`, `MCDiskPartitions`, `MCIOCounters` and `MCOsxListings` give the
sets for TLC. The other modules need only numbers, which their configurations
give.

## Runs

| run | question | bounds, and why they suffice |
|---|---|---|
| `GetUsers_memory` | Are the cursor, frees and leaks right on every path, and is the list a scan (`RefinesScan`) as long as nothing fails? | 4 lines, capacity 1: the array is doubled twice (1, 2, 4) and may move or stay each time; 2 changes anywhere; one failure at any point, then a second call; users are symmetric |
| `GetUsers_rescan` | *Violated:* does a call list everybody after an earlier one failed? | 2 lines, one failure |
| `DiskPartitions_memory` | Memory, stream and contents with a failure; is a listing, physical or not, a scan although the types are read earlier? | 2 slots, capacity 1, 4 types of which one is nodev, room for 3 types (so the limit is met), 2 mounts or unmounts, one failure, of any of the strings of an entry, types registered and unregistered without bound, 2 calls |
| `IOCounters_devices` | Completeness, overrun of the tables, streams, leaks, in either function | 4 devices of which two have the same first ten characters, 5 changes (plug, read, unplug, plug again, and one more), 2 calls, tables of 2 names and 3 interfaces |
| `OsxListings_devices` | Completeness, crashes, memory and references of the three listings | 5 members: three alike, one without a name, one not wanted; table of 2, no slack, 5 changes: two to fill the list, three to change it within two calls |
| `CpuSampling_sessions` | What is a percentage worth; which faults and leaks are possible? | 3 CPUs and a table of 2 (so it can overflow), 2 ticks (one of a guest and one not), 3 hotplug events (a CPU goes and another comes, so that indices shift, and one in the other session), 2 sessions, one failure |
| `CpuSampling_hotplug` | *Violated:* is a CPU compared with itself? | 3 CPUs, of which the second goes offline and the third moves to its index |
| `PhysicalCpuCount_orders` | When is the count right, and how can it be wrong? | every sequence of up to 6 lines over ids 0 to 3; `s` is 4 as only the first two ints ever change |
| `PhysicalCpuCount_alternating` | *Violated:* is no package counted twice? | 3 packages, up to 5 lines, of which three suffice: 1, 2, 1 |
| `GetProcess_fields` | What kills a call, which processes is a structure of, what is it complete in; files closed, leaks, links, and does the call end? | two calls (so that the first may go wrong), two incarnations (enough for one reuse of the pid), 3 kinds of process, links of length 0 to 3 against a buffer of 2 that doubles once, one failure in each call |
| `GetProcess_structure` | *Violated:* does a call on Linux survive a process that exits? | one process, no failure |
| `SystemInfo_calls` | Percentages, boot times, `errno` from call to call, what is released | memory of 2 pages, floats 4 apart against a clock up to 3 (so that rounding goes both ways), 3 calls (one may set `errno`, one may reset it, one meets it), 3 changes, one failure |

What the passing runs show, in words:

- `get_users`: the cursor is ready whenever a record is read; nothing is freed
  twice; a successful list releases exactly; a failed call loses at most the
  strings of the entry in progress; and until a call fails every list is a scan.
- `disk_partitions`: on Linux the same memory safety with partly filled entries;
  the mount table is always closed; what leaks comes from
  `get_physical_devices`; a physical listing never has a nodev type even if types
  could not be read; a crash takes a structure that was not allocated, as many
  types as there is room for, or, in a physical listing, a type lost to a failed
  `strdup`: the strings that an entry lost never kill it. On OS X it lists what
  stayed mounted, leaks nothing, and dies only if memory for the structure is
  missing.
- `disk_io_counters` and `net_io_counters`: complete if nothing is removed; a
  table is overrun only if a device is met twice or, for interfaces and on OS X,
  if there are more than it has entries. On OS X a crash takes a failure, a list
  that changed during the call, a disk without a name, or too many members.
- CPU percentages: those of the totals, and of every CPU that both samples have
  at its index, are shares of the ticks between the samples, and 0 / 0 if there
  was none, whatever else came or went. `sum_cpu_time` adds the ticks of guests
  to those of user, which have them already (`pslib_linux.c:53`): with one tick of
  a guest and one idle a CPU is shown 2/3 busy. So while guests run it is shown
  too busy, never too idle, and each field too small. A fault needs a CPU that
  came or went, a failure, or more CPUs than the table; on OS X also the pages
  unmapped by mistake.
- Packages: exact if ids ascend; never too few but for a package 0 that comes
  late; never too many unless two packages other than 0 were met.
- `get_process`: for a process that stays what it is, running, zombie, kernel
  thread, another user's or absent, complete, and without a crash; on Linux the
  name and the time of creation only if there is no space in the name. If
  processes come and go, the fields are of them in their order, what lies between
  two fields of one process is of it too, and the call dies only if the process
  goes after its uids were read or while its stat file is open. All of this
  whatever failed in earlier calls.
- the functions that answer with numbers: a percentage is at most 100, but for
  memory on Linux, which exceeds it only by wrapping, and only if pages moved
  between its two snapshots; boot times are those of the time of the call, to
  half the distance of two floats on OS X; all is released but a port on OS X.

Four runs are expected to be violated; each states what the README, a comment
or the driver says of the program:

1. `GetUsers_rescan`: an error skips `endutent`, and the next call starts in the
   middle of utmp (`pslib_linux.c:769`).
2. `CpuSampling_hotplug`: entries are matched by index, not by CPU
   (`pslib_linux.c:1002`). CPU 2 of three goes offline between the samples, and
   what is printed as the second CPU is the time of CPU 3 less that of CPU 2.
3. `PhysicalCpuCount_alternating`: `id++` should advance `cid`
   (`pslib_linux.c:129`), so only the last package is remembered: the lines 1, 2, 1
   are counted as three packages.
4. `GetProcess_structure`: the process is reaped after `get_create_time` has
   opened its stat file, and `atof(NULL)` follows (`pslib_linux.c:313`), where the
   comment (`:1043`) has a pid without a process end in "some structure". The
   same happens behind `if (uids)` for `gids[0]` (`:1067`), on both platforms.

The models also show, without a run of their own, on Linux:

- 100 physical types are already refused, and the caller then searches a null
  array (`TooManyTypes`, `LookupCrash`); the types' array is lost when
  `/proc/filesystems` cannot be opened, and the listing is empty
  (`TypesUnavailable`);
- `cpu_util_percent` does not free its array at error (`Refuse`);
- `/proc/diskstats` failing to open loses the counters (`OpenDiskstatsFails`);
  whole disks such as `nvme0n1` count as partitions; names of more than ten
  characters are never found (`Kept`);
- that `net_io_counters` counts fields with the counter of header lines does no
  harm, because it ends above 2 (`SkipFields`);
- an empty command line makes `clean_cmdline` write one byte before its buffer;
- `used` of `virtual_memory` wraps if free and cached memory, read one after the
  other, exceed the total (`PercentUsed`);
- `get_boot_time` looks at an `errno` that it did not reset, and its error path
  then frees `tmp`, which points into `line` (`BtimeRejected`);

and on OS X:

- `net_io_counters` frees its table twice at any error, among them that an
  interface came between its two sysctls (`InterfacesFail`);
- `per_cpu_times` unmaps a page for each word of the kernel's array
  (`UnmapTooMuch`);
- `disk_io_counters` calls `CFRelease(NULL)` if a disk has gone
  (`ParentFails`), asks for the characters of a name that is NULL if it has none
  (`NamelessDisk`), and releases neither the iterator at error nor the disks of
  another class (`DiskFails`, `SkipDisk`);
- the ids of a process that has gone, the command line of one without strings,
  and the host port of a failing `host_statistics` are lost; the path of a
  terminal is one byte longer than its buffer; `get_cmdline` writes in front of
  its buffer or reads past it;
- `get_boot_time` casts to float, whose distance at today's times is 128
  seconds (`AsFloat`); a failed `sysctl` leaves an uninitialized total in use
  (`Memsize`, `Swapusage`).

## Fairness

Only `GetProcess_fields` has liveness, `Terminates` under
`WF_vars(get_process)`: the calling thread keeps running, which is what an
operating system's scheduler provides; nothing is assumed of the system, whose
links may change between any two reads. The loop ends because every retry
doubles the buffer and a link is at most `PathMax` long. The other functions
loop over finite tables, one pass each.

## Proofs

All proofs are checked by TLAPS to the last leaf, for every value of the
constants that satisfies the named assumptions: sizes are natural numbers, the
sentinels `NULL`, `Nobody`, `Unmounted` are no lists or names, a table that is
allocated has at least one entry. None bounds a table, a list or a number of
calls. The bounds on calls, changes and failures occur only in guards, and no
proof uses them. TLC checked each inductive invariant on the module's run before
it was proved.

Few of the properties are inductive. Each proof module begins with what has to
be added, and has one step per action under the step that shows it is kept.

**`GetUsersProofs`**. `NoMemoryError`, `CursorSafe` and
`FailureKeepsOnlyPartialEntry` depend on what is live and on where the cursor was
left. `HeapInv` adds that, from the callocs until the answer is released, the
heap is exactly `before \cup Owned` (what the call began with and what
`free_users_info` would free), that older blocks carry smaller call numbers, and
that just before a `realloc` the array is exactly full. From it follow
`MemorySafety`, `CursorNeverStray`, `FailureLeakBound` and the action property
`ReleaseIsExact`; `LinesInOrder` follows from `LinesInv`. The refinement
`ImplementsScan` needs `ScanInv`: what has been stored was seen, and a line that
was passed over held nobody at some time. At the end of the file the proof gives
`ScanQuery` its witness, the function from lines to what the call took them to
hold. `NobodyMissed` is what the caller has of it: the property that
`GetUsers_rescan` refutes holds until the first failure.

**`DiskPartitionsProofs`**. `Room` says where the type list has space. `TypesInv`
has the two ways in which it can be missing or have holes; `HeapInv` says which
blocks belong to the call and which are those of `get_physical_devices`, for
`MemorySafety`. The two are lemmas of their own (`TypesRead`, `HeapKept`), because
`CrashesExplained` needs both: the list that `lfind` reads, and that the entry in
progress is written only where memory is live. `PhysicalListing` rests on
`PhysicalTypes`, that no nodev type is ever in the list. `ImplementsScan` and
`NoMountMissed` need the order of the two tables: what is mounted is registered
(`RegisteredInv`), so a slot with a type that the call does not know was empty
when the call began (`ScanInv`).

**`IOCountersProofs`**. `Streams` says which file is open where, `HeapInv` who
frees each block. Completeness is shown pass by pass: `PartsInv` for the names
wanted, `StatsInv` for the lines of `/proc/diskstats` and `NetInv` for
`/proc/net/dev`, each under the condition that nothing was removed, when a line
stays where it was. `OverrunsExplained` compares the number of distinct entries
with the size of the table that was counted from the names.

**`OsxListingsProofs`**. `ListInv` bounds the kernel's list by what stayed and
what was seen, `CopyInv` follows the copy and the entries made from it, for
`AnswersComplete`. `CauseInv` gives `FaultsExplained`, `HeapInv` and `Lost`, which
say who frees a block or why nobody does, `LeaksExplained`.

**`CpuSamplingProofs`**. `Shape` says which arrays exist and that the two samples
of a call have the same length although `cpu_times` counts CPUs anew. `CountInv`
relates the three counts of CPUs as long as none came or went, for
`FaultsExplained`. `HeapInv` pays each lost block with a failure of its own
session (`Failed`), for `LeaksCounted`. `PercentagesRight` needs `SampleInv`: between the
sample and the call the line of each CPU, online or not, has grown by the ticks since the
sample, and `pairs` has the lines that the two samples copied. That the i-th CPU of a set is one of them (`NthIn`) is an induction on the set; it is proved
by a least counterexample, with the theorem that `<` is well-founded.

**`GetProcessProofs`**. `Place` is the order in which fields are read. `Streams`
has the one open file and the fields not yet read, `HeapInv` that whatever is
allocated is `Owned` by the structure, is the buffer that is growing, or is one of the
blocks in `Left`, for `NothingKept`. `SteadyInv` says that, in a call on a process
that stays what it is, every field read so far is complete; `SteadyCalls` follows.
`FieldOrder` (the fields read so far are of processes in their order) and `Together`
(if nothing failed, all that was read after a field of a process is of it too, as
long as this process is there) are proved together, for `InOrder`. `RacesKill` follows a crash back
to the one process whose uids were read, or whose file was open, when it went.
The hypothesis of each, where there is one, is of the call: that nothing fails in it, or that
its process stays. Calls that went before do not matter.

**`PhysicalCpuCountProofs`**. The facts about the count, `AscendingExact` and the
two parts of `CountBounds`, are proved together: `CountInv` adds `IdsInv`, what `ids` says of the packages seen (it holds
one of them, the last one if they ascend, the only one but 0 if there is just
one). Cardinality lemmas for one more line (`SeenGrows`, `AtMostOne`) come from
the library's theorems on finite sets.

**`SystemInfoProofs`**, from `MemoryAssumption` (memory is less than half of what
an unsigned number counts), `UlpAssumption` and `ClockAssumption`. `Where` says in
which function and at which place an action is enabled; everything rests on it.
`SafeInv` is `TypeOK` and `HeapInv`, and gives `TypeCorrect` and `NothingKept`.
`PercentagesSane` needs `LocalInv`: the copy of the free memory and the cached
memory exceed the total by no more than the pages that moved since the copy was
taken. `BootInv` relates `seen`, `errno` and `refused`, for `BootTimesRight` and
`BadFreesExplained`.

Only model-checked: `Terminates`, because liveness under fairness is beyond the
prover's backends; and the four properties that the code violates, whose
counterexamples are TLC's. The library's induction theorems take an operator as a
parameter, which no installed backend can instantiate; where an induction was
needed it is the inductive invariant of the loop or a least counterexample. What
a theorem says of a conversion (`Kept`, `Misread`, `AsFloat`) is as good as the
definition in the model.

## Abstractions and what is not modelled

- Contents of strings, counter values and formatting. `squeeze` and `str_comp`
  work on characters and change no state; what they do to a name is part of
  `SkipType` and `StoreType`. Lines longer than the `fgets` buffers, which the code reads in
  pieces, are not modelled.
- Amounts that no control depends on: active and inactive memory, the fields of
  `/proc/vmstat`, `f_bavail`. The amounts of swap are not multiplied by
  `mem_unit` (`pslib_linux.c:882`); their quotient, which is modelled, is the same.
- A null pointer dereference, a wild read or write ends the program. Real runs
  may go on; the properties are about what leads there.
- `check_mem(ret)` failing in `get_users` and `disk_partitions` always crashes
  (`free_*_info(NULL)`); this is an action (`InfoAllocFails`), not a property.
  So are more than 30 partitions (`KeepName`) and a NULL from `net_io_counters`
  in `driver.c` (`Release`).
- `IOCounters` reads one line at a time from the kernel's list; stdio reads a
  buffer at a time, which is the special case of no change in between.
- `getpwuid` is a lookup that finds the user.
- Percentages are exact fractions; rounding of doubles is left out.
- A btime that `strtoul` cannot represent.
- What `driver.c` prints and the order of its tests, which share nothing but
  `errno`. It does not look at the result of `disk_usage`
  (`driver.c:15`).
- The Python bindings declare the header and load the library; `gcov_flush`
  calls the coverage runtime; neither keeps state.
