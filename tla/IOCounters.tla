----------------------------- MODULE IOCounters -----------------------------
(***************************************************************************)
(* disk_io_counters and net_io_counters of pslib_linux.c, with the free_*  *)
(* functions, called as driver.c does.                                     *)
(*                                                                         *)
(* disk_io_counters reads two lists of the block devices: /proc/partitions *)
(* for the names it wants, and /proc/diskstats for their counters;         *)
(* net_io_counters reads the interfaces in /proc/net/dev, after two lines  *)
(* of header.  A file shows the kernel's list of devices; the kernel finds *)
(* the place to go on from by its index, so that a reader skips a device   *)
(* when an earlier one goes away, and sees one again that went and came    *)
(* back, at the end.                                                       *)
(*                                                                         *)
(* Heap blocks are triples <<call, kind, n>>: "part" is the n-th string in *)
(* the array "partitions", "name" that of the n-th entry in "counters".    *)
(***************************************************************************)
EXTENDS Naturals, Sequences, SequencesExt, FiniteSets

CONSTANTS
  Device,          \* names of block devices, or of interfaces
  EndsInDigit,     \* the names whose last character is a digit
  Kept,            \* Kept[d]: the first 10 characters of d
  NULL,
  MaxPartitions,   \* entries of the array partitions: 30
  MaxInterfaces,   \* entries of counters in net_io_counters: 15
  MaxCalls, MaxChanges, MaxFailures

ASSUME NamesAssumption == EndsInDigit \subseteq Device
ASSUME KeptAssumption == Kept \in [Device -> Device \cup {"?"}]
ASSUME SizeAssumption == {MaxPartitions, MaxInterfaces} \subseteq Nat
ASSUME SentinelAssumption ==
  /\ NULL \notin Device \cup {"partitions", "diskstats", "netdev"}
  /\ NULL \notin Seq(Device \cup {NULL})

VARIABLES
  disks,     \* the kernel's list
  pc, fn,
  i,         \* of net_io_counters: a count of lines, and of fields
  pos,       \* lines of the open file already read
  files,     \* open streams
  fp,        \* the stream that fp points at, or NULL
  parts,     \* the names in partitions, "?" for no device's
  entries,   \* the names in the counters filled so far
  answer,
  heap, fault,
  calls, changes, failures,
  present,   \* history: the list when the call began
  removed    \* history: a device went away during the call

vars == <<disks, pc, fn, i, pos, files, fp, parts, entries, answer, heap, fault,
          calls, changes, failures, present, removed>>

Elements(q) == {q[j] : j \in 1 .. Len(q)}
Block(kind, n) == <<calls, kind, n>>
PartStrings == {Block("part", j) : j \in 1 .. Len(parts)}

\* Fault: the name of the last entry is not freed
NamesButLast(n) == {Block("name", j) : j \in 1 .. n - 1}

Names(n) == {Block("name", j) : j \in 1 .. n}
Goto(from, to) == pc = from /\ pc' = to
Fail == failures < MaxFailures /\ failures' = failures + 1

Init ==
  /\ disks = <<>>
  /\ pc = "idle" /\ fn = "disk"
  /\ i = 0 /\ pos = 0 /\ files = {} /\ fp = NULL
  /\ parts = <<>> /\ entries = <<>>
  /\ answer = NULL
  /\ heap = {} /\ fault = "none"
  /\ calls = 0 /\ changes = 0 /\ failures = 0
  /\ present = <<>> /\ removed = FALSE

Plug(d) ==
  /\ pc # "crashed"
  /\ changes < MaxChanges
  /\ changes' = changes + 1
  /\ d \notin Elements(disks)
  /\ disks' = Append(disks, d)
  /\ UNCHANGED <<pc, fn, i, pos, files, fp, parts, entries, answer, heap, fault,
                 calls, failures, present, removed>>

Unplug(d) ==
  /\ pc # "crashed"
  /\ changes < MaxChanges
  /\ changes' = changes + 1
  /\ \E j \in 1 .. Len(disks) : disks[j] = d /\ disks' = RemoveAt(disks, j)
  /\ removed' = TRUE
  /\ UNCHANGED <<pc, fn, i, pos, files, fp, parts, entries, answer, heap, fault,
                 calls, failures, present>>
-----------------------------------------------------------------------------
Call(f) ==
  /\ Goto("idle", "open")
  /\ calls < MaxCalls
  /\ calls' = calls + 1
  /\ fn' = f
  /\ i' = 0
  /\ fp' = NULL
  /\ parts' = <<>> /\ entries' = <<>>
  /\ present' = disks
  /\ removed' = FALSE
  /\ UNCHANGED <<disks, pos, files, answer, heap, fault, changes, failures>>

\* The three callocs, then fopen("/proc/partitions")
OpenPartitions ==
  /\ Goto("open", "partitions")
  /\ fn = "disk"
  /\ heap' = heap \cup {Block(k, 0) : k \in {"line", "partitions", "info"}}
  /\ files' = files \cup {"partitions"}
  /\ fp' = "partitions"
  /\ pos' = 0
  /\ UNCHANGED <<fn, i, disks, parts, entries, answer, fault, calls, changes,
                 failures, present, removed>>

\* In either function, one of the callocs or the fopen fails: error frees what
\* there is
OpenFails ==
  /\ Goto("open", "done")
  /\ Fail
  /\ UNCHANGED <<fn, i, disks, pos, files, fp, parts, entries, answer, heap, fault,
                 calls, changes, present, removed>>

\* What error does: close fp if it is not NULL, free line, the strings and
\* the array of names, and ret with the counters that it points at
Error(owned, h) ==
  /\ pc' = "done"
  /\ Fail
  /\ files' = files \ {fp}
  /\ fault' = IF fp # NULL /\ fp \notin files THEN "double_close" ELSE fault
  /\ heap' = h \ ({Block(k, 0) : k \in {"line", "partitions", "info"}}
                    \cup PartStrings \cup owned)
  /\ UNCHANGED <<fn, i, disks, pos, fp, parts, entries, answer, calls, changes,
                 present, removed>>

\* isdigit on the last character
Wanted(d) == d \in EndsInDigit

SkipDevice ==
  /\ pc = "partitions"
  /\ pos < Len(disks)
  /\ ~Wanted(disks[pos + 1])
  /\ pos' = pos + 1
  /\ UNCHANGED <<fn, i, disks, pc, files, fp, parts, entries, answer, heap, fault,
                 calls, changes, failures, present, removed>>

\* strndup(tmp, 10), stored without regard to the size of partitions
KeepName ==
  /\ pc = "partitions"
  /\ pos < Len(disks)
  /\ Wanted(disks[pos + 1])
  /\ pos' = pos + 1
  /\ IF Len(parts) < MaxPartitions
       THEN /\ parts' = Append(parts, Kept[disks[pos + 1]])
            /\ heap' = heap \cup {Block("part", Len(parts) + 1)}
            /\ UNCHANGED <<pc, fault>>
       ELSE /\ pc' = "crashed"
            /\ fault' = "wild_write"
            /\ UNCHANGED <<parts, heap>>
  /\ UNCHANGED <<fn, i, disks, files, fp, entries, answer, calls, changes, failures,
                 present, removed>>

KeepNameFails ==
  /\ pc = "partitions"
  /\ pos < Len(disks)
  /\ Wanted(disks[pos + 1])
  /\ Len(parts) < MaxPartitions
  /\ Error({}, heap)

ClosePartitions ==
  /\ pc = "partitions"
  /\ pos >= Len(disks)
  /\ pc' = "counters"
  /\ files' = files \ {fp}
  /\ fp' = NULL
  /\ UNCHANGED <<fn, i, disks, pos, parts, entries, answer, heap, fault, calls,
                 changes, failures, present, removed>>

\* calloc of as many counters as there are names, fopen("/proc/diskstats")
OpenDiskstats ==
  /\ Goto("counters", "diskstats")
  /\ heap' = heap \cup {Block("counters", 0)}
  /\ files' = files \cup {"diskstats"}
  /\ fp' = "diskstats"
  /\ pos' = 0
  /\ UNCHANGED <<fn, i, disks, parts, entries, answer, fault, calls, changes,
                 failures, present, removed>>

\* The calloc fails, or the fopen: ret->iocounters is still NULL then
OpenDiskstatsFails ==
  /\ pc = "counters"
  /\ \E h \in {heap, heap \cup {Block("counters", 0)}} : Error({}, h)

SkipStats ==
  /\ pc = "diskstats"
  /\ pos < Len(disks)
  /\ disks[pos + 1] \notin Elements(parts)
  /\ pos' = pos + 1
  /\ UNCHANGED <<fn, i, disks, pc, files, fp, parts, entries, answer, heap, fault,
                 calls, changes, failures, present, removed>>

\* Fault: nmemb is one short of the names
RoomOneShort(n) == n + 1 < Len(parts)

\* Fault: off by one the other way
RoomOneMore(n) == n <= Len(parts)

\* ci is within counters
HasRoom(n) == n < Len(parts)

CopyStats ==
  /\ pc = "diskstats"
  /\ pos < Len(disks)
  /\ disks[pos + 1] \in Elements(parts)
  /\ pos' = pos + 1
  /\ IF HasRoom(Len(entries))
       THEN /\ entries' = Append(entries, disks[pos + 1])
            /\ heap' = heap \cup {Block("name", Len(entries) + 1)}
            /\ UNCHANGED <<pc, fault>>
       ELSE /\ pc' = "crashed"
            /\ fault' = "wild_write"
            /\ UNCHANGED <<entries, heap>>
  /\ UNCHANGED <<fn, i, disks, files, fp, parts, answer, calls, changes, failures,
                 present, removed>>

\* strdup(tmp) fails: free_disk_iocounter_info frees the counted entries
CopyStatsFails ==
  /\ pc = "diskstats"
  /\ pos < Len(disks)
  /\ disks[pos + 1] \in Elements(parts)
  /\ HasRoom(Len(entries))
  /\ Error({Block("counters", 0)} \cup Names(Len(entries)), heap)

EndOfDiskstats ==
  /\ Goto("diskstats", "done")
  /\ pos >= Len(disks)
  /\ heap' = heap \ ({Block("line", 0), Block("partitions", 0)} \cup PartStrings)
  /\ files' = files \ {fp}
  /\ answer' = entries
  /\ UNCHANGED <<fn, i, disks, pos, fp, parts, entries, fault, calls, changes,
                 failures, present, removed>>
-----------------------------------------------------------------------------
(* net_io_counters.                                                        *)
OpenNetDev ==
  /\ Goto("open", "netdev")
  /\ fn = "net"
  /\ heap' = heap \cup {Block(k, 0) : k \in {"info", "counters", "line"}}
  /\ files' = files \cup {"netdev"}
  /\ fp' = "netdev"
  /\ pos' = 0
  /\ UNCHANGED <<fn, i, disks, parts, entries, answer, fault, calls, changes,
                 failures, present, removed>>

SkipHeader ==
  /\ pc = "netdev" /\ pos < 2 + Len(disks)
  /\ i < 2
  /\ i' = i + 1
  /\ pos' = pos + 1
  /\ UNCHANGED <<fn, disks, pc, files, fp, parts, entries, answer, heap, fault,
                 calls, changes, failures, present, removed>>

\* Fault: the fields are counted down, and the next lines taken for headers
FieldsCountedDown == i' = 0

\* The fields between the bytes received and sent are counted with i as well
SkipFields == i' = 4

\* The name is not checked, nor is the size of counters
CopyInterface ==
  /\ pc = "netdev" /\ pos < 2 + Len(disks)
  /\ i >= 2
  /\ SkipFields
  /\ pos' = pos + 1
  /\ IF Len(entries) >= MaxInterfaces
       THEN /\ pc' = "crashed" /\ fault' = "wild_write"
            /\ UNCHANGED <<entries, heap, failures>>
       ELSE /\ \/ /\ entries' = Append(entries, disks[pos - 1])
                  /\ heap' = heap \cup {Block("name", Len(entries) + 1)}
                  /\ UNCHANGED failures
               \/ entries' = Append(entries, NULL) /\ Fail /\ UNCHANGED heap
            /\ UNCHANGED <<pc, fault>>
  /\ UNCHANGED <<fn, disks, files, fp, parts, answer, calls, changes, present,
                 removed>>

EndOfNetDev ==
  /\ Goto("netdev", "done")
  /\ pos >= 2 + Len(disks)
  /\ heap' = heap \ {Block("line", 0)}
  /\ files' = files \ {fp}
  /\ answer' = entries
  /\ UNCHANGED <<fn, i, disks, pos, fp, parts, entries, fault, calls, changes,
                 failures, present, removed>>
-----------------------------------------------------------------------------
\* The caller, who does not expect net_io_counters to return NULL; the free_*
\* functions free each name, the counters and the structure
Release ==
  /\ pc = "done"
  /\ IF answer = NULL /\ fn = "net"
       THEN pc' = "crashed" /\ fault' = "null_deref"
       ELSE pc' = "idle" /\ UNCHANGED fault
  /\ heap' = IF answer = NULL
               THEN heap
               ELSE heap \ ({Block("info", 0), Block("counters", 0)}
                              \cup Names(Len(answer)))
  /\ answer' = NULL
  /\ UNCHANGED <<fn, i, disks, pos, files, fp, parts, entries, calls, changes,
                 failures, present, removed>>

library ==
  \/ \E f \in {"disk", "net"} : Call(f)
  \/ OpenFails
  \/ OpenPartitions \/ SkipDevice \/ KeepName \/ KeepNameFails \/ ClosePartitions
  \/ OpenDiskstats \/ OpenDiskstatsFails
  \/ SkipStats \/ CopyStats \/ CopyStatsFails \/ EndOfDiskstats
  \/ OpenNetDev \/ SkipHeader \/ CopyInterface \/ EndOfNetDev
  \/ Release

Next == library \/ \E d \in Device : Plug(d) \/ Unplug(d)

Spec == Init /\ [][Next]_vars
-----------------------------------------------------------------------------
\* Every variable stays in its range: none of the tables holds more entries
\* than were allocated for it.
TypeOK ==
  /\ disks \in Seq(Device) /\ present \in Seq(Device)
  /\ pc \in {"idle", "open", "partitions", "counters", "diskstats", "netdev",
             "done", "crashed"}
  /\ fn \in {"disk", "net"}
  /\ i \in 0 .. 4 /\ pos \in Nat
  /\ files \subseteq {"partitions", "diskstats", "netdev"}
  /\ fp \in {"partitions", "diskstats", "netdev", NULL}
  /\ parts \in Seq(Device \cup {"?"})
  /\ entries \in Seq(Device \cup {NULL})
  /\ Len(parts) <= MaxPartitions
  /\ Len(entries) <= IF fn = "disk" THEN Len(parts) ELSE MaxInterfaces
  /\ answer \in Seq(Device \cup {NULL}) \cup {NULL}
  /\ heap \subseteq
       Nat \X {"line", "partitions", "info", "part", "counters", "name"} \X Nat
  /\ fault \in {"none", "wild_write", "double_close", "null_deref"}
  /\ calls \in Nat /\ changes \in Nat /\ failures \in Nat
  /\ removed \in BOOLEAN

\* The kernel lists d before e
Before(d, e) ==
  \E m, n \in 1 .. Len(disks) : m < n /\ disks[m] = d /\ disks[n] = e

\* If no device goes away during the call, the list has each that was there
\* when the call began, in the kernel's order and without repetition.  Of the
\* block devices it has those with a digit at the end and a name that was not
\* cut, and one that came later only if /proc/partitions had its name; of the
\* interfaces it has all, unless memory for a name was missing.
CompleteWithoutRemoval ==
  pc = "done" /\ answer # NULL /\ ~removed /\ NULL \notin Elements(answer) =>
    LET wanted(d) == fn = "net" \/ d \in EndsInDigit
        listed == Elements(answer)
    IN  /\ listed \subseteq Elements(disks)
        /\ \A j, k \in 1 .. Len(answer) : j < k => Before(answer[j], answer[k])
        /\ {d \in Elements(present) : wanted(d) /\ (fn = "disk" => Kept[d] = d)}
             \subseteq listed
        /\ listed \subseteq
             {IF fn = "net" THEN d ELSE Kept[d] : d \in {x \in Elements(disks) : wanted(x)}}

\* The counters of disk_io_counters are as many as the names, and yet they are
\* overrun if a device is seen twice; those of net_io_counters also if there
\* are too many interfaces.  A device is seen twice only if it came back.
OverrunNeedsCause ==
  fault = "wild_write" /\ fp # "partitions" =>
    LET met == Append(entries, disks[IF fn = "net" THEN pos - 2 ELSE pos])
        again == \E j, k \in 1 .. Len(met) : j < k /\ met[j] = met[k] /\ met[j] # NULL
    IN  /\ again => removed
        /\ ~again => /\ fn = "net"
                     /\ failures = 0 => Cardinality(Elements(met)) > MaxInterfaces

\* A stream is closed once, on every path, and none is left open; all memory
\* is freed in the end, but for the counters of a call that could not open
\* /proc/diskstats.
AllReleased ==
  /\ fault # "double_close"
  /\ pc \in {"idle", "counters", "done"} => files = {}
  /\ pc = "idle" => /\ \A b \in heap : b[2] = "counters"
                    /\ failures = 0 => heap = {}
=============================================================================
