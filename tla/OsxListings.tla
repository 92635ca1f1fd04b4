---------------------------- MODULE OsxListings ----------------------------
(***************************************************************************)
(* disk_partitions, disk_io_counters and net_io_counters of pslib_osx.c,   *)
(* called and released as driver.c does.                                   *)
(*                                                                         *)
(* Each answers with a copy of a list that the kernel keeps: mounts, disks *)
(* or interfaces.  What joins the list does so at its end.  The list is    *)
(* asked for its size first and read later (getfsstat, sysctl), or copied  *)
(* at once and its members, which may have left meanwhile, are asked for   *)
(* their properties one by one (IOKit).                                    *)
(*                                                                         *)
(* heap holds memory and kernel references alike, as <<call, kind, n>>:    *)
(* "strings" and the four kinds of reference are those of the n-th entry.  *)
(***************************************************************************)
EXTENDS Naturals, Sequences, SequencesExt, FiniteSets

CONSTANTS
  Object,           \* what may be on the list
  Wanted,           \* physical mounts; disks on a block storage driver
  Nameless,         \* disks without a BSD name
  NULL,
  TableSize,        \* entries of counters: 15 interfaces, 30 disks
  Slack,            \* entries sysctl allows for beyond those there are
  MaxCalls, MaxChanges, MaxFailures

ASSUME WantedAssumption == Wanted \subseteq Object /\ Nameless \subseteq Object
ASSUME SizeAssumption == {TableSize, Slack} \subseteq Nat
ASSUME SentinelAssumption == NULL \notin Seq(Object)

VARIABLES
  list,            \* the kernel's list
  pc, fn,          \* "mounts" and "physical" are disk_partitions' two modes
  room,            \* entries the buffer has been sized for
  snap, pos,       \* the copy that is gone through, and how far
  entries, answer,
  heap, fault,
  calls, changes, failures,
  stayed, seen     \* history: on the list all through the call, or at some time

vars == <<list, pc, fn, room, snap, pos, entries, answer, heap, fault, calls,
          changes, failures, stayed, seen>>
system == <<list, changes, stayed, seen>>
iterator == <<snap, pos>>

Elements(s) == {s[j] : j \in 1 .. Len(s)}
Ref == {"disk", "parent", "parent_dict", "props_dict"}
Kind == {"info", "table", "buffer", "strings", "disk_list"} \cup Ref
Blocks(kinds) == {<<calls, k, 0>> : k \in kinds}
Refs(kinds, n) == {<<calls, k, n>> : k \in kinds}

Strings(n) == {<<calls, "strings", j>> : j \in 1 .. n}

\* Fault: the table itself is not freed
OwnedWithoutTable(n) == Blocks({"info"}) \cup Strings(n)

\* What the free_* functions release of an answer with n entries
Owned(n) == Blocks({"info", "table"}) \cup Strings(n)

Goto(from, to) == pc = from /\ pc' = to
Fail == failures < MaxFailures /\ failures' = failures + 1

Crash(f) == pc' = "crashed" /\ fault' = f

Init ==
  /\ list = <<>>
  /\ pc = "idle" /\ fn = "net"
  /\ room = 0 /\ snap = <<>> /\ pos = 0
  /\ entries = <<>> /\ answer = NULL
  /\ heap = {} /\ fault = "none"
  /\ calls = 0 /\ changes = 0 /\ failures = 0
  /\ stayed = {} /\ seen = {}

Join(o) ==
  /\ pc # "crashed" /\ changes < MaxChanges
  /\ o \notin Elements(list)
  /\ list' = Append(list, o)
  /\ changes' = changes + 1
  /\ seen' = seen \cup {o}
  /\ UNCHANGED <<pc, fn, room, iterator, entries, answer, heap, fault, calls,
                 failures, stayed>>

Leave(o) ==
  /\ pc # "crashed" /\ changes < MaxChanges
  /\ \E j \in 1 .. Len(list) : list[j] = o /\ list' = RemoveAt(list, j)
  /\ changes' = changes + 1
  /\ stayed' = stayed \ {o}
  /\ UNCHANGED <<pc, fn, room, iterator, entries, answer, heap, fault, calls,
                 failures, seen>>
-----------------------------------------------------------------------------
Call(f) ==
  /\ Goto("idle", "alloc")
  /\ calls < MaxCalls
  /\ calls' = calls + 1
  /\ fn' = f
  /\ entries' = <<>>
  /\ stayed' = Elements(list) /\ seen' = Elements(list)
  /\ UNCHANGED <<list, room, iterator, answer, heap, fault, changes, failures>>

\* ret and, except in disk_io_counters, the table
Allocate ==
  /\ Goto("alloc", "size")
  /\ heap' = heap \cup Blocks(IF fn = "disks" THEN {"info"} ELSE {"info", "table"})
  /\ UNCHANGED <<system, fn, room, iterator, entries, answer, fault, calls,
                 failures>>

\* check_mem(ret) fails: net_io_counters frees the table, the two others call
\* their free function on NULL
InfoAllocFails ==
  /\ pc = "alloc"
  /\ Fail
  /\ IF fn = "net" THEN pc' = "done" /\ UNCHANGED fault ELSE Crash("null_deref")
  /\ heap' = heap \cup (IF fn \in {"mounts", "physical"} THEN Blocks({"table"}) ELSE {})
  /\ UNCHANGED <<system, fn, room, iterator, entries, answer, calls>>

\* The table's calloc fails: net_io_counters does not free ret
TableAllocFails ==
  /\ Goto("alloc", "done")
  /\ fn # "disks"
  /\ Fail
  /\ heap' = IF fn = "net" THEN heap \cup Blocks({"info"}) ELSE heap
  /\ UNCHANGED <<system, fn, room, iterator, entries, answer, fault, calls>>

\* The call returns s, and has allocated other for it; the buffer is freed
Answer(s, other) ==
  /\ pc' = "done"
  /\ entries' = s /\ answer' = s
  /\ heap' = (heap \ Blocks({"buffer", "disk_list"})) \cup other
  /\ UNCHANGED <<system, fn, room, iterator, fault, calls, failures>>

Member == snap[pos + 1]
At(loop) == pc = loop /\ pos < Len(snap)
-----------------------------------------------------------------------------
(* disk_partitions and net_io_counters: size, buffer, contents.            *)

\* What there is room for: sysctl allows for a few interfaces more
SizeNow == IF fn = "net" THEN Len(list) + Slack ELSE Len(list)

\* Fault: one entry too few
SizeShort ==
  /\ Goto("size", "fill")
  /\ fn # "disks"
  /\ room' = IF SizeNow = 0 THEN 0 ELSE SizeNow - 1
  /\ heap' = heap \cup Blocks({"buffer"})
  /\ UNCHANGED <<system, fn, iterator, entries, answer, fault, calls, failures>>

\* getfsstat without a buffer, or sysctl without one, and calloc
Size ==
  /\ Goto("size", "fill")
  /\ fn # "disks"
  /\ room' = SizeNow
  /\ heap' = heap \cup Blocks({"buffer"})
  /\ UNCHANGED <<system, fn, iterator, entries, answer, fault, calls, failures>>

\* getfsstat fills as many entries as fit
FillMounts ==
  /\ Goto("fill", "mount")
  /\ fn \in {"mounts", "physical"}
  /\ snap' = SubSeq(list, 1, IF Len(list) < room THEN Len(list) ELSE room)
  /\ pos' = 0
  /\ UNCHANGED <<system, fn, room, entries, answer, heap, fault, calls, failures>>

SkipMount ==
  /\ At("mount")
  /\ fn = "physical" /\ Member \notin Wanted
  /\ pos' = pos + 1
  /\ UNCHANGED <<system, pc, fn, room, snap, entries, answer, heap, fault, calls,
                 failures>>

\* The entry is copied and counted, and the table enlarged if it is full
CopyMount ==
  /\ At("mount")
  /\ fn = "mounts" \/ Member \in Wanted
  /\ pos' = pos + 1
  /\ entries' = Append(entries, Member)
  /\ heap' = heap \cup Strings(Len(entries) + 1)
  /\ UNCHANGED <<system, pc, fn, room, snap, answer, fault, calls, failures>>

\* A call fails, or the realloc when the table is full: all is freed
MountsFail ==
  /\ fn \in {"mounts", "physical"}
  /\ \/ pc \in {"size", "fill"}
     \/ pc = "mount" /\ entries # <<>>
  /\ Fail
  /\ pc' = "done"
  /\ heap' = heap \ (Blocks({"buffer"}) \cup Owned(Len(entries)))
  /\ UNCHANGED <<system, fn, room, iterator, entries, answer, fault, calls>>

EndOfMounts ==
  /\ pc = "mount" /\ pos = Len(snap)
  /\ Answer(entries, {})

\* sysctl fills the buffer if all that there is fits; all is copied, without
\* regard to the size of the table
FillInterfaces ==
  /\ pc = "fill" /\ fn = "net"
  /\ Len(list) <= room
  /\ Len(list) <= TableSize
  /\ Answer(list, Strings(Len(list)))

InterfacesOverrun ==
  /\ pc = "fill" /\ fn = "net"
  /\ Len(list) <= room
  /\ Len(list) > TableSize
  /\ Crash("wild_write")
  /\ UNCHANGED <<system, fn, room, iterator, entries, answer, heap, calls,
                 failures>>

\* A call fails, or the list has outgrown the buffer.  At error, counters is
\* freed, then nc, which points at it; ret is not.
InterfacesFail ==
  /\ fn = "net" /\ pc \in {"size", "fill"}
  /\ IF pc = "fill" /\ Len(list) > room THEN UNCHANGED failures ELSE Fail
  /\ Crash("double_free")
  /\ heap' = heap \ Blocks({"buffer", "table"})
  /\ UNCHANGED <<system, fn, room, iterator, entries, answer, calls>>
-----------------------------------------------------------------------------
(* disk_io_counters.                                                       *)
MatchServices ==
  /\ Goto("size", "disk")
  /\ fn = "disks"
  /\ snap' = list
  /\ pos' = 0
  /\ heap' = heap \cup Blocks({"disk_list", "table"})
  /\ UNCHANGED <<system, fn, room, entries, answer, fault, calls, failures>>

\* IOKit refuses, or the calloc of counters fails, which loses disk_list
MatchFails ==
  /\ Goto("size", "done")
  /\ fn = "disks"
  /\ Fail
  /\ \E lost \in {{}, {"disk_list"}} :
       heap' = (heap \ Blocks({"info"})) \cup Blocks(lost)
  /\ UNCHANGED <<system, fn, room, iterator, entries, answer, fault, calls>>

\* The parent of another class: neither the disk nor the parent is released
SkipDisk ==
  /\ At("disk")
  /\ Member \notin Wanted
  /\ pos' = pos + 1
  /\ heap' = heap \cup Refs({"disk", "parent"}, pos + 1)
  /\ UNCHANGED <<system, pc, fn, room, snap, entries, answer, fault, calls,
                 failures>>

\* Fault: an entry is counted before it is known to be a disk
CopyAnyDisk ==
  /\ At("disk")
  /\ pos' = pos + 1
  /\ entries' = Append(entries, Member)
  /\ heap' = heap \cup Strings(Len(entries) + 1)
  /\ UNCHANGED <<system, pc, fn, room, snap, answer, fault, calls, failures>>

\* All properties are there, and all references are released
CopyDisk ==
  /\ At("disk")
  /\ Member \in Wanted \ Nameless
  /\ pos' = pos + 1
  /\ IF Len(entries) < TableSize
       THEN /\ entries' = Append(entries, Member)
            /\ heap' = heap \cup Strings(Len(entries) + 1)
            /\ UNCHANGED <<pc, fault>>
       ELSE Crash("wild_write") /\ UNCHANGED <<entries, heap>>
  /\ UNCHANGED <<system, fn, room, snap, answer, calls, failures>>

\* A disk that has left the registry, or IOKit without memory
Unavailable == IF Member \in Elements(list) THEN Fail ELSE UNCHANGED failures

\* No parent, no properties of the disk, or no statistics: ret is freed, the
\* iterator is not, and in the last case nor is anything of this disk
DiskFails ==
  /\ At("disk")
  /\ Unavailable
  /\ pc' = "done"
  /\ \E lost \in {{}} \cup (IF Member \in Wanted \ Nameless THEN {Ref} ELSE {}) :
       heap' = (heap \ Owned(Len(entries))) \cup Refs(lost, pos + 1)
  /\ UNCHANGED <<system, fn, room, iterator, entries, answer, fault, calls>>

\* CFDictionaryGetValue finds no name, and CFStringGetCString is given NULL
NamelessDisk ==
  /\ At("disk")
  /\ Member \in Wanted \cap Nameless
  /\ Crash("null_deref")
  /\ UNCHANGED <<system, fn, room, iterator, entries, answer, heap, calls,
                 failures>>

\* No properties of the parent: CFRelease(props_dict) with props_dict NULL
ParentFails ==
  /\ At("disk")
  /\ Member \in Wanted
  /\ Unavailable
  /\ Crash("null_deref")
  /\ UNCHANGED <<system, fn, room, iterator, entries, answer, heap, calls>>

EndOfDisks ==
  /\ pc = "disk" /\ pos = Len(snap)
  /\ Answer(entries, {})
-----------------------------------------------------------------------------
\* driver.c: of net_io_counters alone, NULL is not expected
Release ==
  /\ pc = "done"
  /\ IF answer = NULL /\ fn = "net"
       THEN Crash("null_deref")
       ELSE pc' = "idle" /\ UNCHANGED fault
  /\ heap' = IF answer = NULL THEN heap ELSE heap \ Owned(Len(answer))
  /\ answer' = NULL
  /\ UNCHANGED <<system, fn, room, iterator, entries, calls, failures>>

library ==
  \/ \E f \in {"mounts", "physical", "disks", "net"} : Call(f)
  \/ Allocate \/ InfoAllocFails \/ TableAllocFails
  \/ Size \/ FillMounts \/ SkipMount \/ CopyMount \/ MountsFail \/ EndOfMounts
  \/ FillInterfaces \/ InterfacesOverrun \/ InterfacesFail
  \/ MatchServices \/ MatchFails
  \/ SkipDisk \/ CopyDisk \/ DiskFails \/ NamelessDisk \/ ParentFails
  \/ EndOfDisks
  \/ Release

Next == library \/ \E o \in Object : Join(o) \/ Leave(o)

Spec == Init /\ [][Next]_vars
-----------------------------------------------------------------------------
\* Every variable stays in its range: no table is filled beyond its size.
TypeOK ==
  /\ list \in Seq(Object) /\ snap \in Seq(Object)
  /\ pc \in {"idle", "alloc", "size", "fill", "mount", "disk", "done", "crashed"}
  /\ fn \in {"mounts", "physical", "disks", "net"}
  /\ room \in Nat /\ pos \in 0 .. Len(snap)
  /\ entries \in Seq(Object)
  /\ answer \in Seq(Object) \cup {NULL}
  /\ fn \in {"disks", "net"} => Len(entries) <= TableSize
  /\ heap \subseteq Nat \X Kind \X Nat
  /\ fault \in {"none", "null_deref", "wild_write", "double_free"}
  /\ calls \in Nat /\ changes \in Nat /\ failures \in Nat
  /\ stayed \subseteq seen /\ seen \subseteq Object

\* An answer has each wanted member that stayed on the list throughout the
\* call, nothing that was never there, and nothing twice, although the buffer
\* was sized, or the list copied, before the members were looked at.
ListsWhatStayed ==
  pc = "done" /\ answer # NULL =>
    LET all == fn \in {"mounts", "net"}
    IN  /\ \A o \in stayed : (all \/ o \in Wanted) => o \in Elements(answer)
        /\ Elements(answer) \subseteq IF all THEN seen ELSE seen \cap Wanted
        /\ \A j, k \in 1 .. Len(answer) : j < k => answer[j] # answer[k]

\* Without a failed allocation or call, net_io_counters frees a table twice
\* only if the list changed while it was copied, disk_io_counters dies only of
\* a disk that came or left during the call or has no name, and a table is
\* overrun only if there were more members than it has entries.
FaultHasCause ==
  fault # "none" /\ failures = 0 =>
    \/ fault = "double_free" /\ stayed # seen
    \/ fault = "null_deref" /\ fn = "disks" /\ Member \in (seen \ stayed) \cup Nameless
    \/ fault = "wild_write" /\ Cardinality(seen) > TableSize

\* What nobody frees: nothing of a disk_partitions, the structure of a
\* net_io_counters without memory for its table, and references of a
\* disk_io_counters that failed or met a disk of another class.
LeaksKnown ==
  pc \in {"idle", "done"} =>
    \A b \in heap \ (IF answer = NULL THEN {} ELSE Owned(Len(answer))) :
      \/ b[2] = "info" /\ fn = "net" /\ pc = "done" /\ answer = NULL
      \/ /\ b[2] \in Ref \cup {"disk_list"}
         /\ b[1] = calls =>
              /\ fn = "disks"
              /\ failures = 0 /\ stayed = seen => \E o \in seen : o \notin Wanted
=============================================================================
