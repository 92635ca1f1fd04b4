--------------------------- MODULE DiskPartitions ---------------------------
(***************************************************************************)
(* disk_partitions, get_physical_devices and free_disk_partition_info of   *)
(* pslib_linux.c.                                                          *)
(*                                                                         *)
(* A call reads two kernel tables one after the other: /proc/filesystems,  *)
(* for the types that live on a device, and the mount table, which is read *)
(* record by record while other programs mount and unmount.  A type must   *)
(* be registered before anything of that type is mounted and stays         *)
(* registered while something is.                                          *)
(*                                                                         *)
(* Heap blocks are triples <<call, kind, n>> as in GetUsers; "types" and   *)
(* "type" are the array of get_physical_devices and its strings.           *)
(***************************************************************************)
EXTENDS Naturals, Sequences, SequencesExt, GrowArray

CONSTANTS
  NSlots,           \* places where something can be mounted
  FsType, NoDev,    \* file system types, and those flagged nodev
  Unmounted, NULL,
  InitialCapacity,  \* nparts at entry: 5 in the code
  TypeCapacity,     \* room for types in get_physical_devices: 100
  MaxCalls, MaxChanges, MaxFailures

ASSUME TypesAssumption == NoDev \subseteq FsType
ASSUME SlotAssumption == NSlots \in Nat
ASSUME SentinelAssumption ==
  /\ {Unmounted, NULL} \cap FsType = {}
  /\ NULL \notin Seq(FsType \cup {NULL}) \cup Seq((1 .. NSlots) \X FsType)
ASSUME CapacityAssumption ==
  InitialCapacity \in Nat \ {0} /\ TypeCapacity \in Nat \ {0}

VARIABLES
  mounts,       \* mounts[i]: the type mounted in slot i, or Unmounted
  filesystems,  \* registered types, oldest first
  pc,
  physical,     \* the argument, the same in each call
  fs,           \* the lines of /proc/filesystems not read yet
  phys_devices, \* the types read, NULL where a strdup failed; or NULL
  nphys_devices,
  pos,          \* slots of the mount table already read
  file,         \* the mount table is open
  vec,          \* the partitions array, nparts and the cursor d
  held,         \* the strings that the counted entries point at
  entries,      \* the entries stored so far: <<slot, type>>
  answer,
  heap, fault,
  calls, changes, failures,
  seen          \* history: what each slot held during the call

vars == <<mounts, filesystems, pc, physical, fs, phys_devices, nphys_devices,
          pos, file, vec, held, entries, answer, heap, fault, calls, changes,
          failures, seen>>

\* What a step of the call leaves alone: the tables and its argument
given == <<mounts, filesystems, physical>>

devices == <<fs, phys_devices, nphys_devices>>

local == <<devices, pos, file, vec, held, entries, answer, heap, fault>>

Slot == 1 .. NSlots
Content == FsType \cup {Unmounted}
Field == {"device", "mountpoint", "fstype", "opts"}
Kind == {"info", "partitions", "types", "type"} \cup Field
Block == Nat \X Kind \X Nat
Running == {"alloc", "open", "types", "lines", "scan", "grow"}

Elements(s) == {s[j] : j \in 1 .. Len(s)}
Strings(n) == {<<calls, f, n>> : f \in Field}
TypeArray == <<calls, "types", 0>>
TypeBlocks(s) ==
  IF s = NULL
    THEN {}
    ELSE {TypeArray} \cup
         {<<calls, "type", j>> : j \in {k \in 1 .. Len(s) : s[k] # NULL}}

\* The blocks free_disk_partition_info releases (free(NULL) is harmless)
Owned == {<<calls, "info", 0>>, vec.blk} \cup held

free_disk_partition_info(h) ==
  /\ heap' = h \ Owned
  /\ fault' = IF Owned \subseteq h THEN fault ELSE "bad_free"

Fail == failures < MaxFailures /\ failures' = failures + 1

Goto(from, to) == pc = from /\ pc' = to
-----------------------------------------------------------------------------
Init ==
  /\ mounts = [i \in Slot |-> Unmounted]
  /\ filesystems = <<>>
  /\ pc = "idle"
  /\ physical \in BOOLEAN
  /\ fs = <<>>
  /\ phys_devices = NULL
  /\ nphys_devices = 0
  /\ pos = 0
  /\ file = FALSE
  /\ vec = NewArray(<<0, "partitions", 0>>, InitialCapacity)
  /\ held = {}
  /\ entries = <<>>
  /\ answer = NULL
  /\ heap = {}
  /\ fault = "none"
  /\ calls = 0 /\ changes = 0 /\ failures = 0
  /\ seen = [i \in Slot |-> {}]

(* The system: types are registered, file systems mounted and unmounted.   *)
Register(t) ==
  /\ pc # "crashed"
  /\ t \notin Elements(filesystems)
  /\ filesystems' = Append(filesystems, t)
  /\ UNCHANGED <<mounts, physical, pc, local, calls, changes, failures, seen>>

Unregister(t) ==
  /\ pc # "crashed"
  /\ \A i \in Slot : mounts[i] # t
  /\ \E j \in 1 .. Len(filesystems) :
       filesystems[j] = t /\ filesystems' = RemoveAt(filesystems, j)
  /\ UNCHANGED <<mounts, physical, pc, local, calls, changes, failures, seen>>

SetSlot(i, c) ==
  /\ pc # "crashed"
  /\ changes < MaxChanges
  /\ changes' = changes + 1
  /\ mounts' = [mounts EXCEPT ![i] = c]
  /\ seen' = IF pc \in Running THEN [seen EXCEPT ![i] = @ \cup {c}] ELSE seen
  /\ UNCHANGED <<filesystems, physical, pc, local, calls, failures>>

Mount(i, t) ==
  mounts[i] = Unmounted /\ t \in Elements(filesystems) /\ SetSlot(i, t)

Unmount(i) == mounts[i] # Unmounted /\ SetSlot(i, Unmounted)
-----------------------------------------------------------------------------
Call ==
  /\ Goto("idle", "alloc")
  /\ calls < MaxCalls
  /\ calls' = calls + 1
  /\ seen' = [i \in Slot |-> {mounts[i]}]
  /\ UNCHANGED <<given, local, changes, failures>>

Allocate ==
  /\ Goto("alloc", "open")
  /\ vec' = NewArray(<<calls, "partitions", 0>>, InitialCapacity)
  /\ held' = {}
  /\ entries' = <<>>
  /\ heap' = heap \cup {<<calls, "info", 0>>, <<calls, "partitions", 0>>}
  /\ UNCHANGED <<given, devices, pos, file, answer, fault, calls,
                 changes, failures, seen>>

\* check_mem(partitions) fails: only the info is there to be released
ArrayAllocFails ==
  /\ Goto("alloc", "done")
  /\ Fail
  /\ UNCHANGED <<given, local, calls, changes, seen>>

\* check_mem(ret) fails: free_disk_partition_info(NULL) dereferences NULL
InfoAllocFails ==
  /\ Goto("alloc", "crashed")
  /\ Fail
  /\ heap' = heap \cup {<<calls, "partitions", 0>>}
  /\ fault' = "null_deref"
  /\ UNCHANGED <<given, devices, pos, file, vec, held, entries,
                 answer, calls, changes, seen>>

\* Fault: the table is not read from its start
OpenResumes ==
  /\ Goto("open", "types")
  /\ file' = TRUE
  /\ UNCHANGED <<given, devices, pos, vec, held, entries, answer,
                 heap, fault, calls, changes, failures, seen>>

\* setmntent
Open ==
  /\ Goto("open", "types")
  /\ file' = TRUE
  /\ pos' = 0
  /\ UNCHANGED <<given, devices, vec, held, entries, answer, heap,
                 fault, calls, changes, failures, seen>>

OpenFails ==
  /\ Goto("open", "done")
  /\ Fail
  /\ free_disk_partition_info(heap)
  /\ UNCHANGED <<given, devices, pos, file, vec, held, entries,
                 answer, calls, changes, seen>>

(* get_physical_devices: the file is generated when it is first read, and  *)
(* handed out line by line.                                                *)
OpenTypes ==
  /\ Goto("types", "lines")
  /\ fs' = filesystems
  /\ phys_devices' = <<>>
  /\ nphys_devices' = 0
  /\ heap' = heap \cup {TypeArray}
  /\ UNCHANGED <<given, pos, file, vec, held, entries, answer, fault, calls,
                 changes, failures, seen>>

\* A calloc or the fopen fails: NULL and no devices.  The array, which exists
\* if it was the fopen, is not freed at error.
TypesUnavailable ==
  /\ Goto("types", "scan")
  /\ Fail
  /\ heap' \in {heap, heap \cup {TypeArray}}
  /\ UNCHANGED <<given, devices, pos, file, vec, held, entries, answer, fault,
                 calls, changes, seen>>

\* strncmp(line, "nodev", 5) == 0
SkipType ==
  /\ Goto("lines", "lines")
  /\ fs # <<>> /\ Head(fs) \in NoDev
  /\ fs' = Tail(fs)
  /\ UNCHANGED <<given, phys_devices, nphys_devices, pos, file, vec, held,
                 entries, answer, heap, fault, calls, changes, failures, seen>>

\* The line is copied: strdup returns the type or, unnoticed, NULL
CopyType(type) ==
  /\ pc = "lines"
  /\ fs # <<>> /\ Head(fs) \notin NoDev
  /\ \/ type = Head(fs) /\ UNCHANGED failures
     \/ type = NULL /\ Fail
  /\ nphys_devices' = nphys_devices + 1
  /\ UNCHANGED <<given, pos, file, vec, held, entries, answer, fault, calls,
                 changes, seen>>

StoreType(type) ==
  /\ CopyType(type)
  /\ nphys_devices' < TypeCapacity
  /\ fs' = Tail(fs)
  /\ phys_devices' = Append(phys_devices, type)
  /\ heap' = heap \cup TypeBlocks(phys_devices')
  /\ pc' = "lines"

\* check(*ndevices < 100) fails: the strings are freed, the array is not, and
\* NULL is returned while *ndevices keeps its value
TooManyTypes(type) ==
  /\ CopyType(type)
  /\ nphys_devices' >= TypeCapacity
  /\ fs' = <<>>
  /\ phys_devices' = NULL
  /\ heap' = heap \ (TypeBlocks(phys_devices) \ {TypeArray})
  /\ pc' = "scan"

\* Fault: one device too many is reported
EndOfTypesCountedAgain ==
  /\ Goto("lines", "scan")
  /\ fs = <<>>
  /\ phys_devices' = Append(phys_devices, NULL)
  /\ nphys_devices' = nphys_devices + 1
  /\ UNCHANGED <<given, fs, pos, file, vec, held, entries, answer, heap, fault,
                 calls, changes, failures, seen>>

EndOfTypes ==
  /\ Goto("lines", "scan")
  /\ fs = <<>>
  /\ UNCHANGED <<given, local, calls, changes, failures, seen>>

(* The loop over getmntent.  lfind compares with the types in order and    *)
(* reads through a null pointer if it meets one before a match.            *)
LookupCrashes(t) ==
  /\ physical
  /\ IF phys_devices = NULL
       THEN nphys_devices > 0
       ELSE \E j \in 1 .. nphys_devices :
              /\ phys_devices[j] = NULL
              /\ \A k \in 1 .. j : phys_devices[k] # t

\* Fault: no types means every type
WantedIfUnreadable(t) ==
  (physical /\ phys_devices # NULL) => t \in Elements(phys_devices)

Wanted(t) == physical => phys_devices # NULL /\ t \in Elements(phys_devices)

SkipMount ==
  /\ Goto("scan", "scan")
  /\ pos < NSlots
  /\ LET t == mounts[pos + 1]
     IN  t # Unmounted => ~LookupCrashes(t) /\ ~Wanted(t)
  /\ pos' = pos + 1
  /\ UNCHANGED <<given, devices, file, vec, held, entries, answer,
                 heap, fault, calls, changes, failures, seen>>

LookupCrash ==
  /\ Goto("scan", "crashed")
  /\ pos < NSlots
  /\ mounts[pos + 1] # Unmounted
  /\ LookupCrashes(mounts[pos + 1])
  /\ fault' = "null_deref"
  /\ UNCHANGED <<given, devices, pos, file, vec, held, entries,
                 answer, heap, calls, changes, failures, seen>>

\* The four strdups are not checked: those that fail leave their field NULL
CopyMount ==
  /\ pc = "scan"
  /\ pos < NSlots
  /\ LET t == mounts[pos + 1]
     IN  /\ t # Unmounted
         /\ ~LookupCrashes(t) /\ Wanted(t)
         /\ entries' = Append(entries, <<pos + 1, t>>)
  /\ pos' = pos + 1
  /\ fault' = IF StoreInBounds(vec, heap) THEN fault ELSE "wild_write"
  /\ \E lost \in SUBSET Strings(vec.len) :
       /\ (lost = {} /\ UNCHANGED failures) \/ (lost # {} /\ Fail)
       /\ held' = held \cup (Strings(vec.len) \ lost)
       /\ heap' = heap \cup (Strings(vec.len) \ lost)
  /\ vec' = Advance(vec)
  /\ pc' = IF Full(vec') THEN "grow" ELSE "scan"
  /\ UNCHANGED <<given, devices, file, answer, calls, changes, seen>>

Grow ==
  /\ Goto("grow", "scan")
  /\ \E b \in {vec.blk, <<calls, "partitions", vec.blk[3] + 1>>} :
       /\ vec' = Regrow(vec, b)
       /\ heap' = (heap \ {vec.blk}) \cup {b}
  /\ UNCHANGED <<given, devices, pos, file, held, entries, answer,
                 fault, calls, changes, failures, seen>>

\* Fault: ret->partitions is assigned before realloc's result is checked
GrowFailsAssigned ==
  /\ Goto("grow", "done")
  /\ Fail
  /\ file' = FALSE
  /\ vec' = [vec EXCEPT !.blk = NULL]
  /\ UNCHANGED <<given, devices, pos, held, entries, answer, heap,
                 fault, calls, changes, seen>>

\* Fault: the table stays open
GrowFailsOpen ==
  /\ Goto("grow", "done")
  /\ Fail
  /\ free_disk_partition_info(heap)
  /\ UNCHANGED <<given, devices, pos, file, vec, held, entries,
                 answer, calls, changes, seen>>

\* At error the mount table is closed; phys_devices is not freed
GrowFails ==
  /\ Goto("grow", "done")
  /\ Fail
  /\ file' = FALSE
  /\ free_disk_partition_info(heap)
  /\ UNCHANGED <<given, devices, pos, vec, held, entries, answer,
                 calls, changes, seen>>

\* endmntent, then the loop that frees nphys_devices strings
EndOfMounts ==
  /\ pc = "scan"
  /\ pos = NSlots
  /\ file' = FALSE
  /\ IF phys_devices = NULL /\ nphys_devices > 0
       THEN /\ pc' = "crashed"
            /\ fault' = "null_deref"
            /\ UNCHANGED <<answer, heap>>
       ELSE /\ pc' = "done"
            /\ answer' = entries
            /\ heap' = heap \ TypeBlocks(phys_devices)
            /\ UNCHANGED fault
  /\ UNCHANGED <<given, devices, pos, vec, held, entries, calls,
                 changes, failures, seen>>

Release ==
  /\ Goto("done", "idle")
  /\ IF answer = NULL THEN UNCHANGED <<heap, fault>>
                      ELSE free_disk_partition_info(heap)
  /\ answer' = NULL
  /\ entries' = <<>>
  /\ fs' = <<>>
  /\ phys_devices' = NULL
  /\ nphys_devices' = 0
  /\ seen' = [i \in Slot |-> {}]
  /\ UNCHANGED <<given, pos, file, vec, held, calls,
                 changes, failures>>

disk_partitions ==
  \/ Call \/ Allocate \/ ArrayAllocFails \/ InfoAllocFails \/ Open \/ OpenFails
  \/ OpenTypes \/ TypesUnavailable \/ SkipType \/ EndOfTypes
  \/ \E type \in FsType \cup {NULL} : StoreType(type) \/ TooManyTypes(type)
  \/ SkipMount \/ LookupCrash \/ CopyMount \/ Grow \/ GrowFails
  \/ EndOfMounts \/ Release

system ==
  \/ \E t \in FsType : Register(t) \/ Unregister(t)
  \/ \E i \in Slot, t \in FsType : Mount(i, t)
  \/ \E i \in Slot : Unmount(i)

Next == disk_partitions \/ system

Spec == Init /\ [][Next]_vars
-----------------------------------------------------------------------------
\* Every variable stays in its range: the array that free_disk_partition_info
\* is given is a block, and no more types are kept than there is room for.
TypeOK ==
  /\ mounts \in [Slot -> Content]
  /\ filesystems \in Seq(FsType)
  /\ pc \in Running \cup {"idle", "done", "crashed"}
  /\ physical \in BOOLEAN
  /\ fs \in Seq(FsType)
  /\ phys_devices \in Seq(FsType \cup {NULL}) \cup {NULL}
  /\ nphys_devices \in 0 .. TypeCapacity
  /\ pos \in 0 .. NSlots
  /\ file \in BOOLEAN
  /\ vec \in ArrayType(Block)
  /\ held \subseteq Block
  /\ entries \in Seq(Slot \X FsType)
  /\ answer \in Seq(Slot \X FsType) \cup {NULL}
  /\ heap \subseteq Block
  /\ fault \in {"none", "null_deref", "wild_write", "bad_free"}
  /\ calls \in Nat /\ changes \in Nat /\ failures \in Nat
  /\ seen \in [Slot -> SUBSET Content]

\* Stores and frees only touch live blocks, with entries whose fields are
\* partly NULL and with an array that a failed realloc left behind too.
NoMemoryError == fault \notin {"wild_write", "bad_free"}

\* On every path, a failed realloc included, the mount table is open exactly
\* from setmntent to endmntent.  Whatever failed in earlier calls, what stays
\* allocated between calls was allocated by get_physical_devices, and nothing
\* stays if nothing failed.
AllReleased ==
  /\ pc \in {"idle", "alloc", "open", "done"} => ~file
  /\ pc \in {"types", "lines", "scan", "grow"} => file
  /\ pc = "idle" => /\ \A b \in heap : b[2] \in {"types", "type"}
                    /\ failures = 0 => heap = {}

\* A physical listing holds no partition of a type that was not registered
\* as physical, also when types were lost or unreadable.
PhysicalOnly ==
  physical => \A j \in 1 .. Len(entries) : entries[j][2] \notin NoDev

\* disk_partitions dies of three things only: its structure cannot be allocated,
\* the list of types is full and was given up, or a physical listing compares
\* with a type of which no copy could be made.  No other failure, before or
\* after these, is fatal: not of the table, of a string or of a realloc.
CrashNeedsCause ==
  pc = "crashed" =>
    \/ <<calls, "info", 0>> \notin heap
    \/ phys_devices = NULL /\ nphys_devices = TypeCapacity
    \/ /\ failures > 0 /\ physical
       /\ phys_devices # NULL /\ NULL \in Elements(phys_devices)

\* The list is a scan of the mount table: every file system (every physical
\* one, if asked for) mounted throughout the call, although the types are
\* read once, before the mounts, and more may be registered meanwhile.
Shown(c) == IF physical /\ c \in NoDev THEN Unmounted ELSE c

Scan == INSTANCE ScanQuery WITH
  N <- NSlots, Value <- FsType, Vacant <- Unmounted, Refusal <- NULL,
  table <- [i \in Slot |-> Shown(mounts[i])],
  seen <- [i \in Slot |-> {Shown(c) : c \in seen[i]}],
  status <- CASE pc = "idle" -> "idle" [] pc = "done" -> "answered"
              [] OTHER -> "busy"

\* Until something fails, every step of disk_partitions, and of those who mount
\* and unmount meanwhile, is one of ScanQuery or invisible to it.
RefinesScan == Scan!Init /\ [][failures' = 0 => Scan!Next]_(Scan!vars)
=============================================================================
