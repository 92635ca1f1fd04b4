------------------------ MODULE DiskPartitionsProofs ------------------------
(***************************************************************************)
(* What DiskPartitions guarantees for every number of slots, set of file   *)
(* system types, capacity of its arrays and number of failures.            *)
(***************************************************************************)
EXTENDS DiskPartitions, SequenceTheorems, TLAPS

\* From the callocs until the caller has its list: the info and the partitions
\* array exist, and are what free_disk_partition_info would free.
Holding ==
  \/ pc \in {"open", "types", "lines", "scan", "grow"}
  \/ pc = "done" /\ answer # NULL

\* While the types are read the list exists and has room for one more
Room == pc = "lines" => phys_devices # NULL /\ nphys_devices < TypeCapacity

Reading == pc \in {"lines", "scan", "grow"}

\* What get_physical_devices has returned so far.  As long as nothing has
\* failed, it lacks no name, and it is NULL only when the types did not fit.
TypesInv ==
  /\ pc \in {"idle", "alloc", "open", "types"} =>
       phys_devices = NULL /\ nphys_devices = 0
  /\ Reading =>
       IF phys_devices = NULL
         THEN /\ nphys_devices \in {0, TypeCapacity}
              /\ failures = 0 => nphys_devices = TypeCapacity
         ELSE /\ Len(phys_devices) = nphys_devices
              /\ failures = 0 =>
                   \A j \in 1 .. Len(phys_devices) : phys_devices[j] # NULL

\* The inductive invariant for memory.  Between calls only blocks of
\* get_physical_devices are left; during a call these come on top of what
\* the call owns, and they are exactly its type list if nothing has failed.
HeapInv ==
  /\ NoMemoryError
  /\ vec.cap > 0
  /\ pc # "done" => answer = NULL
  /\ pc \in {"types", "lines", "scan", "grow"} => file
  /\ pc \in {"idle", "alloc", "open", "done"} => ~file
  /\ pc \in {"open", "types", "lines", "scan"} => CursorReady(vec, heap)
  /\ pc = "grow" =>
       vec.cblk = vec.blk /\ vec.cidx = vec.len /\ vec.len = vec.cap
  /\ \A b \in heap : b[1] <= calls
  /\ Holding => /\ vec.blk[1] = calls /\ vec.blk[2] = "partitions"
                /\ \A s \in held : s[1] = calls /\ s[2] \in Field
                /\ Owned \subseteq heap
                /\ \A b \in heap \ Owned : b[2] \in {"types", "type"}
  /\ ~Holding /\ pc # "crashed" => \A b \in heap : b[2] \in {"types", "type"}
  /\ failures = 0 =>
       /\ pc \in {"idle", "alloc"} => heap = {}
       /\ pc \in {"open", "types", "done"} => Holding /\ heap = Owned
       /\ Reading /\ phys_devices # NULL =>
            heap = Owned \cup TypeBlocks(phys_devices)

\* Only the names of types on a device are copied
PhysicalTypes == phys_devices # NULL => Elements(phys_devices) \cap NoDev = {}

\* Entries are in the order of the slots, and of slots already read
OrderInv ==
  /\ \A j, k \in 1 .. Len(entries) : j < k => entries[j][1] < entries[k][1]
  /\ pc \in {"open", "types", "lines"} => entries = <<>>
  /\ pc \in {"types", "lines"} => pos = 0
  /\ pc \in {"scan", "grow"} =>
       \A j \in 1 .. Len(entries) : entries[j][1] <= pos

\* What is mounted is registered
RegisteredInv ==
  \A i \in Slot : mounts[i] # Unmounted => mounts[i] \in Elements(filesystems)

\* The types that need not, or will, be found in the list
KnownType(c) ==
  \/ c \in NoDev \cup {Unmounted} \cup Elements(phys_devices)
  \/ pc = "lines" /\ c \in Elements(fs)

\* The inductive invariant for the refinement, until something fails: a slot
\* that holds a type the call does not know of has been empty since the call
\* began, because types are registered before they are mounted; and a slot that
\* was passed over held nothing to show at some time during the call.
ScanInv ==
  failures = 0 =>
    /\ pc \in Running => \A i \in Slot : mounts[i] \in seen[i]
    /\ Reading /\ phys_devices # NULL =>
         \A i \in Slot : KnownType(mounts[i]) \/ Unmounted \in seen[i]
    /\ pc \in {"scan", "grow"} =>
         /\ \A j \in 1 .. Len(entries) : entries[j][2] \in seen[entries[j][1]]
         /\ \A i \in 1 .. pos :
              \/ \E c \in seen[i] : Shown(c) = Unmounted
              \/ \E j \in 1 .. Len(entries) : entries[j][1] = i

\* A list has everything to be shown that was mounted on its slot all through
\* the call, and nothing that was not there at some time during it.
MountsListed ==
  pc = "done" /\ answer # NULL =>
    /\ \A i \in Slot, t \in FsType :
         seen[i] = {t} /\ Shown(t) = t =>
           \E j \in 1 .. Len(answer) : answer[j] = <<i, t>>
    /\ \A j \in 1 .. Len(answer) : answer[j][2] \in seen[answer[j][1]]

MountsKnown == failures = 0 => MountsListed

(***************************************************************************)
(* Facts about the operators: GrowArray's, and RemoveAt of SequencesExt.   *)
(***************************************************************************)
LEMMA ArrayOps ==
  ASSUME NEW v \in ArrayType(Block), NEW b \in Block
  PROVE  /\ /\ Advance(v) \in ArrayType(Block)
            /\ Advance(v).blk = v.blk
            /\ Advance(v).cblk = v.cblk
            /\ Advance(v).len = v.len + 1
            /\ Advance(v).cidx = v.cidx + 1
            /\ Advance(v).cap = v.cap
         /\ /\ Regrow(v, b) \in ArrayType(Block)
            /\ Regrow(v, b).blk = b
            /\ Regrow(v, b).cblk = b
            /\ Regrow(v, b).len = v.len
            /\ Regrow(v, b).cidx = v.len
            /\ Regrow(v, b).cap = 2 * v.cap
<1>1. v.len \in Nat /\ v.len + 1 \in Nat /\ v.cidx + 1 \in Nat /\ 2 * v.cap \in Nat
  BY DEF ArrayType
<1>2. Advance(v) \in ArrayType(Block)
  BY <1>1 DEF Advance, ArrayType
<1>3. Regrow(v, b) \in ArrayType(Block)
  BY <1>1 DEF Regrow, ArrayType
<1>4. QED
  BY <1>2, <1>3 DEF Advance, Regrow, ArrayType

LEMMA Removal ==
  ASSUME NEW S, NEW s \in Seq(S), NEW j \in 1 .. Len(s)
  PROVE  /\ RemoveAt(s, j) \in Seq(S)
         /\ \A k \in 1 .. Len(s) :
              k # j => \E m \in 1 .. Len(RemoveAt(s, j)) : RemoveAt(s, j)[m] = s[k]
<1> DEFINE a == SubSeq(s, 1, j - 1)
           b == SubSeq(s, j + 1, Len(s))
<1>1. a \in Seq(S) /\ Len(a) = j - 1 /\ \A k \in 1 .. j - 1 : a[k] = s[k]
  OBVIOUS
<1>2. /\ b \in Seq(S)
      /\ Len(b) = Len(s) - j
      /\ \A k \in 1 .. Len(s) - j : b[k] = s[k + j]
  OBVIOUS
<1>3. RemoveAt(s, j) = a \o b
  BY DEF RemoveAt
<1> HIDE DEF a, b
<1>4. /\ a \o b \in Seq(S)
      /\ Len(a \o b) = Len(s) - 1
      /\ \A k \in 1 .. Len(s) - 1 : (a \o b)[k] = IF k < j THEN s[k] ELSE s[k + 1]
  <2>1. /\ a \o b \in Seq(S)
        /\ Len(a \o b) = Len(a) + Len(b)
        /\ \A k \in 1 .. Len(a) + Len(b) :
             (a \o b)[k] = IF k <= Len(a) THEN a[k] ELSE b[k - Len(a)]
    BY <1>1, <1>2, ConcatProperties
  <2>2. QED
    BY <1>1, <1>2, <2>1
<1>5. ASSUME NEW k \in 1 .. Len(s), k # j
      PROVE  \E m \in 1 .. Len(s) - 1 : (a \o b)[m] = s[k]
  <2>1. CASE k < j
    <3>1. k \in 1 .. Len(s) - 1
      BY <2>1
    <3>2. (a \o b)[k] = s[k]
      BY <1>4, <2>1, <3>1
    <3>3. QED
      BY <3>1, <3>2
  <2>2. CASE k > j
    <3>1. k - 1 \in 1 .. Len(s) - 1 /\ ~(k - 1 < j) /\ (k - 1) + 1 = k
      BY <2>2
    <3>2. QED
      BY <1>4, <3>1
  <2>3. k < j \/ k > j
    BY <1>5
  <2>4. QED
    BY <2>1, <2>2, <2>3
<1>6. QED
  BY <1>3, <1>4, <1>5
-----------------------------------------------------------------------------
(***************************************************************************)
(* TypeOK is inductive.                                                    *)
(***************************************************************************)
LEMMA BlockTypes ==
  ASSUME TypeOK
  PROVE  /\ \A n \in Nat : Strings(n) \subseteq Block
         /\ \A s \in Seq(FsType \cup {NULL}) : TypeBlocks(s) \subseteq Block
         /\ TypeArray \in Block
         /\ \A n \in Nat : <<calls, "info", 0>> \in Block
                          /\ <<calls, "partitions", n>> \in Block
  BY DEF TypeOK, Strings, TypeBlocks, TypeArray, Block, Kind, Field

(* TypeOK: the tables, the type list, the array, the heap and the counters *)
(* of disk_partitions keep their types through every step, and there is    *)
(* room in the type list whenever a line is read.                          *)
THEOREM TypeCorrect == Spec => [](TypeOK /\ Room)
<1> USE CapacityAssumption, SlotAssumption, SentinelAssumption, TypesAssumption
<1> USE DEF Room
<1> DEFINE Inv == TypeOK /\ Room
<1>0. <<>> \in Seq(FsType \cup {NULL}) /\ <<>> # NULL
  <2>1. <<>> \in Seq(FsType \cup {NULL})
    OBVIOUS
  <2>2. QED
    BY <2>1
<1>1. Init => Inv
  <2> SUFFICES ASSUME Init PROVE Inv
    OBVIOUS
  <2>1. <<0, "partitions", 0>> \in Block
    BY DEF Block, Kind
  <2>2. vec \in ArrayType(Block)
    BY <2>1 DEF Init, NewArray, ArrayType
  <2>3. mounts \in [Slot -> Content] /\ seen \in [Slot -> SUBSET Content]
    BY DEF Init, Content
  <2>4. /\ filesystems \in Seq(FsType) /\ fs \in Seq(FsType)
        /\ entries \in Seq(Slot \X FsType)
    BY DEF Init
  <2>5. pos \in 0 .. NSlots /\ nphys_devices \in 0 .. TypeCapacity
    BY DEF Init
  <2>6. QED
    BY <2>2, <2>3, <2>4, <2>5 DEF Init, TypeOK, Running
<1>2. Inv /\ [Next]_vars => Inv'
  <2> SUFFICES ASSUME TypeOK, Room, [Next]_vars
               PROVE  Inv'
    OBVIOUS
  <2> USE DEF Goto, given, local, devices, Fail, Running
  <2>1. ASSUME NEW t \in FsType, Register(t)
        PROVE  Inv'
    BY <2>1 DEF TypeOK, Register
  <2>2. ASSUME NEW t \in FsType, Unregister(t)
        PROVE  Inv'
    BY <2>2, Removal DEF TypeOK, Unregister
  <2>3. ASSUME NEW i \in Slot, NEW c \in Content, SetSlot(i, c)
        PROVE  Inv'
    BY <2>3 DEF TypeOK, SetSlot
  <2>4. CASE Call
    BY <2>4 DEF TypeOK, Call, Content
  <2>5. CASE Allocate
    <3>1. vec' \in ArrayType(Block)
      BY <2>5, BlockTypes DEF Allocate, NewArray, ArrayType
    <3>2. heap' \subseteq Block
      BY <2>5, BlockTypes DEF TypeOK, Allocate
    <3>3. QED
      BY <2>5, <3>1, <3>2 DEF TypeOK, Allocate
  <2>6. CASE ArrayAllocFails \/ InfoAllocFails
    <3>1. heap' \subseteq Block
      BY <2>6, BlockTypes DEF TypeOK, ArrayAllocFails, InfoAllocFails
    <3>2. CASE ArrayAllocFails
      BY <3>1, <3>2 DEF TypeOK, ArrayAllocFails
    <3>3. CASE InfoAllocFails
      BY <3>1, <3>3 DEF TypeOK, InfoAllocFails
    <3>4. QED
      BY <2>6, <3>2, <3>3
  <2>7. CASE Open
    BY <2>7 DEF TypeOK, Open
  <2>19. CASE OpenFails
    BY <2>19 DEF TypeOK, OpenFails, free_disk_partition_info
  <2>8. CASE OpenTypes \/ TypesUnavailable
    <3>1. heap' \subseteq Block
      BY <2>8, BlockTypes DEF TypeOK, OpenTypes, TypesUnavailable
    <3>2. CASE OpenTypes
      BY <1>0, <3>1, <3>2 DEF TypeOK, OpenTypes
    <3>3. CASE TypesUnavailable
      BY <3>1, <3>3 DEF TypeOK, TypesUnavailable
    <3>4. QED
      BY <2>8, <3>2, <3>3
  <2>9. CASE SkipType
    BY <2>9 DEF TypeOK, SkipType
  <2>20. CASE EndOfTypes
    BY <2>20 DEF TypeOK, EndOfTypes
  <2>10. ASSUME NEW type \in FsType \cup {NULL},
                StoreType(type) \/ TooManyTypes(type)
         PROVE  Inv'
    <3> USE DEF CopyType
    <3>1. fs' \in Seq(FsType)
      <4>1. /\ fs \in Seq(FsType) /\ fs # <<>>
            /\ fs' = Tail(fs) \/ fs' = <<>>
        BY <2>10 DEF TypeOK, StoreType, TooManyTypes
      <4>2. Tail(fs) \in Seq(FsType)
        BY <4>1, HeadTailProperties
      <4>3. <<>> \in Seq(FsType)
        OBVIOUS
      <4>4. QED
        BY <4>1, <4>2, <4>3
    <3>4. /\ phys_devices \in Seq(FsType \cup {NULL})
          /\ nphys_devices \in 0 .. TypeCapacity - 1
      BY <2>10 DEF TypeOK, StoreType, TooManyTypes
    <3>5. phys_devices' \in Seq(FsType \cup {NULL}) \cup {NULL}
      BY <2>10, <3>4 DEF StoreType, TooManyTypes
    <3>6. nphys_devices' \in 0 .. TypeCapacity
      BY <2>10, <3>4 DEF StoreType, TooManyTypes
    <3>7. /\ UNCHANGED <<mounts, filesystems, physical, pos, file, vec, held,
                        entries, answer, fault, calls, changes, seen>>
          /\ failures' \in Nat /\ pc' \in {"lines", "scan"}
          /\ pc' = "lines" => /\ phys_devices' = Append(phys_devices, type)
                             /\ nphys_devices' < TypeCapacity
      <4>1. failures \in Nat
        BY DEF TypeOK
      <4>2. CASE StoreType(type)
        BY <4>1, <4>2 DEF StoreType
      <4>3. CASE TooManyTypes(type)
        BY <4>1, <4>3 DEF TooManyTypes
      <4>4. QED
        BY <2>10, <4>2, <4>3
    <3>8. Append(phys_devices, type) # NULL
      BY <3>4
    <3>2. heap' \subseteq Block
      <4>1. CASE StoreType(type)
        <5>1. phys_devices' \in Seq(FsType \cup {NULL}) /\ calls' = calls
          BY <2>10, <4>1 DEF TypeOK, StoreType, CopyType
        <5>2. TypeBlocks(phys_devices') \subseteq Block
          BY <5>1, BlockTypes
        <5>3. QED
          BY <4>1, <5>2 DEF TypeOK, StoreType
      <4>2. CASE TooManyTypes(type)
        BY <4>2 DEF TypeOK, TooManyTypes
      <4>3. QED
        BY <2>10, <4>1, <4>2
    <3>3. QED
      BY <3>1, <3>2, <3>5, <3>6, <3>7, <3>8 DEF TypeOK
  <2>11. CASE SkipMount \/ LookupCrash
    <3>1. CASE SkipMount
      BY <3>1 DEF TypeOK, SkipMount
    <3>2. CASE LookupCrash
      BY <3>2 DEF TypeOK, LookupCrash
    <3>3. QED
      BY <2>11, <3>1, <3>2
  <2>12. CASE CopyMount
    <3>1. PICK lost \in SUBSET Strings(vec.len) :
            /\ failures' \in {failures, failures + 1}
            /\ held' = held \cup (Strings(vec.len) \ lost)
            /\ heap' = heap \cup (Strings(vec.len) \ lost)
      BY <2>12 DEF CopyMount
    <3>2. Strings(vec.len) \subseteq Block
      BY BlockTypes DEF TypeOK, ArrayType
    <3>3. held' \subseteq Block /\ heap' \subseteq Block /\ failures' \in Nat
      BY <3>1, <3>2 DEF TypeOK
    <3>4. vec' \in ArrayType(Block)
      BY <2>12, BlockTypes, ArrayOps DEF TypeOK, CopyMount
    <3>5. <<pos + 1, mounts[pos + 1]>> \in Slot \X FsType
      BY <2>12 DEF TypeOK, CopyMount, Slot, Content
    <3>6. entries' \in Seq(Slot \X FsType)
      BY <2>12, <3>5 DEF TypeOK, CopyMount
    <3>7. QED
      BY <2>12, <3>3, <3>4, <3>6 DEF TypeOK, CopyMount
  <2>13. CASE Grow
    <3>1. PICK b \in {vec.blk, <<calls, "partitions", vec.blk[3] + 1>>} :
            /\ vec' = Regrow(vec, b)
            /\ heap' = (heap \ {vec.blk}) \cup {b}
      BY <2>13 DEF Grow
    <3>2. b \in Block
      <4>1. vec.blk \in Block /\ calls \in Nat /\ "partitions" \in Kind
        BY DEF TypeOK, ArrayType, Kind
      <4>2. vec.blk[3] + 1 \in Nat
        BY <4>1 DEF Block
      <4>3. <<calls, "partitions", vec.blk[3] + 1>> \in Block
        BY <4>1, <4>2 DEF Block
      <4>4. QED
        BY <3>1, <4>1, <4>3
    <3>3. vec' \in ArrayType(Block)
      <4>1. vec \in ArrayType(Block)
        BY DEF TypeOK
      <4>2. Regrow(vec, b) \in ArrayType(Block)
        BY <3>2, <4>1, ArrayOps
      <4>3. QED
        BY <3>1, <4>2
    <3>4. QED
      BY <2>13, <3>1, <3>2, <3>3 DEF TypeOK, Grow
  <2>14. CASE GrowFails
    <3>1. /\ heap' \subseteq Block
          /\ fault' \in {"none", "null_deref", "wild_write", "bad_free"}
          /\ failures' \in Nat
      BY <2>14 DEF TypeOK, GrowFails, free_disk_partition_info
    <3>2. QED
      BY <2>14, <3>1 DEF TypeOK, GrowFails
  <2>15. CASE EndOfMounts
    BY <2>15 DEF TypeOK, EndOfMounts
  <2>16. CASE Release
    BY <2>16 DEF TypeOK, Release, free_disk_partition_info
  <2>17. CASE UNCHANGED vars
    BY <2>17 DEF TypeOK, vars
  <2>18. QED
    BY <2>1, <2>2, <2>3, <2>4, <2>5, <2>6, <2>7, <2>8, <2>9, <2>10, <2>11,
       <2>12, <2>13, <2>14, <2>15, <2>16, <2>17, <2>19, <2>20
       DEF Next, disk_partitions, system, Mount, Unmount, Content
<1>3. QED
  BY <1>1, <1>2, PTL DEF Spec
-----------------------------------------------------------------------------
(***************************************************************************)
(* The type list and the heap.                                             *)
(***************************************************************************)

(* What get_physical_devices returns is NULL or a list of the length that  *)
(* it reports, whatever fails.                                             *)
LEMMA TypesRead == Spec => []TypesInv
<1> USE CapacityAssumption, SentinelAssumption DEF Reading, Fail
<1>1. Init => TypesInv
  BY DEF Init, TypesInv
<1>2. TypeOK /\ Room /\ TypesInv /\ [Next]_vars => TypesInv'
  <2> SUFFICES ASSUME TypeOK, Room, TypesInv, [Next]_vars
               PROVE  TypesInv'
    OBVIOUS
  <2> USE DEF Goto, given, local, devices
  <2>1. failures \in Nat /\ nphys_devices \in 0 .. TypeCapacity
    BY DEF TypeOK
  <2>2. CASE system \/ UNCHANGED vars
    BY <2>2 DEF system, Register, Unregister, Mount, Unmount, SetSlot, vars,
                TypesInv
  <2>3. CASE \/ Call \/ Allocate \/ ArrayAllocFails \/ InfoAllocFails
             \/ Open \/ OpenFails
    BY <2>1, <2>3 DEF Call, Allocate, ArrayAllocFails, InfoAllocFails, Open,
                      OpenFails, TypesInv
  <2>4. CASE OpenTypes
    <3>1. <<>> \in Seq(FsType \cup {NULL}) /\ Len(<<>>) = 0
      OBVIOUS
    <3>2. /\ phys_devices' = <<>> /\ nphys_devices' = 0
          /\ pc' = "lines" /\ UNCHANGED failures
      BY <2>4 DEF OpenTypes
    <3>3. phys_devices' # NULL /\ Len(phys_devices') = 0
      BY <3>1, <3>2
    <3>4. QED
      BY <3>2, <3>3 DEF TypesInv, Room
  <2>5. CASE TypesUnavailable
    <3>1. phys_devices' = NULL /\ failures' # 0
      BY <2>1, <2>5 DEF TypesUnavailable, TypesInv
    <3>2. QED
      BY <2>5, <3>1 DEF TypesUnavailable, TypesInv
  <2>12. CASE SkipType
    BY <2>12 DEF SkipType, TypesInv
  <2>13. CASE EndOfTypes
    BY <2>13 DEF EndOfTypes, TypesInv
  <2>6. ASSUME NEW type \in FsType \cup {NULL}, StoreType(type)
        PROVE  TypesInv'
    <3>1. /\ phys_devices # NULL
          /\ phys_devices \in Seq(FsType \cup {NULL})
          /\ Len(phys_devices) = nphys_devices
          /\ phys_devices' = Append(phys_devices, type)
          /\ nphys_devices' = nphys_devices + 1
          /\ pc = "lines" /\ pc' = "lines"
      BY <2>6 DEF StoreType, CopyType, TypesInv, TypeOK, Room
    <3>2. /\ phys_devices' \in Seq(FsType \cup {NULL})
          /\ Len(phys_devices') = nphys_devices'
          /\ \A j \in 1 .. Len(phys_devices) : phys_devices'[j] = phys_devices[j]
          /\ phys_devices'[Len(phys_devices')] = type
      BY <3>1
    <3>3. failures' = 0 => failures = 0 /\ type # NULL
      <4>1. \/ type = Head(fs) /\ failures' = failures
            \/ failures' = failures + 1
        BY <2>6 DEF StoreType, CopyType
      <4>2. fs \in Seq(FsType) /\ fs # <<>>
        BY <2>6 DEF StoreType, CopyType, TypeOK
      <4>3. Head(fs) \in FsType
        BY <4>2, HeadTailProperties
      <4>4. QED
        BY <2>1, <4>1, <4>3
    <3>4. failures' = 0 =>
            \A j \in 1 .. Len(phys_devices') : phys_devices'[j] # NULL
      BY <3>1, <3>2, <3>3 DEF TypesInv
    <3>5. phys_devices' # NULL
      BY <3>2
    <3>6. QED
      BY <3>1, <3>2, <3>4, <3>5 DEF TypesInv
  <2>7. ASSUME NEW type \in FsType \cup {NULL}, TooManyTypes(type)
        PROVE  TypesInv'
    <3>1. nphys_devices' = TypeCapacity
      BY <2>1, <2>7 DEF TooManyTypes, CopyType, Room
    <3>2. QED
      BY <2>7, <3>1 DEF TooManyTypes, TypesInv
  <2>8. CASE SkipMount \/ CopyMount \/ Grow \/ GrowFails \/ Release
    <3>1. failures' = 0 => failures = 0
      BY <2>1, <2>8 DEF SkipMount, CopyMount, Grow, GrowFails, Release
    <3>2. QED
      BY <2>8, <3>1 DEF SkipMount, CopyMount, Grow, GrowFails, Release, TypesInv
  <2>9. CASE LookupCrash
    <3>1. failures = 0 => nphys_devices = TypeCapacity
      BY <2>9 DEF LookupCrash, LookupCrashes, TypesInv
    <3>2. QED
      BY <2>1, <2>9, <3>1 DEF LookupCrash, TypesInv
  <2>10. CASE EndOfMounts
    BY <2>1, <2>10 DEF EndOfMounts, TypesInv
  <2>11. QED
    BY <2>2, <2>3, <2>4, <2>5, <2>6, <2>7, <2>8, <2>9, <2>10,
       <2>12, <2>13 DEF Next, disk_partitions
<1>3. QED
  BY <1>1, <1>2, TypeCorrect, PTL DEF Spec

(* What is on the heap, and where the cursor of the table points.          *)
LEMMA HeapKept == Spec => []HeapInv
<1> USE CapacityAssumption, SentinelAssumption DEF Goto, Fail
<1>1. Init => HeapInv
  BY DEF Init, HeapInv, NoMemoryError, NewArray, Holding, Reading
<1>2. TypeOK /\ TypeOK' /\ Room /\ TypesInv /\ HeapInv /\ [Next]_vars => HeapInv'
  <2> SUFFICES ASSUME TypeOK, TypeOK', Room, TypesInv, HeapInv, [Next]_vars
               PROVE  HeapInv'
    OBVIOUS
  <2> USE DEF given, local, devices, Holding, Reading, NoMemoryError
  <2>1. /\ calls \in Nat /\ failures \in Nat
        /\ vec.len \in Nat /\ vec.cap \in Nat /\ vec.blk \in Block
        /\ \A b \in heap : b[1] \in Nat
    BY DEF TypeOK, ArrayType, Block
  <2>2. Holding => \A b \in Owned : b[1] = calls /\ b[2] \notin {"types", "type"}
    BY DEF HeapInv, Owned, Field
  <2>3. \A s : \A b \in TypeBlocks(s) : b[1] = calls /\ b[2] \in {"types", "type"}
    BY DEF TypeBlocks, TypeArray
  <2>4. CASE system \/ UNCHANGED vars
    <3>1. UNCHANGED <<pc, phys_devices, file, vec, held, answer, heap, fault,
                      calls, failures>>
      BY <2>4 DEF system, Register, Unregister, Mount, Unmount, SetSlot, vars
    <3>2. Owned' = Owned /\ TypeBlocks(phys_devices)' = TypeBlocks(phys_devices)
      BY <3>1 DEF Owned, TypeBlocks, TypeArray
    <3>3. QED
      BY <3>1, <3>2 DEF HeapInv
  <2>5. CASE Call
    BY <2>1, <2>5 DEF Call, HeapInv
  <2>6. CASE Allocate
    <3>1. /\ vec' = NewArray(<<calls, "partitions", 0>>, InitialCapacity)
          /\ heap' = heap \cup {<<calls, "info", 0>>, <<calls, "partitions", 0>>}
          /\ held' = {} /\ pc = "alloc" /\ pc' = "open"
          /\ UNCHANGED <<file, answer, fault, calls, failures>>
      BY <2>6 DEF Allocate
    <3>2. /\ vec'.blk = <<calls, "partitions", 0>> /\ vec'.cblk = vec'.blk
          /\ vec'.len = 0 /\ vec'.cidx = 0 /\ vec'.cap = InitialCapacity
      BY <3>1 DEF NewArray
    <3>3. Owned' = {<<calls, "info", 0>>, <<calls, "partitions", 0>>}
      BY <3>1, <3>2 DEF Owned
    <3>4. CursorReady(vec', heap')
      BY <3>1, <3>2 DEF CursorReady
    <3>5. \A b \in heap' : b[1] <= calls
      BY <2>1, <3>1 DEF HeapInv
    <3>6. QED
      BY <3>1, <3>2, <3>3, <3>4, <3>5 DEF HeapInv
  <2>7. CASE ArrayAllocFails
    BY <2>1, <2>7 DEF ArrayAllocFails, HeapInv
  <2>8. CASE InfoAllocFails
    BY <2>1, <2>8 DEF InfoAllocFails, HeapInv
  <2>9. CASE Open \/ SkipType \/ EndOfTypes \/ SkipMount \/ LookupCrash
    <3>1. /\ UNCHANGED <<phys_devices, vec, held, answer, heap, calls, failures>>
          /\ \/ UNCHANGED <<file, fault>> /\ pc = "lines" /\ pc' \in {"lines", "scan"}
             \/ UNCHANGED <<file, fault>> /\ pc = "scan" /\ pc' = "scan"
             \/ pc' = "crashed" /\ fault' = "null_deref" /\ pc = "scan"
             \/ pc = "open" /\ pc' = "types" /\ file' /\ UNCHANGED fault
      BY <2>9 DEF Open, SkipType, EndOfTypes, SkipMount, LookupCrash
    <3>2. Owned' = Owned /\ TypeBlocks(phys_devices)' = TypeBlocks(phys_devices)
      BY <3>1 DEF Owned, TypeBlocks, TypeArray
    <3>3. QED
      BY <3>1, <3>2 DEF HeapInv
  <2>10. CASE OpenFails \/ GrowFails
    <3>1. /\ heap' = heap \ Owned
          /\ fault' = IF Owned \subseteq heap THEN fault ELSE "bad_free"
          /\ pc' = "done" /\ failures' = failures + 1
          /\ UNCHANGED <<vec, answer, calls>>
          /\ \/ pc = "open" /\ file' = file
             \/ pc = "grow" /\ file' = FALSE
      BY <2>10 DEF OpenFails, GrowFails, free_disk_partition_info
    <3>2. QED
      BY <2>1, <3>1 DEF HeapInv
  <2>11. CASE OpenTypes \/ TypesUnavailable
    <3>1. /\ pc = "types" /\ pc' \in {"lines", "scan"}
          /\ heap' \in {heap, heap \cup {TypeArray}}
          /\ UNCHANGED <<file, vec, held, answer, fault, calls>>
      BY <2>11 DEF OpenTypes, TypesUnavailable
    <3>2. Owned' = Owned
      BY <3>1 DEF Owned
    <3>3. CursorReady(vec', heap')
      BY <3>1 DEF HeapInv, CursorReady
    <3>4. failures' = 0 =>
            failures = 0 /\ heap' = heap \cup {TypeArray} /\ phys_devices' = <<>>
      BY <2>1, <2>11 DEF OpenTypes, TypesUnavailable
    <3>5. TypeBlocks(<<>>)' = {TypeArray}
      <4>1. <<>> \in Seq(FsType \cup {NULL}) /\ Len(<<>>) = 0
        OBVIOUS
      <4>2. <<>> # NULL
        BY <4>1
      <4>3. {k \in 1 .. Len(<<>>) : <<>>[k] # NULL} = {}
        BY <4>1
      <4>4. QED
        BY <3>1, <4>2, <4>3 DEF TypeBlocks, TypeArray
    <3>6. TypeArray[1] = calls /\ TypeArray[2] = "types"
      BY DEF TypeArray
    <3>7. QED
      BY <2>1, <3>1, <3>2, <3>3, <3>4, <3>5, <3>6 DEF HeapInv
  <2>12. ASSUME NEW type \in FsType \cup {NULL}, StoreType(type)
         PROVE  HeapInv'
    <3>1. /\ pc = "lines" /\ pc' = "lines"
          /\ phys_devices' = Append(phys_devices, type)
          /\ heap' = heap \cup TypeBlocks(phys_devices')
          /\ UNCHANGED <<file, vec, held, answer, fault, calls>>
          /\ failures' = failures \/ failures' = failures + 1
      BY <2>12 DEF StoreType, CopyType
    <3>2. Owned' = Owned /\ TypeBlocks(phys_devices)' = TypeBlocks(phys_devices')
      BY <3>1 DEF Owned, TypeBlocks, TypeArray
    <3>3. phys_devices # NULL => TypeBlocks(phys_devices) \subseteq TypeBlocks(phys_devices')
      <4> SUFFICES ASSUME phys_devices # NULL
                   PROVE  TypeBlocks(phys_devices) \subseteq TypeBlocks(phys_devices')
        OBVIOUS
      <4>1. /\ phys_devices \in Seq(FsType \cup {NULL})
            /\ phys_devices' \in Seq(FsType \cup {NULL})
            /\ Len(phys_devices') = Len(phys_devices) + 1
            /\ \A j \in 1 .. Len(phys_devices) : phys_devices'[j] = phys_devices[j]
        BY <3>1 DEF TypeOK
      <4>2. phys_devices' # NULL
        BY <4>1
      <4>3. {k \in 1 .. Len(phys_devices) : phys_devices[k] # NULL}
              \subseteq {k \in 1 .. Len(phys_devices') : phys_devices'[k] # NULL}
        BY <4>1
      <4>4. QED
        BY <4>2, <4>3 DEF TypeBlocks
    <3>4. CursorReady(vec', heap')
      BY <3>1 DEF HeapInv, CursorReady
    <3>5. phys_devices # NULL
      BY <3>1 DEF StoreType, Room
    <3>6. QED
      BY <2>1, <2>3, <3>1, <3>2, <3>3, <3>4, <3>5 DEF HeapInv
  <2>13. ASSUME NEW type \in FsType \cup {NULL}, TooManyTypes(type)
         PROVE  HeapInv'
    <3>1. /\ pc = "lines" /\ pc' = "scan"
          /\ phys_devices' = NULL
          /\ heap' = heap \ (TypeBlocks(phys_devices) \ {TypeArray})
          /\ UNCHANGED <<file, vec, held, answer, fault, calls>>
      BY <2>13 DEF TooManyTypes, CopyType
    <3>2. Owned' = Owned
      BY <3>1 DEF Owned
    <3>3. Owned \subseteq heap'
      BY <2>2, <2>3, <3>1 DEF HeapInv
    <3>4. vec.blk \in Owned
      BY DEF Owned
    <3>5. CursorReady(vec', heap')
      BY <3>1, <3>3, <3>4 DEF HeapInv, CursorReady
    <3>6. QED
      BY <3>1, <3>2, <3>3, <3>5 DEF HeapInv
  <2>14. CASE CopyMount
    <3>1. PICK lost \in SUBSET Strings(vec.len) :
            /\ \/ lost = {} /\ UNCHANGED failures
               \/ lost # {} /\ failures' = failures + 1
            /\ held' = held \cup (Strings(vec.len) \ lost)
            /\ heap' = heap \cup (Strings(vec.len) \ lost)
      BY <2>14 DEF CopyMount, Fail
    <3> DEFINE new == Strings(vec.len) \ lost
    <3>2. /\ pc = "scan"
          /\ fault' = IF StoreInBounds(vec, heap) THEN fault ELSE "wild_write"
          /\ vec' = Advance(vec)
          /\ pc' = IF Full(vec') THEN "grow" ELSE "scan"
          /\ UNCHANGED <<phys_devices, file, answer, calls>>
      BY <2>14 DEF CopyMount
    <3>3. \A s \in new : s[1] = calls /\ s[2] \in Field
      BY DEF Strings
    <3>4. CursorReady(vec, heap) /\ fault' = fault
      BY <3>2 DEF HeapInv, CursorReady, StoreInBounds
    <3>5. /\ vec'.blk = vec.blk /\ vec'.cblk = vec.blk /\ vec'.cap = vec.cap
          /\ vec'.len = vec.len + 1 /\ vec'.cidx = vec'.len
      <4>1. vec \in ArrayType(Block)
        BY DEF TypeOK
      <4>2. QED
        BY <2>1, <3>2, <3>4, <4>1, ArrayOps DEF CursorReady
    <3> HIDE DEF new
    <3>6. Owned' = Owned \cup new /\ heap' = heap \cup new
      BY <3>1, <3>2, <3>5 DEF Owned, new
    <3>7. pc' = "scan" => CursorReady(vec', heap')
      BY <2>1, <3>2, <3>4, <3>5, <3>6 DEF CursorReady, Full
    <3>8. pc' = "grow" => vec'.len = vec'.cap
      BY <3>2 DEF Full
    <3>9. TypeBlocks(phys_devices)' = TypeBlocks(phys_devices)
      BY <3>2 DEF TypeBlocks, TypeArray
    <3>10. \A s \in held' : s[1] = calls /\ s[2] \in Field
      BY <3>1, <3>2, <3>3 DEF HeapInv, new
    <3>11. \A b \in heap' : b[1] <= calls
      BY <2>1, <3>3, <3>6 DEF HeapInv
    <3>12. failures' = 0 => failures = 0
      BY <2>1, <3>1
    <3>13. QED
      BY <3>2, <3>4, <3>5, <3>6, <3>7, <3>8, <3>9, <3>10, <3>11, <3>12 DEF HeapInv
  <2>15. CASE Grow
    <3>1. PICK b \in {vec.blk, <<calls, "partitions", vec.blk[3] + 1>>} :
            /\ vec' = Regrow(vec, b)
            /\ heap' = (heap \ {vec.blk}) \cup {b}
      BY <2>15 DEF Grow
    <3>2. /\ pc = "grow" /\ pc' = "scan"
          /\ UNCHANGED <<phys_devices, file, held, answer, fault, calls, failures>>
      BY <2>15 DEF Grow
    <3>3. b \in Block /\ b[1] = calls /\ b[2] = "partitions"
      <4>1. CASE b = vec.blk
        BY <2>1, <3>2, <4>1 DEF HeapInv
      <4>2. CASE b = <<calls, "partitions", vec.blk[3] + 1>>
        BY <2>1, <4>2 DEF Block, Kind
      <4>3. QED
        BY <3>1, <4>1, <4>2
    <3>4. /\ vec'.blk = b /\ vec'.cblk = b /\ vec'.len = vec.len
          /\ vec'.cidx = vec.len /\ vec'.cap = 2 * vec.cap
      <4>1. vec \in ArrayType(Block)
        BY DEF TypeOK
      <4>2. LET w == Regrow(vec, b)
            IN  /\ w.blk = b /\ w.cblk = b /\ w.len = vec.len
                /\ w.cidx = vec.len /\ w.cap = 2 * vec.cap
        BY <3>3, <4>1, ArrayOps
      <4>3. QED
        BY <3>1, <4>2
    <3>5. CursorReady(vec', heap')
      <4>1. vec.len = vec.cap /\ vec.cap \in Nat /\ vec.cap > 0
        BY <3>2 DEF HeapInv, TypeOK, ArrayType
      <4>2. vec.len < 2 * vec.cap
        BY <4>1
      <4>3. QED
        BY <3>1, <3>4, <4>2 DEF CursorReady
    <3>6. /\ vec.blk \notin {<<calls, "info", 0>>} \cup held
          /\ Owned = {<<calls, "info", 0>>, vec.blk} \cup held
          /\ Owned' = {<<calls, "info", 0>>, b} \cup held
          /\ TypeBlocks(phys_devices)' = TypeBlocks(phys_devices)
      BY <3>2, <3>4 DEF HeapInv, Owned, Field, TypeBlocks, TypeArray
    <3>7. /\ Owned' \subseteq heap'
          /\ heap' \ Owned' \subseteq heap \ Owned
      BY <3>1, <3>2, <3>6 DEF HeapInv
    <3>8. ASSUME failures = 0, phys_devices # NULL
          PROVE  heap' = Owned' \cup TypeBlocks(phys_devices)
      <4>1. heap = Owned \cup TypeBlocks(phys_devices)
        BY <3>2, <3>8 DEF HeapInv
      <4>2. vec.blk \notin TypeBlocks(phys_devices)
        BY <2>3, <3>2 DEF HeapInv
      <4>3. QED
        BY <3>1, <3>6, <4>1, <4>2
    <3>9. \A x \in heap' : x[1] <= calls
      BY <2>1, <3>1, <3>3 DEF HeapInv
    <3>10. QED
      BY <2>1, <3>2, <3>3, <3>4, <3>5, <3>6, <3>7, <3>8, <3>9 DEF HeapInv
  <2>16. CASE EndOfMounts
    <3>1. CASE phys_devices = NULL /\ nphys_devices > 0
      BY <2>16, <3>1 DEF EndOfMounts, HeapInv
    <3>2. CASE ~(phys_devices = NULL /\ nphys_devices > 0)
      <4>1. /\ pc = "scan" /\ pc' = "done" /\ ~file'
            /\ answer' = entries
            /\ heap' = heap \ TypeBlocks(phys_devices)
            /\ UNCHANGED <<vec, held, fault, calls, failures>>
        BY <2>16, <3>2 DEF EndOfMounts
      <4>2. answer' # NULL
        BY <4>1 DEF TypeOK, Slot
      <4>3. Owned' = Owned
        BY <4>1 DEF Owned
      <4>4. Owned \cap TypeBlocks(phys_devices) = {}
        BY <2>2, <2>3, <4>1
      <4>5. failures = 0 => phys_devices # NULL
        BY <3>2, <4>1 DEF TypesInv
      <4>6. QED
        BY <4>1, <4>2, <4>3, <4>4, <4>5 DEF HeapInv
    <3>3. QED
      BY <3>1, <3>2
  <2>17. CASE Release
    <3>1. /\ pc = "done" /\ pc' = "idle" /\ answer' = NULL
          /\ UNCHANGED <<vec, file, calls, failures>>
          /\ IF answer = NULL
               THEN UNCHANGED <<heap, fault>>
               ELSE /\ heap' = heap \ Owned
                    /\ fault' = IF Owned \subseteq heap THEN fault ELSE "bad_free"
      BY <2>17 DEF Release, free_disk_partition_info
    <3>2. QED
      BY <3>1 DEF HeapInv
  <2>18. QED
    BY <2>4, <2>5, <2>6, <2>7, <2>8, <2>9, <2>10, <2>11, <2>12, <2>13, <2>14,
       <2>15, <2>16, <2>17 DEF Next, disk_partitions
<1>3. QED
  BY <1>1, <1>2, TypeCorrect, TypesRead, PTL DEF Spec

(* NoMemoryError and AllReleased: no store and no free touches a block     *)
(* that is not live, and what outlives a call is get_physical_devices'.    *)
THEOREM MemorySafety == Spec => []NoMemoryError /\ []AllReleased
<1>1. HeapInv => NoMemoryError /\ AllReleased
  BY DEF HeapInv, AllReleased, Holding
<1>2. QED
  BY <1>1, HeapKept, PTL

(* CrashNeedsCause: the structure could not be allocated, which is why it  *)
(* is not on the heap; the list of types was given up with its count at    *)
(* the limit; or it holds a NULL, and lfind has met it.                    *)
THEOREM CrashesExplained == Spec => []CrashNeedsCause
<1>1. Init => CrashNeedsCause
  BY DEF Init, CrashNeedsCause
<1>2. TypeOK /\ TypesInv /\ HeapInv /\ CrashNeedsCause /\ [Next]_vars
        => CrashNeedsCause'
  <2> SUFFICES ASSUME TypeOK, TypesInv, HeapInv, CrashNeedsCause, [Next]_vars,
                      pc' = "crashed"
               PROVE  CrashNeedsCause'
    BY DEF CrashNeedsCause
  <2> USE DEF Goto, given, local, devices
  <2>1. CASE InfoAllocFails
    <3>1. /\ <<calls, "info", 0>> \notin heap
          /\ heap' = heap \cup {<<calls, "partitions", 0>>} /\ UNCHANGED calls
      BY <2>1 DEF InfoAllocFails, HeapInv, Holding
    <3>2. <<calls, "info", 0>> # <<calls, "partitions", 0>>
      OBVIOUS
    <3>3. QED
      BY <3>1, <3>2 DEF CrashNeedsCause
  <2>2. CASE LookupCrash
    <3>1. /\ UNCHANGED <<phys_devices, nphys_devices, failures, physical>> /\ physical
          /\ IF phys_devices = NULL THEN nphys_devices > 0
               ELSE \E j \in 1 .. nphys_devices : phys_devices[j] = NULL
          /\ pc = "scan"
      BY <2>2 DEF LookupCrash, LookupCrashes
    <3>2. CASE phys_devices = NULL
      BY <3>1, <3>2 DEF CrashNeedsCause, TypesInv, Reading
    <3>3. CASE phys_devices # NULL
      <4>1. Len(phys_devices) = nphys_devices
        BY <3>1, <3>3 DEF TypesInv, Reading
      <4>2. \E j \in 1 .. Len(phys_devices) : phys_devices[j] = NULL
        BY <3>1, <3>3, <4>1
      <4>3. failures > 0 /\ NULL \in Elements(phys_devices)
        BY <3>1, <3>3, <4>2 DEF TypesInv, Reading, Elements, TypeOK
      <4>4. QED
        BY <3>1, <3>3, <4>3 DEF CrashNeedsCause
    <3>4. QED
      BY <3>2, <3>3
  <2>3. CASE EndOfMounts
    <3>1. /\ UNCHANGED <<phys_devices, nphys_devices>>
          /\ phys_devices = NULL /\ nphys_devices > 0 /\ pc = "scan"
      BY <2>3 DEF EndOfMounts
    <3>2. QED
      BY <3>1 DEF CrashNeedsCause, TypesInv, Reading
  <2>4. CASE UNCHANGED vars
    BY <2>4 DEF vars, CrashNeedsCause
  <2>5. QED
    BY <2>1, <2>2, <2>3, <2>4
       DEF Next, disk_partitions, system, Register, Unregister, Mount, Unmount,
           SetSlot, Call, Allocate, ArrayAllocFails, Open, OpenFails, OpenTypes,
           TypesUnavailable, SkipType, EndOfTypes, StoreType, TooManyTypes, CopyType,
           SkipMount, CopyMount, Grow, GrowFails, Release
<1>3. QED
  BY <1>1, <1>2, TypeCorrect, TypesRead, HeapKept, PTL DEF Spec
-----------------------------------------------------------------------------
(***************************************************************************)
(* What a listing says of the tables.                                      *)
(***************************************************************************)

(* PhysicalOnly: no partition of a type flagged nodev is listed when only  *)
(* physical ones are asked for, whatever fails.                            *)
THEOREM PhysicalListing == Spec => [](PhysicalOnly /\ PhysicalTypes)
<1> USE SentinelAssumption, TypesAssumption DEF Goto, given, local, devices
<1> DEFINE Inv == PhysicalOnly /\ PhysicalTypes
<1>1. Init => Inv
  BY DEF Init, PhysicalOnly, PhysicalTypes
<1>2. TypeOK /\ TypeOK' /\ Room /\ Inv /\ [Next]_vars => Inv'
  <2> SUFFICES ASSUME TypeOK, TypeOK', Room, PhysicalOnly, PhysicalTypes, [Next]_vars
               PROVE  Inv'
    OBVIOUS
  <2>1. CASE UNCHANGED <<physical, entries, phys_devices>>
    BY <2>1 DEF PhysicalOnly, PhysicalTypes, Elements
  <2>2. CASE Allocate
    BY <2>2 DEF Allocate, PhysicalOnly, PhysicalTypes, Elements
  <2>3. CASE OpenTypes
    BY <2>3 DEF OpenTypes, PhysicalOnly, PhysicalTypes, Elements
  <2>4. ASSUME NEW type \in FsType \cup {NULL}, StoreType(type)
        PROVE  Inv'
    <3>1. /\ phys_devices # NULL
          /\ phys_devices \in Seq(FsType \cup {NULL})
          /\ phys_devices' = Append(phys_devices, type)
          /\ type \notin NoDev
          /\ UNCHANGED <<physical, entries>>
      BY <2>4 DEF StoreType, CopyType, TypeOK, Room
    <3>2. Elements(phys_devices') = Elements(phys_devices) \cup {type}
      BY <3>1 DEF Elements
    <3>3. QED
      BY <3>1, <3>2 DEF PhysicalOnly, PhysicalTypes, Elements
  <2>5. ASSUME NEW type \in FsType \cup {NULL}, TooManyTypes(type)
        PROVE  Inv'
    BY <2>5 DEF TooManyTypes, CopyType, PhysicalOnly, PhysicalTypes
  <2>6. CASE CopyMount
    <3>1. /\ Wanted(mounts[pos + 1])
          /\ entries' = Append(entries, <<pos + 1, mounts[pos + 1]>>)
          /\ UNCHANGED <<physical, phys_devices>>
      BY <2>6 DEF CopyMount
    <3>2. physical => mounts[pos + 1] \notin NoDev
      BY <3>1 DEF Wanted, PhysicalTypes
    <3>3. entries \in Seq(Slot \X FsType)
      BY DEF TypeOK
    <3>4. \A j \in 1 .. Len(entries') :
            \/ j \in 1 .. Len(entries) /\ entries'[j] = entries[j]
            \/ entries'[j] = <<pos + 1, mounts[pos + 1]>>
      BY <3>1, <3>3
    <3>5. QED
      BY <3>1, <3>2, <3>4 DEF PhysicalOnly, PhysicalTypes, Elements
  <2>7. CASE Release
    BY <2>7 DEF Release, PhysicalOnly, PhysicalTypes
  <2>8. QED
    BY <2>1, <2>2, <2>3, <2>4, <2>5, <2>6, <2>7
       DEF Next, disk_partitions, system, vars, Register, Unregister, Mount,
           Unmount, SetSlot, Call, ArrayAllocFails, InfoAllocFails, Open,
           OpenFails, TypesUnavailable, SkipType, EndOfTypes, SkipMount,
           LookupCrash, Grow, GrowFails, EndOfMounts
<1>3. QED
  BY <1>1, <1>2, TypeCorrect, PTL DEF Spec

LEMMA ScanInductive == Spec => [](RegisteredInv /\ OrderInv /\ ScanInv)
<1> USE SlotAssumption, SentinelAssumption, CapacityAssumption
    DEF Goto, given, local, devices, Running, Reading, Fail
<1> DEFINE Inv == RegisteredInv /\ OrderInv /\ ScanInv
<1>1. Init => Inv
  BY DEF Init, RegisteredInv, OrderInv, ScanInv
<1>2. TypeOK /\ TypeOK' /\ Room /\ TypesInv /\ Inv /\ [Next]_vars => Inv'
  <2> SUFFICES ASSUME TypeOK, TypeOK', Room, TypesInv,
                      RegisteredInv, OrderInv, ScanInv, [Next]_vars
               PROVE  Inv'
    OBVIOUS
  <2>1. /\ mounts \in [Slot -> Content] /\ seen \in [Slot -> SUBSET Content]
        /\ filesystems \in Seq(FsType) /\ fs \in Seq(FsType)
        /\ entries \in Seq(Slot \X FsType)
        /\ pos \in 0 .. NSlots /\ failures \in Nat
    BY DEF TypeOK
  <2>2. ASSUME NEW t \in FsType, Register(t)
        PROVE  Inv'
    <3>1. Elements(filesystems) \subseteq Elements(filesystems')
      BY <2>1, <2>2 DEF Register, Elements
    <3>2. /\ RegisteredInv'
          /\ OrderInv'
      BY <2>2, <3>1 DEF Register, RegisteredInv, OrderInv
    <3>3. ScanInv'
      BY <2>2 DEF Register, ScanInv, KnownType, Elements, Shown
    <3>4. QED
      BY <3>2, <3>3
  <2>3. ASSUME NEW t \in FsType, Unregister(t)
        PROVE  Inv'
    <3>1. PICK j \in 1 .. Len(filesystems) :
            filesystems[j] = t /\ filesystems' = RemoveAt(filesystems, j)
      BY <2>3 DEF Unregister
    <3>2. Elements(filesystems) \subseteq Elements(filesystems') \cup {t}
      <4>1. \A k \in 1 .. Len(filesystems) :
              k # j => \E m \in 1 .. Len(filesystems') : filesystems'[m] = filesystems[k]
        BY <2>1, <3>1, Removal
      <4>2. QED
        BY <3>1, <4>1 DEF Elements
    <3>3. RegisteredInv' /\ OrderInv'
      BY <2>3, <3>2 DEF Unregister, RegisteredInv, OrderInv
    <3>4. ScanInv'
      BY <2>3 DEF Unregister, ScanInv, KnownType, Elements, Shown
    <3>5. QED
      BY <3>3, <3>4
  <2>4. ASSUME NEW i \in Slot, NEW c \in Content, SetSlot(i, c),
               \/ c = Unmounted
               \/ mounts[i] = Unmounted /\ c \in Elements(filesystems)
        PROVE  Inv'
    <3>1. /\ mounts' = [mounts EXCEPT ![i] = c]
          /\ seen' = IF pc \in Running THEN [seen EXCEPT ![i] = @ \cup {c}] ELSE seen
          /\ UNCHANGED <<filesystems, fs, phys_devices, pc, pos, entries, failures,
                        physical>>
      BY <2>4 DEF SetSlot
    <3>2. RegisteredInv' /\ OrderInv'
      BY <2>1, <2>4, <3>1 DEF RegisteredInv, OrderInv, Elements
    <3>3. \A k \in Slot : /\ seen[k] \subseteq seen'[k]
                          /\ pc \in Running => mounts'[k] \in seen'[k] \/ mounts'[k] = mounts[k]
      BY <2>1, <3>1
    <3>4. (pc \in Running => \A k \in Slot : mounts[k] \in seen[k])
            => (pc \in Running => \A k \in Slot : mounts'[k] \in seen'[k])
      BY <3>3
    <3>5. \A d : KnownType(d)' <=> KnownType(d)
      BY <3>1 DEF KnownType, Elements
    <3>6. ASSUME failures = 0, Reading, phys_devices # NULL, NEW k \in Slot
          PROVE  KnownType(mounts'[k]) \/ Unmounted \in seen'[k]
      <4>1. CASE k = i
        <5>1. CASE c = Unmounted
          BY <2>1, <3>1, <4>1, <5>1 DEF KnownType
        <5>2. CASE mounts[i] = Unmounted
          BY <3>3, <3>6, <4>1, <5>2 DEF ScanInv
        <5>3. QED
          BY <2>4, <5>1, <5>2
      <4>2. CASE k # i
        BY <2>1, <3>1, <3>3, <3>6, <4>2 DEF ScanInv
      <4>3. QED
        BY <4>1, <4>2
    <3>7. \A d : Shown(d)' = Shown(d)
      BY <3>1 DEF Shown
    <3>8. /\ 1 .. pos \subseteq Slot
          /\ \A j \in 1 .. Len(entries) : entries[j][1] \in Slot
      BY <2>1 DEF Slot
    <3>9. ScanInv'
      BY <3>1, <3>3, <3>4, <3>5, <3>6, <3>7, <3>8 DEF ScanInv
    <3>10. QED
      BY <3>2, <3>9
  <2>5. CASE UNCHANGED vars
    BY <2>5 DEF vars, RegisteredInv, OrderInv, ScanInv, KnownType, Elements, Shown
  <2>6. CASE Call
    <3>1. /\ pc' = "alloc" /\ seen' = [i \in Slot |-> {mounts[i]}]
          /\ UNCHANGED <<mounts, filesystems, entries>>
      BY <2>6 DEF Call
    <3>2. \A i \in Slot : mounts'[i] \in seen'[i]
      BY <3>1
    <3>3. QED
      BY <3>1, <3>2 DEF RegisteredInv, OrderInv, ScanInv, Elements
  <2>7. CASE Allocate
    BY <2>1, <2>7 DEF Allocate, RegisteredInv, OrderInv, ScanInv, Elements
  <2>8. CASE ArrayAllocFails \/ InfoAllocFails \/ OpenFails \/ GrowFails
               \/ TypesUnavailable
    <3>1. /\ failures' # 0
          /\ \/ pc' \in {"done", "crashed"}
             \/ pc = "types" /\ pc' = "scan"
          /\ UNCHANGED <<mounts, filesystems, entries, pos>>
      BY <2>1, <2>8 DEF ArrayAllocFails, InfoAllocFails, OpenFails, GrowFails,
                        TypesUnavailable
    <3>2. QED
      BY <3>1 DEF RegisteredInv, OrderInv, ScanInv, Elements
  <2>9. CASE Open
    BY <2>9 DEF Open, RegisteredInv, OrderInv, ScanInv, Elements
  <2>10. CASE OpenTypes
    <3>1. /\ pc = "types" /\ pc' = "lines" /\ fs' = filesystems
          /\ UNCHANGED <<mounts, filesystems, seen, entries, pos, failures>>
      BY <2>10 DEF OpenTypes
    <3>2. \A i \in Slot : KnownType(mounts[i])'
      BY <3>1 DEF RegisteredInv, KnownType, Elements
    <3>3. QED
      BY <3>1, <3>2 DEF RegisteredInv, OrderInv, ScanInv, Elements
  <2>11. CASE SkipType
    <3>1. /\ pc = "lines" /\ pc' = "lines"
          /\ fs # <<>> /\ Head(fs) \in NoDev /\ fs' = Tail(fs)
          /\ UNCHANGED <<mounts, filesystems, seen, entries, pos, failures,
                        phys_devices>>
      BY <2>11 DEF SkipType
    <3>2. Elements(fs) \subseteq Elements(fs') \cup {Head(fs)}
      <4>1. /\ Len(fs') = Len(fs) - 1 /\ Len(fs) \in Nat \ {0}
            /\ \A j \in 1 .. Len(fs) - 1 : fs'[j] = fs[j + 1]
            /\ Head(fs) = fs[1]
        BY <2>1, <3>1, HeadTailProperties
      <4>2. ASSUME NEW j \in 1 .. Len(fs), fs[j] # Head(fs)
            PROVE  \E k \in 1 .. Len(fs') : fs'[k] = fs[j]
        <5>1. j - 1 \in 1 .. Len(fs) - 1 /\ (j - 1) + 1 = j
          BY <4>1, <4>2
        <5>2. fs'[j - 1] = fs[j]
          BY <4>1, <5>1
        <5>3. QED
          BY <4>1, <5>1, <5>2
      <4>3. QED
        BY <4>2 DEF Elements
    <3>3. \A c : KnownType(c) => KnownType(c)'
      BY <3>1, <3>2 DEF KnownType, Elements
    <3>4. QED
      BY <3>1, <3>3 DEF RegisteredInv, OrderInv, ScanInv, Elements
  <2>12. ASSUME NEW type \in FsType \cup {NULL}, StoreType(type)
         PROVE  Inv'
    <3>1. /\ pc = "lines" /\ pc' = "lines" /\ fs # <<>>
          /\ fs' = Tail(fs) /\ phys_devices' = Append(phys_devices, type)
          /\ failures' = 0 => failures = 0 /\ type = Head(fs)
          /\ UNCHANGED <<mounts, filesystems, seen, entries, pos>>
          /\ phys_devices # NULL
      BY <2>1, <2>12 DEF StoreType, CopyType, Room
    <3>2. Elements(fs) \subseteq Elements(fs') \cup {Head(fs)}
      <4>1. /\ Len(fs') = Len(fs) - 1 /\ Len(fs) \in Nat \ {0}
            /\ \A j \in 1 .. Len(fs) - 1 : fs'[j] = fs[j + 1]
            /\ Head(fs) = fs[1]
        BY <2>1, <3>1, HeadTailProperties
      <4>2. ASSUME NEW j \in 1 .. Len(fs), fs[j] # Head(fs)
            PROVE  \E k \in 1 .. Len(fs') : fs'[k] = fs[j]
        <5>1. j - 1 \in 1 .. Len(fs) - 1 /\ (j - 1) + 1 = j
          BY <4>1, <4>2
        <5>2. fs'[j - 1] = fs[j]
          BY <4>1, <5>1
        <5>3. QED
          BY <4>1, <5>1, <5>2
      <4>3. QED
        BY <4>2 DEF Elements
    <3>3. Elements(phys_devices') = Elements(phys_devices) \cup {type}
      <4>1. phys_devices \in Seq(FsType \cup {NULL})
        BY <3>1 DEF TypeOK
      <4>2. QED
        BY <3>1, <4>1 DEF Elements
    <3>4. failures' = 0 => \A c : KnownType(c) => KnownType(c)'
      BY <3>1, <3>2, <3>3 DEF KnownType, Elements
    <3>5. QED
      BY <3>1, <3>4 DEF RegisteredInv, OrderInv, ScanInv, Elements
  <2>13. ASSUME NEW type \in FsType \cup {NULL}, TooManyTypes(type)
         PROVE  Inv'
    <3>1. /\ pc = "lines" /\ pc' = "scan"
          /\ phys_devices' = NULL
          /\ failures' = 0 => failures = 0
          /\ UNCHANGED <<mounts, filesystems, seen, entries, pos>>
      BY <2>1, <2>13 DEF TooManyTypes, CopyType
    <3>2. QED
      BY <3>1 DEF RegisteredInv, OrderInv, ScanInv, Elements
  <2>14. CASE EndOfTypes
    <3>1. /\ pc = "lines" /\ pc' = "scan" /\ fs = <<>>
          /\ UNCHANGED <<mounts, filesystems, seen, entries, pos, failures, fs,
                        phys_devices>>
      BY <2>14 DEF EndOfTypes
    <3>2. \A c : KnownType(c) => KnownType(c)'
      BY <3>1 DEF KnownType, Elements
    <3>3. QED
      BY <3>1, <3>2 DEF RegisteredInv, OrderInv, ScanInv, Elements
  <2>15. CASE SkipMount
    <3>1. /\ pc = "scan" /\ pc' = "scan" /\ pos < NSlots /\ pos' = pos + 1
          /\ UNCHANGED <<mounts, filesystems, seen, entries, failures, fs,
                        phys_devices, physical>>
          /\ mounts[pos + 1] # Unmounted => /\ ~LookupCrashes(mounts[pos + 1])
                                            /\ ~Wanted(mounts[pos + 1])
      BY <2>15 DEF SkipMount
    <3>2. failures = 0 => \E c \in seen[pos + 1] : Shown(c) = Unmounted
      <4> SUFFICES ASSUME failures = 0
                   PROVE  \E c \in seen[pos + 1] : Shown(c) = Unmounted
        OBVIOUS
      <4>1. pos + 1 \in Slot /\ mounts[pos + 1] \in seen[pos + 1]
        BY <2>1, <3>1 DEF Slot, ScanInv
      <4>2. CASE mounts[pos + 1] = Unmounted \/ Unmounted \in seen[pos + 1]
        BY <4>1, <4>2 DEF Shown
      <4>3. CASE mounts[pos + 1] # Unmounted /\ Unmounted \notin seen[pos + 1]
        <5>1. physical /\ phys_devices # NULL
                /\ mounts[pos + 1] \notin Elements(phys_devices)
          BY <3>1, <4>3 DEF LookupCrashes, Wanted, TypesInv
        <5>2. mounts[pos + 1] \in NoDev
          BY <3>1, <4>1, <4>3, <5>1 DEF ScanInv, KnownType
        <5>3. QED
          BY <4>1, <5>1, <5>2 DEF Shown
      <4>4. QED
        BY <4>2, <4>3
    <3>3. 1 .. pos' = (1 .. pos) \cup {pos'}
      BY <2>1, <3>1
    <3>4. \A c : (KnownType(c)' <=> KnownType(c)) /\ Shown(c)' = Shown(c)
      BY <3>1 DEF KnownType, Elements, Shown
    <3>5. RegisteredInv' /\ OrderInv'
      <4>1. \A j \in 1 .. Len(entries) : entries[j][1] \in Nat
        BY <2>1 DEF Slot
      <4>2. QED
        BY <2>1, <3>1, <4>1 DEF RegisteredInv, OrderInv, Elements
    <3>6. ScanInv'
      BY <3>1, <3>2, <3>3, <3>4 DEF ScanInv
    <3>7. QED
      BY <3>5, <3>6
  <2>16. CASE CopyMount
    <3> DEFINE e == <<pos + 1, mounts[pos + 1]>>
    <3>1. /\ pc = "scan" /\ pc' \in {"scan", "grow"} /\ pos < NSlots
          /\ pos' = pos + 1 /\ entries' = Append(entries, e)
          /\ failures' = 0 => failures = 0
          /\ UNCHANGED <<mounts, filesystems, seen, fs, phys_devices, physical>>
      BY <2>1, <2>16 DEF CopyMount
    <3>2. e[1] = pos' /\ e[1] \in Slot /\ e[2] = mounts[pos + 1]
      BY <2>1, <3>1 DEF Slot
    <3> HIDE DEF e
    <3>3. /\ Len(entries') = Len(entries) + 1 /\ Len(entries) \in Nat
          /\ \A j \in 1 .. Len(entries) : entries'[j] = entries[j]
          /\ entries'[Len(entries')] = e
          /\ \A j \in 1 .. Len(entries) : entries[j][1] \in Nat
      BY <2>1, <3>1 DEF Slot
    <3>4. 1 .. pos' = (1 .. pos) \cup {pos'} /\ pos \in Nat
      BY <2>1, <3>1
    <3>5. RegisteredInv'
      BY <3>1 DEF RegisteredInv, Elements
    <3>6. OrderInv'
      <4>1. \A j \in 1 .. Len(entries) : entries[j][1] < e[1]
        BY <3>1, <3>2, <3>3, <3>4 DEF OrderInv
      <4>2. ASSUME NEW j \in 1 .. Len(entries'), NEW k \in 1 .. Len(entries'), j < k
            PROVE  entries'[j][1] < entries'[k][1]
        <5>1. j \in 1 .. Len(entries)
          BY <3>3, <4>2
        <5>2. CASE k = Len(entries')
          BY <3>3, <4>1, <5>1, <5>2
        <5>3. CASE k \in 1 .. Len(entries)
          BY <3>3, <4>2, <5>1, <5>3 DEF OrderInv
        <5>4. QED
          BY <3>3, <5>2, <5>3
      <4>3. ASSUME NEW j \in 1 .. Len(entries')
            PROVE  entries'[j][1] <= pos'
        <5>1. CASE j = Len(entries')
          BY <3>2, <3>3, <3>4, <3>1, <5>1
        <5>2. CASE j \in 1 .. Len(entries)
          BY <3>2, <3>3, <3>4, <3>1, <4>1, <5>2
        <5>3. QED
          BY <3>3, <5>1, <5>2
      <4>4. QED
        BY <3>1, <4>2, <4>3 DEF OrderInv
    <3>7. \A c : (KnownType(c) => KnownType(c)') /\ Shown(c)' = Shown(c)
      BY <3>1 DEF KnownType, Elements, Shown
    <3>8. ASSUME failures = 0
          PROVE  /\ \A j \in 1 .. Len(entries') : entries'[j][2] \in seen[entries'[j][1]]
                 /\ \A i \in 1 .. pos' :
                      \/ \E c \in seen[i] : Shown(c) = Unmounted
                      \/ \E j \in 1 .. Len(entries') : entries'[j][1] = i
      <4>1. \A j \in 1 .. Len(entries') : j \in 1 .. Len(entries) \/ j = Len(entries')
        BY <3>3
      <4>2. e[2] \in seen[e[1]]
        BY <3>1, <3>2, <3>8 DEF ScanInv
      <4>3. \A j \in 1 .. Len(entries') : entries'[j][2] \in seen[entries'[j][1]]
        BY <3>1, <3>3, <3>8, <4>1, <4>2 DEF ScanInv
      <4>4. ASSUME NEW i \in 1 .. pos'
            PROVE  \/ \E c \in seen[i] : Shown(c) = Unmounted
                   \/ \E j \in 1 .. Len(entries') : entries'[j][1] = i
        <5>1. CASE i \in 1 .. pos
          <6>1. 1 .. Len(entries) \subseteq 1 .. Len(entries')
            BY <3>3
          <6>2. QED
            BY <3>1, <3>3, <3>8, <5>1, <6>1 DEF ScanInv
        <5>2. CASE i = pos'
          <6>1. Len(entries') \in 1 .. Len(entries')
            BY <3>3
          <6>2. QED
            BY <3>2, <3>3, <5>2, <6>1
        <5>3. QED
          BY <3>4, <5>1, <5>2
      <4>5. QED
        BY <4>3, <4>4
    <3>9. ScanInv'
      BY <3>1, <3>7, <3>8 DEF ScanInv
    <3>10. QED
      BY <3>5, <3>6, <3>9
  <2>17. CASE Grow \/ EndOfMounts
    <3>1. /\ \/ pc = "grow" /\ pc' = "scan"
             \/ pc' \in {"done", "crashed"}
          /\ UNCHANGED <<mounts, filesystems, seen, entries, failures, fs, pos,
                        phys_devices, physical>>
      BY <2>17 DEF Grow, EndOfMounts
    <3>2. \A c : (KnownType(c) /\ pc = "grow" => KnownType(c)') /\ Shown(c)' = Shown(c)
      BY <3>1 DEF KnownType, Elements, Shown
    <3>3. QED
      BY <3>1, <3>2 DEF RegisteredInv, OrderInv, ScanInv, Elements
  <2>18. CASE LookupCrash
    BY <2>18 DEF LookupCrash, RegisteredInv, OrderInv, ScanInv, Elements
  <2>19. CASE Release
    BY <2>19 DEF Release, RegisteredInv, OrderInv, ScanInv, Elements
  <2>20. QED
    BY <2>1, <2>2, <2>3, <2>4, <2>5, <2>6, <2>7, <2>8, <2>9, <2>10, <2>11, <2>12,
       <2>13, <2>14, <2>15, <2>16, <2>17, <2>18, <2>19
       DEF Next, disk_partitions, system, Mount, Unmount, Content
<1>3. QED
  BY <1>1, <1>2, TypeCorrect, TypesRead, PTL DEF Spec

(* RefinesScan: until something fails, a list of disk_partitions is what a *)
(* single pass over the mount table may see, although the types that live  *)
(* on a device are read before it, and may change meanwhile.               *)
THEOREM ImplementsScan == Spec => RefinesScan
<1> USE SlotAssumption, SentinelAssumption, TypesAssumption
    DEF Goto, given, local, devices, Running, Fail
<1> DEFINE step == failures' = 0 => Scan!Next
           Sound == /\ TypeOK /\ TypesInv /\ PhysicalOnly
                    /\ RegisteredInv /\ OrderInv /\ ScanInv
<1>1. Init => Scan!Init
  <2> SUFFICES ASSUME Init PROVE Scan!Init
    OBVIOUS
  <2>1. [i \in Slot |-> Shown(mounts[i])] \in [Scan!Slot -> Scan!Content]
    BY DEF Init, Shown, Scan!Slot, Scan!Content, Slot
  <2>2. [i \in Slot |-> {Shown(c) : c \in seen[i]}] = [i \in Scan!Slot |-> {}]
    BY DEF Init, Scan!Slot, Slot
  <2>3. QED
    BY <2>1, <2>2 DEF Init, Scan!Init
<1>2. Sound /\ [Next]_vars => [step]_(Scan!vars)
  <2> SUFFICES ASSUME Sound, [Next]_vars, failures' = 0
               PROVE  Scan!Next \/ UNCHANGED Scan!vars
    OBVIOUS
  <2>1. /\ failures \in Nat /\ entries \in Seq(Slot \X FsType)
        /\ mounts \in [Slot -> Content] /\ seen \in [Slot -> SUBSET Content]
        /\ pc \in Running \cup {"idle", "done", "crashed"}
    BY DEF TypeOK
  <2>2. CASE Call
    <3>1. /\ pc = "idle" /\ pc' = "alloc"
          /\ seen' = [i \in Slot |-> {mounts[i]}]
          /\ UNCHANGED <<mounts, physical, answer>>
      BY <2>2 DEF Call
    <3>2. \A c : Shown(c)' = Shown(c)
      BY <3>1 DEF Shown
    <3>3. [i \in Slot |-> {Shown(c) : c \in seen[i]}]'
            = [i \in Scan!Slot |-> {[k \in Slot |-> Shown(mounts[k])][i]}]
      BY <3>1, <3>2 DEF Scan!Slot, Slot
    <3>4. [i \in Slot |-> Shown(mounts[i])]' = [i \in Slot |-> Shown(mounts[i])]
      BY <3>1, <3>2
    <3>5. Scan!Begin
      BY <3>1, <3>3, <3>4 DEF Scan!Begin
    <3>6. QED
      BY <3>5 DEF Scan!Next
  <2>3. ASSUME UNCHANGED <<mounts, physical, seen, answer>>,
               \/ UNCHANGED pc
               \/ /\ pc \in Running \cup {"crashed"}
                  /\ pc' \in Running \cup {"crashed"}
        PROVE  UNCHANGED Scan!vars
    <3>1. \A c : Shown(c)' = Shown(c)
      BY <2>3 DEF Shown
    <3>2. /\ [i \in Slot |-> Shown(mounts[i])]' = [i \in Slot |-> Shown(mounts[i])]
          /\ [i \in Slot |-> {Shown(c) : c \in seen[i]}]'
               = [i \in Slot |-> {Shown(c) : c \in seen[i]}]
      BY <2>3, <3>1
    <3>3. QED
      BY <2>3, <3>2 DEF Scan!vars
  <2>4. CASE \/ Allocate \/ Open \/ OpenTypes \/ SkipType \/ EndOfTypes
             \/ SkipMount \/ LookupCrash \/ CopyMount \/ Grow
             \/ \E t \in FsType \cup {NULL} : StoreType(t) \/ TooManyTypes(t)
             \/ \E t \in FsType : Register(t) \/ Unregister(t)
             \/ UNCHANGED vars
    BY <2>3, <2>4 DEF Allocate, Open, OpenTypes, SkipType, EndOfTypes, SkipMount,
       LookupCrash, CopyMount, Grow, StoreType, TooManyTypes, CopyType, Register,
       Unregister, vars
  <2>5. CASE \/ ArrayAllocFails \/ InfoAllocFails \/ OpenFails \/ GrowFails
             \/ TypesUnavailable
    BY <2>1, <2>5 DEF ArrayAllocFails, InfoAllocFails, OpenFails, GrowFails,
                      TypesUnavailable
  <2>6. ASSUME NEW i \in Slot, NEW c \in Content, SetSlot(i, c)
        PROVE  Scan!Next
    <3>1. /\ pc # "crashed" /\ UNCHANGED <<pc, physical, answer>>
          /\ mounts' = [mounts EXCEPT ![i] = c]
          /\ seen' = IF pc \in Running THEN [seen EXCEPT ![i] = @ \cup {c}] ELSE seen
      BY <2>6 DEF SetSlot
    <3>2. \A d : Shown(d)' = Shown(d)
      BY <3>1 DEF Shown
    <3>3. [k \in Slot |-> Shown(mounts[k])]'
            = [[k \in Slot |-> Shown(mounts[k])] EXCEPT ![i] = Shown(c)]
      BY <2>1, <3>1, <3>2
    <3> DEFINE S == [k \in Slot |-> {Shown(d) : d \in seen[k]}]
    <3>4. S' = IF pc \in Running THEN [S EXCEPT ![i] = @ \cup {Shown(c)}] ELSE S
      <4>1. CASE pc \notin Running
        BY <3>1, <3>2, <4>1
      <4>2. CASE pc \in Running
        <5>1. seen' = [seen EXCEPT ![i] = @ \cup {c}]
          BY <3>1, <4>2
        <5>2. \A k \in Slot : S'[k] = {Shown(d) : d \in seen'[k]}
          BY <3>2
        <5>3. S'[i] = S[i] \cup {Shown(c)}
          <6>1. seen'[i] = seen[i] \cup {c}
            BY <2>1, <5>1
          <6>2. {Shown(d) : d \in seen[i] \cup {c}}
                  = {Shown(d) : d \in seen[i]} \cup {Shown(c)}
            OBVIOUS
          <6>3. S'[i] = {Shown(d) : d \in seen[i] \cup {c}}
            BY <5>2, <6>1
          <6>4. S[i] = {Shown(d) : d \in seen[i]}
            OBVIOUS
          <6> HIDE DEF S
          <6>5. QED
            BY <6>2, <6>3, <6>4
        <5>4. \A k \in Slot \ {i} : S'[k] = S[k]
          BY <2>1, <5>1, <5>2
        <5>5. S' = [k \in Slot |-> S'[k]] /\ S = [k \in Slot |-> S[k]]
          OBVIOUS
        <5> HIDE DEF S
        <5>6. S' = [S EXCEPT ![i] = @ \cup {Shown(c)}]
          BY <5>3, <5>4, <5>5
        <5>7. QED
          BY <4>2, <5>6
      <4>3. QED
        BY <4>1, <4>2
    <3>5. pc \in Running \cup {"idle", "done"} /\ pc' = pc
      BY <2>1, <3>1
    <3>6. PICK v \in Scan!Content : v = Shown(c)
      BY DEF Scan!Content, Content, Shown
    <3>7. Scan!Change(i, v)
      BY <3>1, <3>3, <3>4, <3>5, <3>6 DEF Scan!Change
    <3>8. QED
      BY <3>7 DEF Scan!Next, Scan!Slot, Slot
  <2>7. CASE EndOfMounts
    <3>1. CASE phys_devices = NULL /\ nphys_devices > 0
      <4>1. UNCHANGED <<mounts, physical, seen, answer>>
              /\ pc = "scan" /\ pc' = "crashed"
        BY <2>7, <3>1 DEF EndOfMounts
      <4>2. QED
        BY <2>3, <4>1
    <3>2. CASE ~(phys_devices = NULL /\ nphys_devices > 0)
      <4>1. /\ pc = "scan" /\ pc' = "done"
            /\ pos = NSlots /\ answer' = entries
            /\ failures = 0
            /\ UNCHANGED <<mounts, physical, seen>>
        BY <2>7, <3>2 DEF EndOfMounts
      <4> DEFINE at(i) == \E j \in 1 .. Len(entries) : entries[j][1] = i
                 shown(i) == {Shown(c) : c \in seen[i]}
                 f == [i \in Slot |->
                         IF at(i)
                           THEN entries[CHOOSE j \in 1 .. Len(entries) :
                                          entries[j][1] = i][2]
                           ELSE Unmounted]
      <4>2. \A j \in 1 .. Len(entries) :
              /\ entries[j] \in Slot \X FsType
              /\ entries[j] = <<entries[j][1], entries[j][2]>>
        BY <2>1
      <4>3. \A j \in 1 .. Len(entries) : f[entries[j][1]] = entries[j][2]
        <5> SUFFICES ASSUME NEW j \in 1 .. Len(entries)
                     PROVE  f[entries[j][1]] = entries[j][2]
          OBVIOUS
        <5> DEFINE k == CHOOSE k \in 1 .. Len(entries) : entries[k][1] = entries[j][1]
        <5>1. k \in 1 .. Len(entries) /\ entries[k][1] = entries[j][1]
          OBVIOUS
        <5>2. f[entries[j][1]] = entries[k][2]
          BY <4>2
        <5> HIDE DEF k
        <5>3. entries[j][1] \in Nat
          BY <4>2 DEF Slot
        <5>4. ~(k < j) /\ ~(j < k)
          BY <5>1, <5>3 DEF OrderInv
        <5>5. k = j
          BY <5>1, <5>4
        <5>6. QED
          BY <5>2, <5>5
      <4>4. \A i \in Slot : ~at(i) => f[i] = Unmounted
        OBVIOUS
      <4>5. \A i \in Slot : f[i] \in shown(i) /\ f[i] \in Content
        <5> SUFFICES ASSUME NEW i \in Slot
                     PROVE  f[i] \in shown(i) /\ f[i] \in Content
          OBVIOUS
        <5>1. CASE at(i)
          <6>1. PICK j \in 1 .. Len(entries) : entries[j][1] = i
            BY <5>1
          <6>2. f[i] = entries[j][2]
            BY <4>3, <6>1
          <6> HIDE DEF f
          <6>3. Shown(entries[j][2]) = entries[j][2]
            BY DEF PhysicalOnly, Shown
          <6>4. entries[j][2] \in seen[i] /\ entries[j][2] \in Content
            BY <4>1, <4>2, <6>1 DEF ScanInv, Content
          <6>5. QED
            BY <6>2, <6>3, <6>4
        <5>2. CASE ~at(i)
          <6>1. f[i] = Unmounted
            BY <4>4, <5>2
          <6> HIDE DEF f
          <6>2. i \in 1 .. pos
            BY <4>1 DEF Slot
          <6>3. \E c \in seen[i] : Shown(c) = Unmounted
            BY <4>1, <5>2, <6>2 DEF ScanInv
          <6>4. QED
            BY <6>1, <6>3 DEF Content
        <5>3. QED
          BY <5>1, <5>2
      <4>6. f \in [Slot -> Content]
        BY <4>5, Zenon
      <4> HIDE DEF f
      <4>7. {entries[j] : j \in 1 .. Len(entries)} =
              {<<i, f[i]>> : i \in {k \in Slot : f[k] # Unmounted}}
        <5> DEFINE L == {entries[j] : j \in 1 .. Len(entries)}
                   R == {<<i, f[i]>> : i \in {k \in Slot : f[k] # Unmounted}}
        <5>1. ASSUME NEW e \in L
              PROVE  e \in R
          <6>1. PICK j \in 1 .. Len(entries) : e = entries[j]
            OBVIOUS
          <6>2. e[1] \in Slot /\ f[e[1]] # Unmounted /\ e = <<e[1], f[e[1]]>>
            BY <4>2, <4>3, <6>1
          <6>3. QED
            BY <6>2
        <5>2. ASSUME NEW e \in R
              PROVE  e \in L
          <6>1. PICK i \in Slot : f[i] # Unmounted /\ e = <<i, f[i]>>
            OBVIOUS
          <6>2. PICK j \in 1 .. Len(entries) : entries[j][1] = i
            BY <4>4, <6>1
          <6>3. e = entries[j]
            BY <4>2, <4>3, <6>1, <6>2
          <6>4. QED
            BY <6>3
        <5> HIDE DEF L, R
        <5>3. L = R
          BY <5>1, <5>2
        <5>4. QED
          BY <5>3 DEF L, R
      <4>8. Scan!Lists(answer', f)
        BY <2>1, <4>1, <4>7 DEF Scan!Lists, Scan!Slot, Slot, OrderInv
      <4>9. answer' # NULL
        BY <2>1, <4>1 DEF Slot
      <4>10. \A c : Shown(c)' = Shown(c)
        BY <4>1 DEF Shown
      <4>11. /\ [i \in Slot |-> Shown(mounts[i])]' = [i \in Slot |-> Shown(mounts[i])]
             /\ [i \in Slot |-> shown(i)]' = [i \in Slot |-> shown(i)]
        BY <4>1, <4>10
      <4>12. \A i \in Scan!Slot : f[i] \in [k \in Slot |-> shown(k)][i]
        BY <4>5 DEF Scan!Slot, Slot
      <4>13. f \in [Scan!Slot -> Scan!Content]
        BY <4>6 DEF Scan!Slot, Scan!Content, Slot, Content
      <4>14. Scan!Answer
        BY <4>1, <4>8, <4>9, <4>11, <4>12, <4>13 DEF Scan!Answer
      <4>15. QED
        BY <4>14 DEF Scan!Next
    <3>3. QED
      BY <3>1, <3>2
  <2>8. CASE Release
    <3>1. /\ pc = "done" /\ pc' = "idle" /\ answer' = NULL
          /\ seen' = [i \in Slot |-> {}]
          /\ UNCHANGED <<mounts, physical>>
      BY <2>8 DEF Release
    <3>2. \A c : Shown(c)' = Shown(c)
      BY <3>1 DEF Shown
    <3>3. /\ [i \in Slot |-> Shown(mounts[i])]' = [i \in Slot |-> Shown(mounts[i])]
          /\ [i \in Slot |-> {Shown(c) : c \in seen[i]}]' = [i \in Scan!Slot |-> {}]
      BY <3>1, <3>2 DEF Scan!Slot, Slot
    <3>4. Scan!Release
      BY <3>1, <3>3 DEF Scan!Release
    <3>5. QED
      BY <3>4 DEF Scan!Next
  <2>9. QED
    BY <2>2, <2>4, <2>5, <2>6, <2>7, <2>8
       DEF Next, disk_partitions, system, Mount, Unmount, Content
<1>3. QED
  BY <1>1, <1>2, TypeCorrect, TypesRead, PhysicalListing, ScanInductive, PTL
     DEF Spec, RefinesScan
-----------------------------------------------------------------------------
(* Until something fails, disk_partitions lists whatever was mounted all   *)
(* through the call, of a physical listing what lives on a device, and     *)
(* nothing that was not mounted there during it, although it asks for the  *)
(* types before the mounts and both change.                                *)
THEOREM NoMountMissed == Spec => [](failures = 0 => MountsListed)
<1> USE SlotAssumption, SentinelAssumption, TypesAssumption
    DEF Goto, given, local, devices, Running, Fail
<1>1. Init => MountsKnown
  BY DEF Init, MountsKnown, MountsListed
<1>2. TypeOK /\ ScanInv /\ MountsKnown /\ [Next]_vars => MountsKnown'
  <2> SUFFICES ASSUME TypeOK, ScanInv, MountsKnown, [Next]_vars,
                      failures' = 0, pc' = "done"
               PROVE  MountsListed'
    BY DEF MountsKnown, MountsListed
  <2>1. failures \in Nat /\ entries \in Seq(Slot \X FsType)
    BY DEF TypeOK
  <2>2. CASE EndOfMounts
    <3>1. /\ pc = "scan" /\ pos = NSlots /\ answer' = entries /\ failures = 0
          /\ UNCHANGED <<seen, physical>>
      BY <2>2 DEF EndOfMounts
    <3>2. \A j \in 1 .. Len(entries) : entries[j][2] \in seen[entries[j][1]]
      BY <3>1 DEF ScanInv
    <3>3. ASSUME NEW i \in Slot, NEW t \in FsType, seen[i] = {t}, Shown(t) = t
          PROVE  \E j \in 1 .. Len(entries) : entries[j] = <<i, t>>
      <4>1. i \in 1 .. pos /\ ~(\E c \in seen[i] : Shown(c) = Unmounted)
        BY <3>1, <3>3 DEF Slot
      <4>2. PICK j \in 1 .. Len(entries) : entries[j][1] = i
        BY <3>1, <4>1 DEF ScanInv
      <4>3. entries[j][2] = t /\ entries[j] = <<entries[j][1], entries[j][2]>>
        BY <2>1, <3>2, <3>3, <4>2
      <4> QED
        BY <4>2, <4>3
    <3>4. \A c : Shown(c)' = Shown(c)
      BY <3>1 DEF Shown
    <3> QED
      BY <3>1, <3>2, <3>3, <3>4 DEF MountsListed
  <2>3. ASSUME UNCHANGED <<pc, answer, seen, physical>>, failures = 0
        PROVE  MountsListed'
    <3>1. \A c : Shown(c)' = Shown(c)
      BY <2>3 DEF Shown
    <3> QED
      BY <2>3, <3>1 DEF MountsListed, MountsKnown
  <2>4. ASSUME NEW i \in Slot, NEW c \in Content, SetSlot(i, c)
        PROVE  MountsListed'
    <3>1. UNCHANGED <<pc, answer, seen, physical, failures>>
      BY <2>4 DEF SetSlot
    <3> QED
      BY <2>3, <3>1
  <2>5. CASE \/ \E t \in FsType : Register(t) \/ Unregister(t)
             \/ UNCHANGED vars
    BY <2>3, <2>5 DEF Register, Unregister, vars
  <2>6. ASSUME \/ Call \/ Allocate \/ Open \/ OpenTypes \/ SkipType \/ EndOfTypes
               \/ SkipMount \/ LookupCrash \/ CopyMount \/ Grow \/ Release
        PROVE  pc' # "done"
    BY <2>6 DEF Call, Allocate, Open, OpenTypes, SkipType, EndOfTypes, SkipMount,
                LookupCrash, CopyMount, Grow, Release
  <2>7. \A t \in FsType \cup {NULL} : StoreType(t) \/ TooManyTypes(t) => pc' # "done"
    BY DEF StoreType, TooManyTypes
  <2>8. ~(ArrayAllocFails \/ InfoAllocFails \/ OpenFails \/ GrowFails \/ TypesUnavailable)
    BY <2>1 DEF ArrayAllocFails, InfoAllocFails, OpenFails, GrowFails, TypesUnavailable
  <2>9. CASE disk_partitions
    <3>1. \/ EndOfMounts
          \/ \/ Call \/ Allocate \/ Open \/ OpenTypes \/ SkipType \/ EndOfTypes
             \/ SkipMount \/ LookupCrash \/ CopyMount \/ Grow \/ Release
          \/ \E t \in FsType \cup {NULL} : StoreType(t) \/ TooManyTypes(t)
          \/ ArrayAllocFails \/ InfoAllocFails \/ OpenFails \/ GrowFails \/ TypesUnavailable
      BY <2>9, Zenon DEF disk_partitions
    <3> QED
      BY <2>2, <2>6, <2>7, <2>8, <3>1
  <2>10. CASE system
    BY <2>4, <2>5, <2>10 DEF system, Mount, Unmount, Content
  <2> QED
    BY <2>5, <2>9, <2>10 DEF Next
<1> QED
  BY <1>1, <1>2, TypeCorrect, ScanInductive, PTL DEF Spec, MountsKnown
=============================================================================
