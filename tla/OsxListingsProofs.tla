------------------------- MODULE OsxListingsProofs -------------------------
(***************************************************************************)
(* What OsxListings guarantees for every set of members, table size,       *)
(* slack, and number of calls, changes and failures.                       *)
(***************************************************************************)
EXTENDS OsxListings, SequenceTheorems, FiniteSetTheorems, TLAPS

Distinct(s) == \A j, k \in 1 .. Len(s) : j < k => s[j] # s[k]

InCall == pc \in {"alloc", "size", "fill", "mount", "disk", "done"}
Copying == pc \in {"mount", "disk"}
\* Each function has its own loop
Mode ==
  /\ pc = "fill" => fn # "disks"
  /\ pc = "mount" => fn \in {"mounts", "physical"}
  /\ pc = "disk" => fn = "disks"

Full == fn \in {"mounts", "net"}

\* During a call, stayed and seen bound the list from both sides.  If nothing
\* has come or gone they are equal, and the buffer sized for the list fits it.
ListInv ==
  /\ Distinct(list)
  /\ IsFiniteSet(seen)
  /\ stayed \subseteq Elements(list) /\ Elements(list) \subseteq seen
  /\ pc = "fill" /\ stayed = seen => Len(list) <= room

\* What stayed is among the entries the buffer has room for, because whatever
\* joins the list does so behind it; then it is in the copy.
CopyInv ==
  /\ pc = "fill" => \A o \in stayed :
                      \E k \in 1 .. Len(list) : k <= room /\ list[k] = o
  /\ Copying =>
       /\ Distinct(snap)
       /\ stayed \subseteq Elements(snap) /\ Elements(snap) \subseteq seen
       /\ Distinct(entries)
       /\ \A j \in 1 .. Len(entries) :
            /\ \E k \in 1 .. pos : snap[k] = entries[j]
            /\ Full \/ entries[j] \in Wanted
       /\ \A k \in 1 .. pos :
            (Full \/ snap[k] \in Wanted) => snap[k] \in Elements(entries)

\* The call has failed only for a reason
CauseInv ==
  /\ fault # "none" => pc = "crashed"
  /\ pc # "done" => answer = NULL
  /\ pc \in {"alloc", "size", "fill"} => entries = <<>>
  /\ pc = "done" /\ answer = NULL /\ fn = "net" => failures > 0

\* A block that nobody will free: a reference of a disk_io_counters, which is
\* lost only if something failed, a disk came or left, or is of another class
Lost(b) ==
  /\ b[2] \in Ref \cup {"disk_list"}
  /\ b[1] = calls =>
       /\ fn = "disks"
       /\ failures = 0 /\ stayed = seen => \E o \in seen : o \notin Wanted

\* The inductive invariant for the heap: who frees which block
Accounted(b) ==
  /\ b[1] <= calls
  /\ \/ pc = "crashed"
     \/ Lost(b)
     \/ /\ pc \in {"size", "fill", "mount", "disk"} /\ b \in Owned(Len(entries))
        /\ pc = "size" /\ fn = "disks" => b \in Blocks({"info"})
     \/ pc \in {"fill", "mount"} /\ b \in Blocks({"buffer"})
     \/ pc = "disk" /\ b \in Blocks({"disk_list"})
     \/ pc = "done" /\ answer # NULL /\ b \in Owned(Len(answer))
     \/ pc = "done" /\ answer = NULL /\ fn = "net" /\ b[2] = "info"
HeapInv == \A b \in heap : Accounted(b)

(***************************************************************************)
(* Facts about sequences.                                                  *)
(***************************************************************************)
LEMMA Appended ==
  ASSUME NEW S, NEW s \in Seq(S), NEW o \in S
  PROVE  /\ Append(s, o) \in Seq(S) /\ Len(Append(s, o)) = Len(s) + 1
         /\ Elements(Append(s, o)) = Elements(s) \cup {o}
         /\ Distinct(s) /\ o \notin Elements(s) => Distinct(Append(s, o))
<1> DEFINE t == Append(s, o)
<1>1. /\ Len(s) \in Nat /\ t \in Seq(S) /\ Len(t) = Len(s) + 1
      /\ \A k \in 1 .. Len(s) : t[k] = s[k]
      /\ t[Len(s) + 1] = o
  OBVIOUS
<1> HIDE DEF t
<1>2. Elements(t) = Elements(s) \cup {o}
  BY <1>1 DEF Elements
<1>3. ASSUME Distinct(s), o \notin Elements(s)
      PROVE  Distinct(t)
  <2> SUFFICES ASSUME NEW j \in 1 .. Len(t), NEW k \in 1 .. Len(t), j < k
               PROVE  t[j] # t[k]
    BY DEF Distinct
  <2>1. CASE k = Len(s) + 1
    BY <1>1, <1>3, <2>1 DEF Elements
  <2>2. CASE k # Len(s) + 1
    BY <1>1, <1>3, <2>2 DEF Distinct
  <2>3. QED
    BY <2>1, <2>2
<1>4. QED
  BY <1>1, <1>2, <1>3 DEF t

LEMMA Removed ==
  ASSUME NEW S, NEW s \in Seq(S), NEW j \in 1 .. Len(s)
  PROVE  /\ RemoveAt(s, j) \in Seq(S)
         /\ Len(RemoveAt(s, j)) = Len(s) - 1
         /\ \A k \in 1 .. Len(s) - 1 :
              RemoveAt(s, j)[k] = IF k < j THEN s[k] ELSE s[k + 1]
         /\ Distinct(s) => /\ Distinct(RemoveAt(s, j))
                           /\ Elements(RemoveAt(s, j)) = Elements(s) \ {s[j]}
<1> DEFINE a == SubSeq(s, 1, j - 1)
           b == SubSeq(s, j + 1, Len(s))
           t == RemoveAt(s, j)
<1>1. a \in Seq(S) /\ Len(a) = j - 1 /\ \A k \in 1 .. j - 1 : a[k] = s[k]
  OBVIOUS
<1>2. /\ b \in Seq(S)
      /\ Len(b) = Len(s) - j
      /\ \A k \in 1 .. Len(s) - j : b[k] = s[k + j]
  OBVIOUS
<1>3. t = a \o b
  BY DEF RemoveAt
<1> HIDE DEF a, b, t
<1>4. /\ a \o b \in Seq(S)
      /\ Len(a \o b) = Len(a) + Len(b)
      /\ \A k \in 1 .. Len(a) + Len(b) :
           (a \o b)[k] = IF k <= Len(a) THEN a[k] ELSE b[k - Len(a)]
  BY <1>1, <1>2, ConcatProperties
<1>5. /\ t \in Seq(S) /\ Len(t) = Len(s) - 1
      /\ \A k \in 1 .. Len(s) - 1 : t[k] = IF k < j THEN s[k] ELSE s[k + 1]
  <2>1. /\ j \in Nat /\ Len(s) \in Nat /\ 1 <= j /\ j <= Len(s)
        /\ Len(a) = j - 1 /\ Len(b) = Len(s) - j
    BY <1>1, <1>2
  <2>2. t \in Seq(S) /\ Len(t) = Len(s) - 1
    BY <1>3, <1>4, <2>1
  <2>3. ASSUME NEW k \in 1 .. Len(s) - 1, k < j
        PROVE  t[k] = s[k]
    <3>1. k \in 1 .. Len(a) + Len(b) /\ k <= Len(a) /\ k \in 1 .. j - 1
      BY <2>1, <2>3
    <3>2. QED
      BY <1>1, <1>3, <1>4, <3>1
  <2>4. ASSUME NEW k \in 1 .. Len(s) - 1, ~(k < j)
        PROVE  t[k] = s[k + 1]
    <3>1. /\ k \in 1 .. Len(a) + Len(b) /\ ~(k <= Len(a))
          /\ k - Len(a) \in 1 .. Len(s) - j /\ (k - Len(a)) + j = k + 1
      BY <2>1, <2>4
    <3>2. t[k] = b[k - Len(a)] /\ b[k - Len(a)] = s[(k - Len(a)) + j]
      BY <1>2, <1>3, <1>4, <3>1
    <3>3. QED
      BY <3>1, <3>2
  <2>5. QED
    BY <2>2, <2>3, <2>4
<1>6. ASSUME Distinct(s)
      PROVE  Distinct(t) /\ Elements(t) = Elements(s) \ {s[j]}
  <2>1. Distinct(t)
    BY <1>5, <1>6 DEF Distinct
  <2>2. ASSUME NEW x \in Elements(t)
        PROVE  x \in Elements(s) /\ x # s[j]
    <3>1. PICK k \in 1 .. Len(s) - 1 : x = t[k]
      BY <1>5 DEF Elements
    <3>2. CASE k < j
      <4>1. x = s[k] /\ k \in 1 .. Len(s)
        BY <1>5, <3>1, <3>2
      <4>2. QED
        BY <1>6, <3>2, <4>1 DEF Elements, Distinct
    <3>3. CASE k >= j
      <4>1. x = s[k + 1] /\ k + 1 \in 1 .. Len(s) /\ j < k + 1
        BY <1>5, <3>1, <3>3
      <4>2. QED
        BY <1>6, <4>1 DEF Elements, Distinct
    <3>4. QED
      BY <3>2, <3>3
  <2>3. ASSUME NEW x \in Elements(s), x # s[j]
        PROVE  x \in Elements(t)
    <3>1. PICK k \in 1 .. Len(s) : x = s[k]
      BY DEF Elements
    <3>2. CASE k < j
      <4>1. k \in 1 .. Len(t) /\ t[k] = x
        BY <1>5, <3>1, <3>2
      <4>2. QED
        BY <4>1 DEF Elements
    <3>3. CASE k > j
      <4>1. k - 1 \in 1 .. Len(t) /\ t[k - 1] = x
        BY <1>5, <3>1, <3>3
      <4>2. QED
        BY <4>1 DEF Elements
    <3>4. QED
      BY <2>3, <3>1, <3>2, <3>3
  <2>4. QED
    BY <2>1, <2>2, <2>3
<1>7. QED
  BY <1>5, <1>6 DEF t

LEMMA DistinctFits ==
  ASSUME NEW S, NEW s \in Seq(S), Distinct(s),
         NEW T, IsFiniteSet(T), Elements(s) \subseteq T
  PROVE  Len(s) <= Cardinality(T)
<1> DEFINE f == [k \in 1 .. Len(s) |-> s[k]]
<1>1. Len(s) \in Nat /\ Cardinality(1 .. Len(s)) = Len(s)
  <2>1. 1 \in Int /\ Len(s) \in Int /\ Len(s) >= 0
    OBVIOUS
  <2>2. Cardinality(1 .. Len(s)) = IF 1 > Len(s) THEN 0 ELSE Len(s) - 1 + 1
    BY <2>1, FS_Interval
  <2>3. QED
    BY <2>1, <2>2
<1>2. f \in Injection(1 .. Len(s), T)
  BY DEF Injection, IsInjective, Elements, Distinct
<1>3. QED
  BY <1>1, <1>2, FS_Injection

LEMMA ElementsFinite ==
  ASSUME NEW S, NEW s \in Seq(S)
  PROVE  IsFiniteSet(Elements(s))
<1> DEFINE f == [k \in 1 .. Len(s) |-> s[k]]
<1>1. IsFiniteSet(1 .. Len(s))
  BY FS_Interval
<1>2. f \in Surjection(1 .. Len(s), Elements(s))
  BY DEF Surjection, Elements
<1>3. QED
  BY <1>1, <1>2, FS_Surjection
-----------------------------------------------------------------------------
(***************************************************************************)
(* TypeOK is inductive.                                                    *)
(***************************************************************************)

(* TypeOK: the list, the copy, the entries and the heap keep their types,  *)
(* and no table of counters is filled beyond its size, since it is the     *)
(* loop for mounts, which enlarges its table, that does not look.          *)
THEOREM TypeCorrect == Spec => [](TypeOK /\ Mode)
<1> USE SizeAssumption DEF Goto, Fail, Crash, system, iterator, At, Mode
<1> DEFINE Inv == TypeOK /\ Mode
<1>1. Init => Inv
  BY DEF Init, TypeOK
<1>2. Inv /\ [Next]_vars => Inv'
  <2> SUFFICES ASSUME TypeOK, Mode, [Next]_vars
               PROVE  Inv'
    OBVIOUS
  <2> DEFINE B == Nat \X Kind \X Nat
  <2>1. /\ \A kinds \in SUBSET Kind : Blocks(kinds) \subseteq B
        /\ \A n \in Nat : Strings(n) \subseteq B
        /\ \A n \in Nat : Refs({"disk", "parent"}, n) \subseteq B /\ Refs(Ref, n) \subseteq B
    <3>1. calls \in Nat
      BY DEF TypeOK
    <3>2. Ref \subseteq Kind /\ {"disk", "parent"} \subseteq Ref /\ "strings" \in Kind
      BY DEF Ref, Kind
    <3>3. QED
      BY <3>1, <3>2 DEF Blocks, Strings, Refs
  <2>2. ASSUME NEW o \in Object, Join(o)
        PROVE  Inv'
    BY <2>2 DEF TypeOK, Join
  <2>3. ASSUME NEW o \in Object, Leave(o)
        PROVE  Inv'
    <3>1. PICK j \in 1 .. Len(list) : list' = RemoveAt(list, j)
      BY <2>3 DEF Leave
    <3>2. list' \in Seq(Object)
      BY <3>1, Removed DEF TypeOK
    <3>3. /\ UNCHANGED <<pc, fn, room, iterator, entries, answer, heap, fault, calls,
                         failures, seen>>
          /\ stayed' \subseteq stayed /\ changes' = changes + 1
      BY <2>3 DEF Leave
    <3>4. QED
      BY <3>2, <3>3 DEF TypeOK
  <2>4. ASSUME NEW f \in {"mounts", "physical", "disks", "net"}, Call(f)
        PROVE  Inv'
    <3>1. Elements(list) \subseteq Object
      BY DEF TypeOK, Elements
    <3>2. QED
      BY <2>4, <3>1 DEF TypeOK, Call
  <2>5. CASE Allocate
    BY <2>1, <2>5 DEF TypeOK, Allocate, Kind
  <2>6. CASE InfoAllocFails
    BY <2>1, <2>6 DEF TypeOK, InfoAllocFails, Kind
  <2>7. CASE TableAllocFails
    BY <2>1, <2>7 DEF TypeOK, TableAllocFails, Kind
  <2>8. CASE Size
    <3>1. room' \in Nat
      BY <2>8 DEF TypeOK, Size, SizeNow
    <3>2. heap' \subseteq B
      BY <2>1, <2>8 DEF TypeOK, Size, Kind
    <3>3. QED
      BY <2>8, <3>1, <3>2 DEF TypeOK, Size
  <2>9. CASE FillMounts
    <3>1. snap' \in Seq(Object)
      BY <2>9 DEF TypeOK, FillMounts
    <3>2. QED
      BY <2>9, <3>1 DEF TypeOK, FillMounts
  <2>10. CASE SkipMount \/ MountsFail
    <3>1. CASE SkipMount
      <4>1. pos' \in 0 .. Len(snap)
        BY <3>1 DEF TypeOK, SkipMount
      <4>2. QED
        BY <3>1, <4>1 DEF TypeOK, SkipMount
    <3>2. CASE MountsFail
      <4>1. heap' \subseteq B
        BY <3>2 DEF TypeOK, MountsFail
      <4>2. QED
        BY <3>2, <4>1 DEF TypeOK, MountsFail
    <3>3. QED
      BY <2>10, <3>1, <3>2
  <2>11. CASE CopyMount
    <3>1. Member \in Object /\ pos + 1 \in 0 .. Len(snap)
      BY <2>11 DEF TypeOK, CopyMount, Member
    <3>2. /\ entries \in Seq(Object) /\ Len(entries) + 1 \in Nat
          /\ Append(entries, Member) \in Seq(Object)
          /\ Len(Append(entries, Member)) = Len(entries) + 1
      BY <3>1 DEF TypeOK
    <3>3. heap' \subseteq B
      BY <2>1, <2>11, <3>2 DEF TypeOK, CopyMount
    <3>4. QED
      BY <2>11, <3>1, <3>2, <3>3 DEF TypeOK, CopyMount
  <2>12. CASE EndOfMounts \/ EndOfDisks
    BY <2>12 DEF TypeOK, EndOfMounts, EndOfDisks, Answer
  <2>13. CASE FillInterfaces
    BY <2>1, <2>13 DEF TypeOK, FillInterfaces, Answer
  <2>14. CASE InterfacesOverrun \/ InterfacesFail
    <3>1. /\ UNCHANGED <<system, fn, room, iterator, entries, answer, calls>>
          /\ pc' = "crashed" /\ fault' \in {"wild_write", "double_free"}
          /\ heap' \subseteq heap
          /\ failures' = failures \/ failures' = failures + 1
      BY <2>14 DEF InterfacesOverrun, InterfacesFail
    <3>2. QED
      BY <3>1 DEF TypeOK
  <2>15. CASE MatchServices
    <3>1. heap' \subseteq B
      BY <2>1, <2>15 DEF TypeOK, MatchServices, Kind
    <3>2. QED
      BY <2>15, <3>1 DEF TypeOK, MatchServices
  <2>16. CASE MatchFails
    <3>1. /\ UNCHANGED <<system, fn, room, iterator, entries, answer, fault, calls>>
          /\ pc' = "done" /\ failures' = failures + 1
      BY <2>16 DEF MatchFails
    <3>2. PICK lost \in {{}, {"disk_list"}} :
            heap' = (heap \ Blocks({"info"})) \cup Blocks(lost)
      BY <2>16 DEF MatchFails
    <3>3. Blocks(lost) \subseteq B
      BY <2>1, <3>2 DEF Kind
    <3>4. heap' \subseteq B
      BY <3>2, <3>3 DEF TypeOK
    <3>5. QED
      BY <3>1, <3>4 DEF TypeOK
  <2>17. CASE SkipDisk
    BY <2>1, <2>17 DEF TypeOK, SkipDisk
  <2>18. CASE CopyDisk
    <3>1. Member \in Object /\ pos + 1 \in 0 .. Len(snap)
      BY <2>18 DEF TypeOK, CopyDisk, Member
    <3>2. /\ entries \in Seq(Object) /\ Len(entries) + 1 \in Nat
          /\ Append(entries, Member) \in Seq(Object)
          /\ Len(Append(entries, Member)) = Len(entries) + 1
      BY <3>1 DEF TypeOK
    <3>3. heap' \subseteq B
      BY <2>1, <2>18, <3>2 DEF TypeOK, CopyDisk
    <3>4. entries' \in Seq(Object) /\ Len(entries') <= TableSize
      <4>1. fn = "disks" /\ Len(entries) <= TableSize /\ TableSize \in Nat
        BY <2>18 DEF TypeOK, CopyDisk
      <4>2. \/ entries' = entries
            \/ entries' = Append(entries, Member) /\ Len(entries) < TableSize
        BY <2>18 DEF CopyDisk
      <4>3. QED
        BY <3>2, <4>1, <4>2
    <3>5. pc' \in {"disk", "crashed"} /\ fault' \in {fault, "wild_write"}
      BY <2>18 DEF CopyDisk
    <3>6. /\ UNCHANGED <<list, changes, stayed, seen, fn, room, snap, answer, calls,
                         failures>>
          /\ pos' = pos + 1
      BY <2>18 DEF CopyDisk
    <3>7. /\ fn = "disks"
          /\ fault' \in {"none", "null_deref", "wild_write", "double_free"}
          /\ pc' \in {"idle", "alloc", "size", "fill", "mount", "disk", "done", "crashed"}
      <4>1. fn = "disks"
        BY <2>18 DEF CopyDisk
      <4>2. QED
        BY <3>5, <4>1 DEF TypeOK
    <3>8. TypeOK'
      BY <3>1, <3>3, <3>4, <3>6, <3>7 DEF TypeOK
    <3>9. QED
      BY <3>5, <3>6, <3>7, <3>8
  <2>19. CASE DiskFails
    <3>1. failures' \in Nat
      BY <2>19 DEF TypeOK, DiskFails, Unavailable
    <3>2. pos + 1 \in Nat
      BY DEF TypeOK
    <3>3. heap' \subseteq B
      <4>1. PICK lost \in {{}, Ref} :
              heap' = (heap \ Owned(Len(entries))) \cup Refs(lost, pos + 1)
        BY <2>19 DEF DiskFails
      <4>2. Refs(lost, pos + 1) \subseteq B
        BY <2>1, <3>2, <4>1 DEF Refs
      <4>3. QED
        BY <4>1, <4>2 DEF TypeOK
    <3>4. QED
      BY <2>19, <3>1, <3>3 DEF TypeOK, DiskFails
  <2>20. CASE ParentFails \/ NamelessDisk
    <3>1. failures' \in Nat
      BY <2>20 DEF TypeOK, ParentFails, NamelessDisk, Unavailable
    <3>2. QED
      BY <2>20, <3>1 DEF TypeOK, ParentFails, NamelessDisk
  <2>21. CASE Release
    BY <2>21 DEF TypeOK, Release
  <2>22. CASE UNCHANGED vars
    BY <2>22 DEF TypeOK, vars
  <2>23. QED
    BY <2>2, <2>3, <2>4, <2>5, <2>6, <2>7, <2>8, <2>9, <2>10, <2>11, <2>12,
       <2>13, <2>14, <2>15, <2>16, <2>17, <2>18, <2>19, <2>20, <2>21, <2>22
       DEF Next, library
<1>3. QED
  BY <1>1, <1>2, PTL DEF Spec
-----------------------------------------------------------------------------
(***************************************************************************)
(* The list and its copy.                                                  *)
(***************************************************************************)

(* ListInv, CauseInv and CopyInv: from its start, a call knows the list    *)
(* from below by stayed and from above by seen.  The copy has what stayed  *)
(* because the buffer was sized for it and newcomers queue behind it.      *)
LEMMA ListCopied == Spec => [](ListInv /\ CauseInv /\ CopyInv)
<1> USE DEF Goto, Fail, Crash, system, iterator, At, InCall, Copying, Full
<1> DEFINE Inv == ListInv /\ CauseInv /\ CopyInv
           Types == TypeOK /\ Mode
<1>1. Init => Inv
  <2>1. IsFiniteSet({}) /\ Distinct(<<>>) /\ Elements(<<>>) = {}
    BY FS_EmptySet DEF Distinct, Elements
  <2>2. QED
    BY <2>1 DEF Init, ListInv, CauseInv, CopyInv
<1>2. Inv /\ Types /\ Types' /\ [Next]_vars => Inv'
  <2> SUFFICES ASSUME ListInv, CauseInv, CopyInv, TypeOK, Mode, TypeOK', [Next]_vars
               PROVE  Inv'
    OBVIOUS
  <2>1. ASSUME NEW o \in Object, Join(o)
        PROVE  Inv'
    <3>1. /\ list \in Seq(Object) /\ Len(list) \in Nat
          /\ o \notin Elements(list) /\ Distinct(list) /\ list' = Append(list, o)
      BY <2>1 DEF TypeOK, Join, ListInv
    <3>2. Distinct(list') /\ Elements(list') = Elements(list) \cup {o}
      BY <3>1, Appended
    <3>3. IsFiniteSet(seen')
      BY <2>1, FS_AddElement DEF Join, ListInv
    <3>4. ASSUME pc = "fill", stayed' = seen'
          PROVE  Len(list') <= room'
      BY <2>1, <3>1, <3>4 DEF Join, ListInv
    <3>5. ListInv'
      BY <2>1, <3>2, <3>3, <3>4 DEF ListInv, Join
    <3>6. CauseInv'
      BY <2>1 DEF CauseInv, Join
    <3>7. ASSUME pc = "fill", NEW p \in stayed
          PROVE  \E k \in 1 .. Len(list') : k <= room /\ list'[k] = p
      BY <3>1, <3>7 DEF CopyInv
    <3>8. CopyInv'
      BY <2>1, <3>7 DEF CopyInv, Join
    <3>9. QED
      BY <3>5, <3>6, <3>8
  <2>2. ASSUME NEW o \in Object, Leave(o)
        PROVE  Inv'
    <3>1. PICK j \in 1 .. Len(list) : list[j] = o /\ list' = RemoveAt(list, j)
      BY <2>2 DEF Leave
    <3>2. /\ list \in Seq(Object) /\ Len(list) \in Nat /\ room \in Nat
          /\ Distinct(list) /\ o \in Elements(list)
      <4>1. list \in Seq(Object) /\ Len(list) \in Nat /\ room \in Nat
        BY DEF TypeOK
      <4>2. Distinct(list)
        BY DEF ListInv
      <4>3. QED
        BY <3>1, <4>1, <4>2 DEF Elements
    <3>3. /\ Distinct(list') /\ Elements(list') = Elements(list) \ {o}
          /\ Len(list') = Len(list) - 1
          /\ \A k \in 1 .. Len(list) - 1 :
               list'[k] = IF k < j THEN list[k] ELSE list[k + 1]
      <4>1. /\ Len(RemoveAt(list, j)) = Len(list) - 1
            /\ \A k \in 1 .. Len(list) - 1 :
                 RemoveAt(list, j)[k] = IF k < j THEN list[k] ELSE list[k + 1]
        BY <3>2, Removed
      <4>2. /\ Distinct(RemoveAt(list, j))
            /\ Elements(RemoveAt(list, j)) = Elements(list) \ {list[j]}
        BY <3>2, Removed
      <4>3. QED
        BY <3>1, <4>1, <4>2
    <3>4. ListInv'
      <4>1. /\ UNCHANGED <<pc, room, seen>> /\ stayed' = stayed \ {o}
        BY <2>2 DEF Leave
      <4>2. /\ IsFiniteSet(seen')
            /\ stayed' \subseteq Elements(list') /\ Elements(list') \subseteq seen'
        BY <3>3, <4>1 DEF ListInv
      <4>3. ASSUME pc' = "fill", stayed' = seen'
            PROVE  Len(list') <= room'
        <5>1. o \in seen
          BY <3>2 DEF ListInv
        <5>2. QED
          BY <4>1, <4>3, <5>1
      <4>4. QED
        BY <3>3, <4>2, <4>3 DEF ListInv
    <3>5. CauseInv'
      BY <2>2 DEF CauseInv, Leave
    <3>6. ASSUME pc = "fill", NEW p \in stayed'
          PROVE  \E k \in 1 .. Len(list') : k <= room /\ list'[k] = p
      <4>1. p \in stayed /\ p # o
        BY <2>2, <3>6 DEF Leave
      <4>2. PICK k \in 1 .. Len(list) : k <= room /\ list[k] = p
        BY <3>6, <4>1 DEF CopyInv
      <4>3. CASE k < j
        <5>1. k \in 1 .. Len(list') /\ list'[k] = p
          BY <3>2, <3>3, <4>2, <4>3
        <5>2. QED
          BY <4>2, <5>1
      <4>4. CASE k > j
        <5>1. k - 1 \in 1 .. Len(list') /\ k - 1 <= room /\ list'[k - 1] = p
          BY <3>2, <3>3, <4>2, <4>4
        <5>2. QED
          BY <5>1
      <4>5. QED
        BY <3>1, <4>1, <4>2, <4>3, <4>4
    <3>7. CopyInv'
      BY <2>2, <3>6 DEF CopyInv, Leave
    <3>8. QED
      BY <3>4, <3>5, <3>7
  <2>3. ASSUME NEW f \in {"mounts", "physical", "disks", "net"}, Call(f)
        PROVE  Inv'
    <3>1. IsFiniteSet(Elements(list))
      BY ElementsFinite DEF TypeOK
    <3>2. QED
      BY <2>3, <3>1 DEF ListInv, CauseInv, CopyInv, Call
  <2>4. CASE Allocate \/ InfoAllocFails \/ TableAllocFails
    <3>1. /\ UNCHANGED <<list, stayed, seen, entries, answer>>
          /\ pc = "alloc" /\ pc' \in {"size", "done", "crashed"}
          /\ fault' # "none" => pc' = "crashed"
          /\ pc' = "done" => failures' > 0
      BY <2>4 DEF Allocate, InfoAllocFails, TableAllocFails, TypeOK, CauseInv
    <3>2. QED
      BY <3>1 DEF ListInv, CauseInv, CopyInv
  <2>5. CASE Size
    <3>1. /\ Len(list) \in Nat /\ Len(list) <= room'
          /\ UNCHANGED <<list, stayed, seen, entries, answer, fault, failures>>
          /\ pc = "size" /\ pc' = "fill"
      BY <2>5, SizeAssumption DEF Size, SizeNow, TypeOK
    <3>2. ListInv' /\ CauseInv'
      BY <3>1 DEF ListInv, CauseInv
    <3>3. ASSUME NEW p \in stayed
          PROVE  \E k \in 1 .. Len(list) : k <= room' /\ list[k] = p
      BY <3>1, <3>3 DEF ListInv, Elements, TypeOK
    <3>4. CopyInv'
      BY <3>1, <3>3 DEF CopyInv
    <3>5. QED
      BY <3>2, <3>4
  <2>6. CASE FillMounts \/ MatchServices
    <3> DEFINE n == IF Len(list) < room THEN Len(list) ELSE room
    <3>1. /\ UNCHANGED <<list, stayed, seen, entries, answer, fault, failures>>
          /\ pc \in {"size", "fill"} /\ pc' \in {"mount", "disk"} /\ pos' = 0
      BY <2>6 DEF FillMounts, MatchServices
    <3>2. ListInv' /\ CauseInv'
      BY <3>1 DEF ListInv, CauseInv
    <3>3. entries = <<>>
      BY <3>1 DEF CauseInv
    <3>4. /\ Distinct(snap')
          /\ stayed \subseteq Elements(snap') /\ Elements(snap') \subseteq Elements(list)
      <4>1. CASE FillMounts
        <5>1. /\ n \in Nat /\ n <= Len(list) /\ n <= room
              /\ Len(list) \in Nat /\ room \in Nat
              /\ \A k \in Nat : k <= Len(list) /\ k <= room => k <= n
          BY DEF TypeOK
        <5>2. /\ Len(snap') = n
              /\ \A k \in 1 .. n : snap'[k] = list[k]
          BY <4>1, <5>1 DEF FillMounts, TypeOK
        <5> HIDE DEF n
        <5>3. \A k \in 1 .. n : k \in 1 .. Len(list)
          BY <5>1
        <5>4. Distinct(snap') /\ Elements(snap') \subseteq Elements(list)
          BY <5>1, <5>2, <5>3 DEF ListInv, Distinct, Elements
        <5>5. ASSUME NEW p \in stayed
              PROVE  p \in Elements(snap')
          <6>1. PICK k \in 1 .. Len(list) : k <= room /\ list[k] = p
            BY <4>1 DEF CopyInv, FillMounts
          <6>2. k \in 1 .. n
            BY <5>1, <6>1
          <6>3. QED
            BY <5>2, <6>1, <6>2 DEF Elements
        <5>6. QED
          BY <5>4, <5>5
      <4>2. CASE MatchServices
        BY <4>2 DEF MatchServices, ListInv
      <4>3. QED
        BY <2>6, <4>1, <4>2
    <3>5. Elements(list) \subseteq seen
      BY <3>1 DEF ListInv
    <3>6. CopyInv'
      BY <3>1, <3>3, <3>4, <3>5 DEF CopyInv, Distinct
    <3>7. QED
      BY <3>2, <3>6
  <2>7. CASE SkipMount \/ SkipDisk
    <3>1. /\ UNCHANGED <<list, stayed, seen, entries, answer, fault, failures, pc, fn,
                         snap, room>>
          /\ Copying /\ pos' = pos + 1 /\ pos \in Nat
          /\ ~Full /\ snap[pos + 1] \notin Wanted
      BY <2>7 DEF SkipMount, SkipDisk, Member, Mode, TypeOK
    <3>2. ListInv' /\ CauseInv'
      BY <3>1 DEF ListInv, CauseInv
    <3>3. \A k \in 1 .. pos + 1 : k = pos + 1 \/ k \in 1 .. pos
      BY <3>1
    <3>4. \A k \in 1 .. pos : k \in 1 .. pos + 1
      BY <3>1
    <3>5. CopyInv'
      BY <3>1, <3>3, <3>4 DEF CopyInv
    <3>6. QED
      BY <3>2, <3>5
  <2>8. ASSUME CopyMount \/ CopyDisk, pc' = pc
        PROVE  Inv'
    <3>1. /\ UNCHANGED <<list, stayed, seen, answer, fault, failures, pc, fn, snap, room>>
          /\ Copying /\ pos' = pos + 1 /\ pos \in Nat /\ pos < Len(snap)
          /\ Full \/ Member \in Wanted
          /\ entries' = Append(entries, Member)
      <4>1. CASE CopyMount
        BY <4>1 DEF CopyMount, TypeOK
      <4>2. CASE CopyDisk
        BY <2>8, <4>2 DEF CopyDisk, TypeOK
      <4>3. QED
        BY <2>8, <4>1, <4>2
    <3>2. ListInv' /\ CauseInv'
      BY <3>1 DEF ListInv, CauseInv
    <3>3. /\ snap \in Seq(Object) /\ entries \in Seq(Object) /\ Len(entries) \in Nat
          /\ Distinct(snap) /\ Distinct(entries)
          /\ Member = snap[pos + 1] /\ pos + 1 \in 1 .. Len(snap) /\ Member \in Object
      BY <3>1 DEF TypeOK, CopyInv, Member
    <3>4. Member \notin Elements(entries)
      <4> SUFFICES ASSUME NEW j \in 1 .. Len(entries), entries[j] = Member
                   PROVE  FALSE
        BY DEF Elements
      <4>1. PICK k \in 1 .. pos : snap[k] = entries[j]
        BY <3>1 DEF CopyInv
      <4>2. k \in 1 .. Len(snap) /\ k < pos + 1
        BY <3>1, <3>3
      <4>3. QED
        BY <3>3, <4>1, <4>2 DEF Distinct
    <3>5. /\ Distinct(entries') /\ Elements(entries') = Elements(entries) \cup {Member}
          /\ Len(entries') = Len(entries) + 1
      BY <3>1, <3>3, <3>4, Appended
    <3>6. \A k \in 1 .. pos : k \in 1 .. pos + 1
      BY <3>1
    <3>7. ASSUME NEW j \in 1 .. Len(entries')
          PROVE  /\ \E k \in 1 .. pos' : snap[k] = entries'[j]
                 /\ Full \/ entries'[j] \in Wanted
      <4>1. CASE j = Len(entries) + 1
        <5>1. entries'[j] = Member /\ pos + 1 \in 1 .. pos'
          BY <3>1, <3>3, <4>1
        <5>2. QED
          BY <3>1, <3>3, <5>1
      <4>2. CASE j # Len(entries) + 1
        <5>1. j \in 1 .. Len(entries) /\ entries'[j] = entries[j]
          BY <3>1, <3>3, <3>5, <4>2
        <5>2. QED
          BY <3>1, <3>6, <5>1 DEF CopyInv
      <4>3. QED
        BY <4>1, <4>2
    <3>8. ASSUME NEW k \in 1 .. pos', Full \/ snap[k] \in Wanted
          PROVE  snap[k] \in Elements(entries')
      <4>1. k = pos + 1 \/ k \in 1 .. pos
        BY <3>1, <3>8
      <4>2. QED
        BY <3>1, <3>3, <3>5, <3>8, <4>1 DEF CopyInv
    <3>9. CopyInv'
      BY <3>1, <3>5, <3>7, <3>8 DEF CopyInv
    <3>10. QED
      BY <3>2, <3>9
  <2>9. ASSUME CopyMount \/ CopyDisk, pc' # pc
        PROVE  Inv'
    <3>1. /\ UNCHANGED <<list, stayed, seen, answer>>
          /\ pc = "disk" /\ pc' = "crashed"
      BY <2>9 DEF CopyMount, CopyDisk
    <3>2. QED
      BY <3>1 DEF ListInv, CauseInv, CopyInv
  <2>10. CASE MountsFail \/ MatchFails \/ DiskFails
    <3>1. /\ UNCHANGED <<list, stayed, seen, answer, fault, fn>>
          /\ pc # "crashed" /\ pc' = "done" /\ fn # "net" /\ InCall
      BY <2>10 DEF MountsFail, MatchFails, DiskFails, Mode
    <3>2. QED
      BY <3>1 DEF ListInv, CauseInv, CopyInv
  <2>11. CASE EndOfMounts \/ EndOfDisks \/ FillInterfaces
    <3>1. /\ UNCHANGED <<list, stayed, seen, fault, fn>>
          /\ pc # "crashed" /\ pc' = "done" /\ InCall
          /\ answer' \in {list, entries}
      BY <2>11 DEF EndOfMounts, EndOfDisks, FillInterfaces, Answer
    <3>2. answer' # NULL
      BY <3>1, SentinelAssumption DEF TypeOK
    <3>3. QED
      BY <3>1, <3>2 DEF ListInv, CauseInv, CopyInv
  <2>12. CASE InterfacesOverrun \/ InterfacesFail \/ ParentFails \/ NamelessDisk
    <3>1. /\ UNCHANGED <<list, stayed, seen, answer>>
          /\ pc \in {"size", "fill", "disk"} /\ pc' = "crashed"
      BY <2>12 DEF InterfacesOverrun, InterfacesFail, ParentFails, NamelessDisk
    <3>2. QED
      BY <3>1 DEF ListInv, CauseInv, CopyInv
  <2>13. CASE Release
    <3>1. /\ UNCHANGED <<list, stayed, seen>>
          /\ answer' = NULL /\ pc = "done" /\ pc' \in {"idle", "crashed"}
          /\ fault' # "none" => pc' = "crashed"
      BY <2>13 DEF Release, CauseInv
    <3>2. QED
      BY <3>1 DEF ListInv, CauseInv, CopyInv
  <2>14. CASE UNCHANGED vars
    BY <2>14 DEF ListInv, CauseInv, CopyInv, vars
  <2>15. QED
    BY <2>1, <2>2, <2>3, <2>4, <2>5, <2>6, <2>7, <2>8, <2>9, <2>10, <2>11, <2>12,
       <2>13, <2>14 DEF Next, library
<1>3. QED
  BY <1>1, <1>2, TypeCorrect, PTL DEF Spec

(* An answer has what stayed on the list throughout the call, nothing that *)
(* was never there, and nothing twice (ListsWhatStayed), whatever joins    *)
(* and leaves between the sizing, the copying and the looking.             *)
THEOREM AnswersComplete == Spec => []ListsWhatStayed
<1> USE DEF Goto, Fail, Crash, system, iterator, At, InCall, Copying, Full
<1> DEFINE Inv == ListInv /\ CauseInv /\ CopyInv /\ TypeOK /\ Mode
<1>1. Init => ListsWhatStayed
  BY DEF Init, ListsWhatStayed
<1>2. ListsWhatStayed /\ Inv /\ [Next]_vars => ListsWhatStayed'
  <2> SUFFICES ASSUME ListsWhatStayed, ListInv, CauseInv, CopyInv, TypeOK, Mode,
                      [Next]_vars
               PROVE  ListsWhatStayed'
    OBVIOUS
  <2>1. ASSUME NEW o \in Object, Join(o) \/ Leave(o)
        PROVE  ListsWhatStayed'
    <3>1. UNCHANGED <<pc, fn, answer>> /\ stayed' \subseteq stayed /\ seen \subseteq seen'
      BY <2>1 DEF Join, Leave
    <3>2. QED
      BY <3>1 DEF ListsWhatStayed, Elements
  <2>2. ASSUME pc' = "done" => pc # "done" /\ UNCHANGED answer
        PROVE  ListsWhatStayed'
    BY <2>2 DEF ListsWhatStayed, CauseInv
  <2>3. CASE \/ \E f \in {"mounts", "physical", "disks", "net"} : Call(f)
             \/ Allocate \/ InfoAllocFails \/ TableAllocFails \/ Size \/ FillMounts
             \/ MatchServices \/ SkipMount \/ CopyMount \/ SkipDisk \/ CopyDisk
    <3>1. pc' = "done" => pc # "done" /\ UNCHANGED answer
      BY <2>3 DEF Call, Allocate, InfoAllocFails, TableAllocFails, Size, FillMounts,
                  MatchServices, SkipMount, CopyMount, SkipDisk, CopyDisk
    <3>2. QED
      BY <2>2, <3>1
  <2>4. CASE \/ MountsFail \/ MatchFails \/ DiskFails \/ InterfacesOverrun
             \/ InterfacesFail \/ ParentFails \/ NamelessDisk \/ Release
    <3>1. pc' = "done" => pc # "done" /\ UNCHANGED answer
      BY <2>4 DEF MountsFail, MatchFails, DiskFails, InterfacesOverrun, InterfacesFail,
                  ParentFails, NamelessDisk, Release
    <3>2. QED
      BY <2>2, <3>1
  <2>5. CASE EndOfMounts \/ EndOfDisks
    <3>1. /\ UNCHANGED <<stayed, seen, fn>> /\ answer' = entries
          /\ Copying /\ pos = Len(snap)
          /\ fn # "net" /\ fn \in {"mounts", "physical", "disks"}
      BY <2>5 DEF EndOfMounts, EndOfDisks, Answer, Mode
    <3>2. ASSUME NEW o \in stayed, fn = "mounts" \/ o \in Wanted
          PROVE  o \in Elements(entries)
      <4>1. PICK k \in 1 .. Len(snap) : o = snap[k]
        BY <3>1 DEF CopyInv, Elements
      <4>2. QED
        BY <3>1, <3>2, <4>1 DEF CopyInv
    <3>3. ASSUME NEW j \in 1 .. Len(entries)
          PROVE  entries[j] \in seen /\ (fn = "mounts" \/ entries[j] \in Wanted)
      <4>1. PICK k \in 1 .. Len(snap) : snap[k] = entries[j]
        BY <3>1 DEF CopyInv
      <4>2. QED
        BY <3>1, <4>1 DEF CopyInv, Elements
    <3>4. Elements(entries) \subseteq IF fn = "mounts" THEN seen ELSE seen \cap Wanted
      BY <3>3 DEF Elements
    <3>5. Distinct(entries)
      BY <3>1 DEF CopyInv
    <3>6. QED
      BY <3>1, <3>2, <3>4, <3>5 DEF ListsWhatStayed, Distinct
  <2>6. CASE FillInterfaces
    <3>1. /\ UNCHANGED <<stayed, seen, fn>> /\ answer' = list
          /\ pc = "fill" /\ fn = "net"
      BY <2>6 DEF FillInterfaces, Answer
    <3>2. QED
      BY <3>1 DEF ListsWhatStayed, ListInv, Distinct
  <2>7. CASE UNCHANGED vars
    BY <2>7 DEF ListsWhatStayed, vars
  <2>8. QED
    BY <2>1, <2>3, <2>4, <2>5, <2>6, <2>7 DEF Next, library
<1>3. QED
  BY <1>1, <1>2, TypeCorrect, ListCopied, PTL DEF Spec

(* FaultHasCause: as long as no call has failed, a double free needs a     *)
(* list that changed, a NULL dereference a disk that came or left or has   *)
(* no name, and an overrun more members at some time of the call than the  *)
(* table has entries.  This needs the copy without repetition: its entries *)
(* are then as many members of seen.                                       *)
THEOREM FaultsExplained == Spec => []FaultHasCause
<1> USE DEF Goto, Fail, Crash, system, iterator, At, InCall, Copying, Full
<1> DEFINE Inv == ListInv /\ CauseInv /\ CopyInv /\ TypeOK /\ Mode
<1>1. Init => FaultHasCause
  BY DEF Init, FaultHasCause
<1>2. FaultHasCause /\ Inv /\ [Next]_vars => FaultHasCause'
  <2> SUFFICES ASSUME FaultHasCause, ListInv, CauseInv, CopyInv, TypeOK, Mode,
                      [Next]_vars
               PROVE  FaultHasCause'
    OBVIOUS
  <2>0. /\ failures \in Nat /\ TableSize \in Nat /\ Len(list) \in Nat
        /\ IsFiniteSet(seen) /\ Cardinality(seen) \in Nat
    BY SizeAssumption, FS_CardinalityType DEF TypeOK, ListInv
  <2>1. ASSUME fault' = "none" \/ failures' = failures + 1
        PROVE  FaultHasCause'
    BY <2>0, <2>1 DEF FaultHasCause
  <2>2. ASSUME NEW o \in Object, Join(o) \/ Leave(o)
        PROVE  FaultHasCause'
    BY <2>1, <2>2 DEF Join, Leave, CauseInv
  <2>3. CASE \/ \E f \in {"mounts", "physical", "disks", "net"} : Call(f)
             \/ Allocate \/ InfoAllocFails \/ TableAllocFails \/ Size \/ FillMounts
             \/ MatchServices \/ SkipMount \/ CopyMount \/ SkipDisk \/ MountsFail
    BY <2>1, <2>3 DEF Call, Allocate, InfoAllocFails, TableAllocFails, Size, FillMounts,
                  MatchServices, SkipMount, CopyMount, SkipDisk, MountsFail, CauseInv
  <2>4. CASE \/ MatchFails \/ DiskFails \/ EndOfMounts \/ EndOfDisks \/ FillInterfaces
    BY <2>1, <2>4 DEF MatchFails, DiskFails, EndOfMounts, EndOfDisks, FillInterfaces,
                      Answer, CauseInv
  <2>5. CASE InterfacesOverrun
    <3>1. /\ fault' = "wild_write" /\ UNCHANGED <<failures, seen>>
          /\ Len(list) > TableSize /\ Distinct(list) /\ Elements(list) \subseteq seen
      BY <2>5 DEF InterfacesOverrun, ListInv
    <3>2. Len(list) <= Cardinality(seen)
      BY <2>0, <3>1, DistinctFits DEF TypeOK
    <3>3. QED
      BY <2>0, <3>1, <3>2 DEF FaultHasCause
  <2>6. CASE InterfacesFail
    <3>1. CASE pc = "fill" /\ Len(list) > room
      <4>1. stayed # seen
        BY <2>0, <3>1 DEF ListInv, TypeOK
      <4>2. QED
        BY <2>6, <4>1 DEF InterfacesFail, FaultHasCause
    <3>2. CASE ~(pc = "fill" /\ Len(list) > room)
      BY <2>1, <2>6, <3>2 DEF InterfacesFail
    <3>3. QED
      BY <3>1, <3>2
  <2>7. CASE CopyDisk
    <3>1. CASE Len(entries) < TableSize
      BY <2>1, <2>7, <3>1 DEF CopyDisk, CauseInv
    <3>2. CASE ~(Len(entries) < TableSize)
      <4>1. /\ fault' = "wild_write" /\ UNCHANGED <<failures, seen>>
            /\ pc = "disk" /\ pos < Len(snap) /\ pos \in Nat
            /\ entries \in Seq(Object) /\ snap \in Seq(Object)
            /\ Len(entries) \in Nat /\ Len(snap) \in Nat
        BY <2>7, <3>2 DEF CopyDisk, TypeOK
      <4>2. /\ Member = snap[pos + 1] /\ pos + 1 \in 1 .. Len(snap) /\ Member \in Object
            /\ Distinct(entries) /\ Distinct(snap)
            /\ Elements(snap) \subseteq seen /\ Member \in seen
        BY <4>1 DEF Member, CopyInv, Elements
      <4>3. ASSUME NEW j \in 1 .. Len(entries)
            PROVE  entries[j] \in seen /\ entries[j] # Member
        <5>1. PICK k \in 1 .. pos : snap[k] = entries[j]
          BY <4>1 DEF CopyInv
        <5>2. k \in 1 .. Len(snap) /\ k < pos + 1
          BY <4>1
        <5>3. QED
          BY <4>2, <5>1, <5>2 DEF Distinct, Elements
      <4> DEFINE all == Append(entries, Member)
      <4>4. Member \notin Elements(entries) /\ Elements(entries) \subseteq seen
        BY <4>3 DEF Elements
      <4>5. /\ all \in Seq(Object) /\ Len(all) = Len(entries) + 1
            /\ Distinct(all) /\ Elements(all) \subseteq seen
        BY <4>1, <4>2, <4>4, Appended
      <4> HIDE DEF all
      <4>6. Len(all) <= Cardinality(seen)
        BY <2>0, <4>5, DistinctFits
      <4>7. QED
        BY <2>0, <3>2, <4>1, <4>5, <4>6 DEF FaultHasCause
    <3>3. QED
      BY <3>1, <3>2
  <2>8. CASE ParentFails
    <3>1. CASE Member \in Elements(list)
      BY <2>1, <2>8, <3>1 DEF ParentFails, Unavailable
    <3>2. CASE Member \notin Elements(list)
      <4>1. /\ pc = "disk" /\ fn = "disks" /\ pos \in 0 .. Len(snap) /\ pos < Len(snap)
            /\ Len(snap) \in Nat
            /\ fault' = "null_deref" /\ UNCHANGED <<seen, stayed, fn, snap, pos>>
            /\ UNCHANGED failures
        BY <2>8, <3>2 DEF ParentFails, Unavailable, Mode, TypeOK
      <4>2. pos + 1 \in 1 .. Len(snap) /\ UNCHANGED Member
        BY <4>1 DEF Member
      <4>3. Member \in seen /\ Member \notin stayed
        BY <3>2, <4>1, <4>2 DEF Member, Elements, CopyInv, ListInv
      <4>4. QED
        BY <4>1, <4>2, <4>3 DEF FaultHasCause
    <3>3. QED
      BY <3>1, <3>2
  <2>9. CASE Release
    <3>1. CASE answer = NULL /\ fn = "net"
      BY <2>0, <2>9, <3>1 DEF Release, CauseInv, FaultHasCause
    <3>2. CASE ~(answer = NULL /\ fn = "net")
      BY <2>1, <2>9, <3>2 DEF Release, CauseInv
    <3>3. QED
      BY <3>1, <3>2
  <2>10. CASE UNCHANGED vars
    BY <2>10 DEF FaultHasCause, vars, Member
  <2>11. CASE NamelessDisk
    <3>1. /\ pc = "disk" /\ fn' = "disks" /\ fault' = "null_deref"
          /\ UNCHANGED <<failures, snap, pos>> /\ Member \in Nameless
      BY <2>11 DEF NamelessDisk, Mode
    <3>2. UNCHANGED Member
      BY <3>1 DEF Member
    <3>3. QED
      BY <3>1, <3>2 DEF FaultHasCause
  <2>12. QED
    BY <2>2, <2>3, <2>4, <2>5, <2>6, <2>7, <2>8, <2>9, <2>10, <2>11 DEF Next, library
<1>3. QED
  BY <1>1, <1>2, TypeCorrect, ListCopied, PTL DEF Spec
-----------------------------------------------------------------------------
(***************************************************************************)
(* What is left on the heap.                                               *)
(***************************************************************************)

(* LeaksKnown: every block of the heap is due to be released by the call   *)
(* under way or by the owner of its answer, or is one of those known to be *)
(* lost (HeapInv).                                                         *)
THEOREM LeaksExplained == Spec => []LeaksKnown
<1> USE DEF Goto, Fail, Crash, system, iterator, At, Copying, Full
<1> DEFINE Inv == ListInv /\ CauseInv /\ CopyInv /\ TypeOK /\ Mode
<1>1. Init => HeapInv
  BY DEF Init, HeapInv
<1>2. HeapInv /\ Inv /\ [Next]_vars => HeapInv'
  <2> SUFFICES ASSUME HeapInv, ListInv, CauseInv, CopyInv, TypeOK, Mode, [Next]_vars,
                      NEW b \in heap'
               PROVE  Accounted(b)'
    BY DEF HeapInv
  <2>0. /\ calls \in Nat /\ failures \in Nat /\ Len(entries) \in Nat
        /\ b \in heap => Accounted(b)
    BY DEF TypeOK, HeapInv
  <2>1. /\ \A kinds : b \in Blocks(kinds) => b[1] = calls /\ b[2] \in kinds
        /\ \A kinds, n : b \in Refs(kinds, n) => b[1] = calls /\ b[2] \in kinds
        /\ \A n : b \in Owned(n) => b[1] = calls
    BY DEF Blocks, Refs, Owned, Strings
  <2>2. \A n, m \in Nat : n <= m => Owned(n) \subseteq Owned(m)
    BY DEF Owned, Strings
  <2>3. /\ Blocks({"info", "table"}) \subseteq Owned(Len(entries))
        /\ Strings(Len(entries)) \subseteq Owned(Len(entries))
    BY DEF Owned
  <2>4. ASSUME UNCHANGED calls
        PROVE  /\ \A n : Owned(n)' = Owned(n)
               /\ \A kinds : Blocks(kinds)' = Blocks(kinds)
    BY <2>4 DEF Owned, Blocks, Strings
  <2>5. ASSUME Lost(b), UNCHANGED <<calls, fn>>, failures' \in {failures, failures + 1},
               \/ UNCHANGED <<stayed, seen>>
               \/ \E o \in Object : Join(o) \/ Leave(o)
        PROVE  Lost(b)'
    <3>1. CASE UNCHANGED <<stayed, seen>>
      BY <2>0, <2>5, <3>1 DEF Lost
    <3>2. ASSUME NEW o \in Object, Join(o)
          PROVE  Lost(b)'
      BY <2>5, <3>2 DEF Lost, Join, ListInv
    <3>3. ASSUME NEW o \in Object, Leave(o)
          PROVE  Lost(b)'
      <4>1. o \in seen
        BY <3>3 DEF Leave, Elements, ListInv
      <4>2. QED
        BY <2>5, <3>3, <4>1 DEF Lost, Leave
    <3>4. QED
      BY <2>5, <3>1, <3>2, <3>3
  <2>6. ASSUME NEW o \in Object, Join(o) \/ Leave(o)
        PROVE  Accounted(b)'
    <3>1. UNCHANGED <<pc, fn, entries, answer, heap, calls, failures>>
      BY <2>6 DEF Join, Leave
    <3>2. Lost(b) => Lost(b)'
      BY <2>5, <2>6, <3>1
    <3>3. QED
      BY <2>0, <2>4, <3>1, <3>2 DEF Accounted
  <2>7. ASSUME NEW f \in {"mounts", "physical", "disks", "net"}, Call(f)
        PROVE  Accounted(b)'
    <3>1. /\ b \in heap /\ Lost(b) /\ b[1] <= calls
          /\ b[1] <= calls + 1 /\ b[1] # calls + 1
      <4>1. pc = "idle" /\ b \in heap
        BY <2>7 DEF Call
      <4>2. Lost(b) /\ b[1] <= calls /\ b[1] \in Nat
        BY <2>0, <4>1 DEF Accounted, TypeOK
      <4>3. QED
        BY <2>0, <4>1, <4>2
    <3>2. QED
      BY <2>7, <3>1 DEF Accounted, Lost, Call
  <2>8. CASE Allocate
    <3>1. /\ pc = "alloc" /\ pc' = "size" /\ entries = <<>>
          /\ UNCHANGED <<stayed, seen, fn, entries, answer, calls, failures>>
      BY <2>8 DEF Allocate, CauseInv
    <3>2. CASE b \in heap
      <4>1. Lost(b) /\ Lost(b)'
        BY <2>0, <2>5, <3>1, <3>2 DEF Accounted
      <4>2. QED
        BY <2>0, <3>1, <3>2, <4>1 DEF Accounted
    <3>3. CASE b \in Blocks(IF fn = "disks" THEN {"info"} ELSE {"info", "table"})
      <4>1. /\ b \in Owned(Len(entries)) /\ b[1] = calls
            /\ fn = "disks" => b \in Blocks({"info"})
        BY <2>1, <3>3 DEF Owned, Blocks
      <4>2. QED
        BY <2>0, <2>4, <3>1, <4>1 DEF Accounted
    <3>4. QED
      BY <2>8, <3>2, <3>3 DEF Allocate
  <2>9. CASE InfoAllocFails \/ TableAllocFails
    <3>1. /\ pc = "alloc" /\ pc' \in {"done", "crashed"}
          /\ UNCHANGED <<stayed, seen, fn, answer, calls>> /\ answer = NULL
          /\ failures' = failures + 1
          /\ pc' = "done" =>
               b \in heap \/ (fn = "net" /\ b \in Blocks({"info"}))
      BY <2>9 DEF InfoAllocFails, TableAllocFails, CauseInv, Blocks
    <3>2. b[1] <= calls
      BY <2>0, <2>1, <2>9 DEF InfoAllocFails, TableAllocFails, Accounted
    <3>3. ASSUME b \in heap
          PROVE  Lost(b)'
      BY <2>0, <2>5, <3>1, <3>3 DEF Accounted
    <3>4. QED
      BY <2>1, <3>1, <3>2, <3>3 DEF Accounted
  <2>10. CASE Size \/ FillMounts
    <3>1. /\ pc \in {"size", "fill"} /\ pc' \in {"fill", "mount"}
          /\ pc' = "mount" => pc = "fill"
          /\ UNCHANGED <<stayed, seen, fn, entries, answer, calls, failures>>
          /\ b \in heap \/ b \in Blocks({"buffer"})
      BY <2>10 DEF Size, FillMounts
    <3>2. Lost(b) => Lost(b)'
      BY <2>5, <3>1
    <3>3. b[1] <= calls
      BY <2>0, <2>1, <3>1 DEF Accounted
    <3>4. QED
      BY <2>0, <2>4, <3>1, <3>2, <3>3 DEF Accounted
  <2>11. CASE MatchServices
    <3>1. /\ pc = "size" /\ pc' = "disk" /\ fn = "disks"
          /\ UNCHANGED <<stayed, seen, fn, entries, answer, calls, failures>>
          /\ b \in heap \/ b \in Blocks({"disk_list", "table"})
      BY <2>11 DEF MatchServices
    <3>2. Lost(b) => Lost(b)'
      BY <2>5, <3>1
    <3>3. b[1] <= calls
      BY <2>0, <2>1, <3>1 DEF Accounted
    <3>4. b \in Blocks({"disk_list", "table"}) =>
            b \in Blocks({"disk_list"}) \/ b \in Owned(Len(entries))
      BY DEF Owned, Blocks
    <3>5. QED
      BY <2>0, <2>4, <3>1, <3>2, <3>3, <3>4 DEF Accounted
  <2>12. CASE SkipMount \/ SkipDisk
    <3>1. /\ pc \in {"mount", "disk"}
          /\ UNCHANGED <<pc, stayed, seen, fn, entries, answer, calls, failures>>
          /\ \/ b \in heap
             \/ b \in Refs({"disk", "parent"}, pos + 1) /\ SkipDisk
      BY <2>12 DEF SkipMount, SkipDisk
    <3>2. Lost(b) => Lost(b)'
      BY <2>5, <3>1
    <3>3. CASE b \in heap
      BY <2>0, <2>4, <3>1, <3>2, <3>3 DEF Accounted
    <3>4. CASE b \in Refs({"disk", "parent"}, pos + 1) /\ SkipDisk
      <4>1. b[1] = calls /\ b[2] \in Ref
        BY <2>1, <3>4 DEF Ref
      <4>2. /\ pc = "disk" /\ fn = "disks" /\ Member \notin Wanted
            /\ pos \in Nat /\ pos < Len(snap) /\ Len(snap) \in Nat
        BY <3>4 DEF SkipDisk, Mode, TypeOK
      <4>3. pos + 1 \in 1 .. Len(snap)
        BY <4>2
      <4>4. Member \in seen
        BY <4>2, <4>3 DEF Member, Elements, CopyInv
      <4>5. Lost(b)'
        BY <3>1, <4>1, <4>2, <4>4 DEF Lost
      <4>6. QED
        BY <2>0, <3>1, <4>1, <4>5 DEF Accounted
    <3>5. QED
      BY <3>1, <3>3, <3>4
  <2>13. CASE CopyMount \/ CopyDisk
    <3>1. CASE pc' = "crashed"
      <4>1. b \in heap /\ UNCHANGED calls
        BY <2>13, <3>1 DEF CopyMount, CopyDisk
      <4>2. QED
        BY <2>0, <3>1, <4>1 DEF Accounted
    <3>2. CASE pc' # "crashed"
      <4>1. /\ pc \in {"mount", "disk"} /\ Len(entries') = Len(entries) + 1
            /\ UNCHANGED <<pc, stayed, seen, fn, answer, calls, failures>>
            /\ b \in heap \/ b \in Strings(Len(entries) + 1)
        BY <2>13, <3>2 DEF CopyMount, CopyDisk, TypeOK
      <4>2. Lost(b) => Lost(b)'
        BY <2>5, <4>1
      <4>3. PICK n \in Nat : n = Len(entries) + 1
        BY <2>0
      <4>4. /\ Owned(Len(entries)) \subseteq Owned(n) /\ Strings(n) \subseteq Owned(n)
            /\ Owned(n)' = Owned(n)
        BY <2>0, <2>2, <2>4, <4>1, <4>3 DEF Owned
      <4>5. b[1] <= calls
        BY <2>0, <2>1, <4>1, <4>3, <4>4 DEF Accounted
      <4>6. QED
        BY <2>0, <2>4, <4>1, <4>2, <4>3, <4>4, <4>5 DEF Accounted
    <3>3. QED
      BY <3>1, <3>2
  <2>14. CASE MountsFail
    <3>1. /\ pc \in {"size", "fill", "mount"} /\ pc' = "done"
          /\ fn # "disks"
          /\ UNCHANGED <<stayed, seen, fn, calls>> /\ failures' = failures + 1
          /\ b \in heap /\ b \notin Blocks({"buffer"}) /\ b \notin Owned(Len(entries))
      BY <2>14 DEF MountsFail
    <3>2. Lost(b) /\ Lost(b)' /\ b[1] <= calls
      BY <2>0, <2>5, <3>1 DEF Accounted
    <3>3. QED
      BY <3>1, <3>2 DEF Accounted
  <2>15. CASE MatchFails
    <3>1. /\ pc = "size" /\ pc' = "done" /\ fn = "disks"
          /\ UNCHANGED <<stayed, seen, fn, calls>> /\ failures' = failures + 1
          /\ \/ b \in heap /\ b \notin Blocks({"info"})
             \/ b \in Blocks({"disk_list"})
      BY <2>15 DEF MatchFails, Blocks
    <3>2. CASE b \in heap /\ b \notin Blocks({"info"})
      <4>1. Lost(b) /\ Lost(b)' /\ b[1] <= calls
        BY <2>0, <2>5, <3>1, <3>2 DEF Accounted
      <4>2. QED
        BY <3>1, <4>1 DEF Accounted
    <3>3. CASE b \in Blocks({"disk_list"})
      <4>1. b[1] = calls /\ b[2] \in {"disk_list"}
        BY <2>1, <3>3
      <4>2. Lost(b)'
        BY <2>0, <3>1, <4>1 DEF Lost
      <4>3. QED
        BY <2>0, <3>1, <4>1, <4>2 DEF Accounted
    <3>4. QED
      BY <3>1, <3>2, <3>3
  <2>16. CASE DiskFails
    <3>1. PICK lost \in {{}, Ref} :
            heap' = (heap \ Owned(Len(entries))) \cup Refs(lost, pos + 1)
      BY <2>16 DEF DiskFails
    <3>2. /\ pc = "disk" /\ pc' = "done" /\ fn = "disks"
          /\ UNCHANGED <<stayed, seen, fn, calls>>
          /\ failures' \in {failures, failures + 1}
          /\ failures' = failures => Member \in seen /\ Member \notin stayed
      <4>1. /\ pc = "disk" /\ pos \in Nat /\ pos < Len(snap) /\ Len(snap) \in Nat
        BY <2>16 DEF DiskFails, TypeOK
      <4>2. Member \in seen
        <5>1. pos + 1 \in 1 .. Len(snap)
          BY <4>1
        <5>2. QED
          BY <4>1, <5>1 DEF Member, Elements, CopyInv
      <4>3. failures' = failures => Member \notin stayed
        BY <2>0, <2>16 DEF DiskFails, Unavailable, ListInv
      <4>4. QED
        BY <2>16, <4>2, <4>3 DEF DiskFails, Unavailable, Mode
    <3>3. CASE b \in heap /\ b \notin Owned(Len(entries)) /\ b \notin Blocks({"disk_list"})
      <4>1. Lost(b) /\ Lost(b)' /\ b[1] <= calls
        BY <2>0, <2>5, <3>2, <3>3 DEF Accounted
      <4>2. QED
        BY <3>2, <4>1 DEF Accounted
    <3>4. CASE b \in Blocks({"disk_list"}) \/ b \in Refs(lost, pos + 1)
      <4>1. b[1] = calls /\ b[2] \in Ref \cup {"disk_list"}
        BY <2>1, <3>1, <3>4
      <4>2. Lost(b)'
        BY <2>0, <3>2, <4>1 DEF Lost
      <4>3. QED
        BY <2>0, <3>2, <4>1, <4>2 DEF Accounted
    <3>5. QED
      BY <3>1, <3>3, <3>4
  <2>17. CASE EndOfMounts \/ EndOfDisks \/ FillInterfaces
    <3>1. /\ pc \in {"fill", "mount", "disk"} /\ pc' = "done"
          /\ UNCHANGED <<stayed, seen, fn, calls, failures>>
          /\ answer' \in {list, entries} /\ Len(entries) <= Len(answer')
          /\ \/ b \in heap /\ b \notin Blocks({"buffer", "disk_list"})
             \/ b \in Strings(Len(answer'))
      BY <2>17 DEF EndOfMounts, EndOfDisks, FillInterfaces, Answer, CauseInv, TypeOK
    <3>2. PICK n \in Nat : n = Len(answer')
      BY <3>1 DEF TypeOK
    <3>3. /\ Owned(Len(entries)) \subseteq Owned(n) /\ Strings(n) \subseteq Owned(n)
          /\ Owned(n)' = Owned(n)
      BY <2>0, <2>2, <2>4, <3>1, <3>2 DEF Owned
    <3>4. Lost(b) => Lost(b)'
      BY <2>5, <3>1
    <3>5. b[1] <= calls
      BY <2>0, <2>1, <3>1, <3>2, <3>3 DEF Accounted
    <3>6. b \in Blocks({"buffer"}) \/ b \in Blocks({"disk_list"}) =>
            b \in Blocks({"buffer", "disk_list"})
      BY DEF Blocks
    <3>7. Lost(b)' \/ b \in Owned(n)'
      BY <2>0, <3>1, <3>2, <3>3, <3>4, <3>6 DEF Accounted
    <3>8. answer' # NULL
      BY <3>1, SentinelAssumption DEF TypeOK
    <3>9. QED
      BY <3>1, <3>2, <3>5, <3>7, <3>8 DEF Accounted
  <2>18. CASE InterfacesOverrun \/ InterfacesFail \/ ParentFails \/ NamelessDisk
    <3>1. pc' = "crashed" /\ UNCHANGED calls /\ b \in heap
      BY <2>18 DEF InterfacesOverrun, InterfacesFail, ParentFails, NamelessDisk
    <3>2. QED
      BY <2>0, <3>1 DEF Accounted
  <2>19. CASE Release
    <3>1. /\ pc = "done" /\ pc' \in {"idle", "crashed"} /\ b \in heap
          /\ UNCHANGED <<stayed, seen, fn, calls, failures>>
          /\ answer # NULL => b \notin Owned(Len(answer))
          /\ answer = NULL /\ fn = "net" => pc' = "crashed"
      BY <2>19 DEF Release
    <3>2. Lost(b) => Lost(b)'
      BY <2>5, <3>1
    <3>3. QED
      BY <2>0, <3>1, <3>2 DEF Accounted
  <2>20. CASE UNCHANGED vars
    BY <2>0, <2>20 DEF Accounted, Lost, Owned, Blocks, Strings, vars
  <2>21. QED
    BY <2>6, <2>7, <2>8, <2>9, <2>10, <2>11, <2>12, <2>13, <2>14, <2>15, <2>16,
       <2>17, <2>18, <2>19, <2>20 DEF Next, library
<1>3. HeapInv => LeaksKnown
  <2> SUFFICES ASSUME HeapInv, pc \in {"idle", "done"}, NEW b \in heap,
                      answer # NULL => b \notin Owned(Len(answer))
               PROVE  Lost(b) \/ (b[2] = "info" /\ fn = "net" /\ pc = "done" /\ answer = NULL)
    BY DEF LeaksKnown, Lost
  <2>1. QED
    BY DEF HeapInv, Accounted
<1>4. QED
  BY <1>1, <1>2, <1>3, TypeCorrect, ListCopied, PTL DEF Spec
=============================================================================
