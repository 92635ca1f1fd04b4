-------------------------- MODULE IOCountersProofs --------------------------
(***************************************************************************)
(* What IOCounters guarantees for any set of devices, sizes of the two     *)
(* tables, and number of calls, changes and failures.                      *)
(***************************************************************************)
EXTENDS IOCounters, SequenceTheorems, FiniteSetTheorems, TLAPS

Distinct(s) == \A j, k \in 1 .. Len(s) : j < k => s[j] # s[k]

\* Each function has its own states, its own open stream, and what it has
\* read of it
Streams ==
  /\ pc \in {"idle", "open", "counters", "done"} => files = {}
  /\ pc \in {"partitions", "diskstats", "netdev"} => fp = pc /\ files = {fp}
  /\ pc = "counters" => fp = NULL
  /\ pc = "open" => i = 0
  /\ pc \in {"partitions", "counters", "diskstats"} => fn = "disk"
  /\ pc = "netdev" => fn = "net" /\ IF i < 2 THEN pos = i ELSE pos >= 2
  /\ fault # "double_close"
  /\ fault # "none" => pc = "crashed"
  /\ pc # "done" => answer = NULL

Reading == {"partitions", "counters", "diskstats"}
Entered == {Block("info", 0), Block("counters", 0)} \cup Names(Len(entries))

\* Who frees which block; nobody frees the counters of a call that failed
\* to open /proc/diskstats
Accounted(b) ==
  /\ b[1] <= calls
  /\ \/ pc = "crashed"
     \/ b[2] = "counters" /\ failures > 0
     \/ /\ pc \in Reading
        /\ b \in {Block(k, 0) : k \in {"line", "partitions", "info"}} \cup PartStrings
     \/ pc = "diskstats" /\ b \in Entered
     \/ pc = "netdev" /\ b \in Entered \cup {Block("line", 0)}
     \/ /\ pc = "done" /\ answer # NULL
        /\ b \in {Block("info", 0), Block("counters", 0)} \cup Names(Len(answer))
HeapInv == \A b \in heap : Accounted(b)

\* What the lines read so far have left in the two arrays.  The names of the
\* counters are always among the names wanted; the rest is known as long as
\* no device has gone away, since each line is then where it was.
PartsInv ==
  /\ Distinct(disks)
  /\ pc = "open" => parts = <<>>
  /\ ~removed =>
       /\ Len(present) <= Len(disks)
       /\ \A k \in 1 .. Len(present) : present[k] = disks[k]
  /\ pc = "partitions" /\ ~removed =>
       /\ pos <= Len(disks)
       /\ \A k \in 1 .. pos : Wanted(disks[k]) => Kept[disks[k]] \in Elements(parts)
  /\ pc \in {"counters", "diskstats"} /\ ~removed =>
       \A k \in 1 .. Len(present) :
         Wanted(present[k]) => Kept[present[k]] \in Elements(parts)
  /\ pc \in Reading /\ ~removed =>
       Elements(parts) \subseteq {Kept[d] : d \in {x \in Elements(disks) : Wanted(x)}}

\* Of any two members of s, the first p members of t have the earlier first
InOrder(s, t, p) ==
  \A j, k \in 1 .. Len(s) :
    j < k => \E m, n \in 1 .. p : m < n /\ t[m] = s[j] /\ t[n] = s[k]

StatsInv ==
  /\ pc \in {"open", "partitions", "counters"} => entries = <<>>
  /\ pc = "diskstats" => Elements(entries) \subseteq Elements(parts) \cap Device
  /\ pc = "diskstats" /\ ~removed =>
       /\ pos <= Len(disks)
       /\ \A k \in 1 .. pos : disks[k] \in Elements(parts) => disks[k] \in Elements(entries)
       /\ \A j \in 1 .. Len(entries) : \E m \in 1 .. pos : disks[m] = entries[j]
       /\ InOrder(entries, disks, pos)

NetInv ==
  pc = "netdev" =>
    /\ i < 2 => pos = i /\ entries = <<>>
    /\ i >= 2 => Len(entries) + 2 = pos
    /\ failures = 0 => NULL \notin Elements(entries)
    /\ ~removed =>
         /\ pos <= Len(disks) + 2
         /\ \A j \in 1 .. Len(entries) : entries[j] \in {disks[j], NULL}
OrderInv == PartsInv /\ StatsInv /\ NetInv

(***************************************************************************)
(* Facts about sequences.                                                  *)
(***************************************************************************)
LEMMA Removed ==
  ASSUME NEW S, NEW s \in Seq(S), NEW j \in 1 .. Len(s)
  PROVE  /\ RemoveAt(s, j) \in Seq(S)
         /\ Len(RemoveAt(s, j)) = Len(s) - 1
         /\ \A k \in 1 .. Len(s) - 1 :
              RemoveAt(s, j)[k] = IF k < j THEN s[k] ELSE s[k + 1]
         /\ Distinct(s) => /\ Distinct(RemoveAt(s, j))
                           /\ Elements(RemoveAt(s, j)) = Elements(s) \ {s[j]}
<1> DEFINE a == SubSeq(s, 1, j - 1)
           b == SubSeq(s, j + 1, Len(s))
           t == RemoveAt(s, j)
<1>1. a \in Seq(S) /\ Len(a) = j - 1 /\ \A k \in 1 .. j - 1 : a[k] = s[k]
  OBVIOUS
<1>2. /\ b \in Seq(S)
      /\ Len(b) = Len(s) - j
      /\ \A k \in 1 .. Len(s) - j : b[k] = s[k + j]
  OBVIOUS
<1>3. t = a \o b
  BY DEF RemoveAt
<1> HIDE DEF a, b, t
<1>4. /\ a \o b \in Seq(S)
      /\ Len(a \o b) = Len(a) + Len(b)
      /\ \A k \in 1 .. Len(a) + Len(b) :
           (a \o b)[k] = IF k <= Len(a) THEN a[k] ELSE b[k - Len(a)]
  BY <1>1, <1>2, ConcatProperties
<1>5. /\ t \in Seq(S) /\ Len(t) = Len(s) - 1
      /\ \A k \in 1 .. Len(s) - 1 : t[k] = IF k < j THEN s[k] ELSE s[k + 1]
  <2>1. /\ j \in Nat /\ Len(s) \in Nat /\ 1 <= j /\ j <= Len(s)
        /\ Len(a) = j - 1 /\ Len(b) = Len(s) - j
    BY <1>1, <1>2
  <2>2. t \in Seq(S) /\ Len(t) = Len(s) - 1
    BY <1>3, <1>4, <2>1
  <2>3. ASSUME NEW k \in 1 .. Len(s) - 1, k < j
        PROVE  t[k] = s[k]
    <3>1. k \in 1 .. Len(a) + Len(b) /\ k <= Len(a) /\ k \in 1 .. j - 1
      BY <2>1, <2>3
    <3>2. QED
      BY <1>1, <1>3, <1>4, <3>1
  <2>4. ASSUME NEW k \in 1 .. Len(s) - 1, ~(k < j)
        PROVE  t[k] = s[k + 1]
    <3>1. /\ k \in 1 .. Len(a) + Len(b) /\ ~(k <= Len(a))
          /\ k - Len(a) \in 1 .. Len(s) - j /\ (k - Len(a)) + j = k + 1
      BY <2>1, <2>4
    <3>2. t[k] = b[k - Len(a)] /\ b[k - Len(a)] = s[(k - Len(a)) + j]
      BY <1>2, <1>3, <1>4, <3>1
    <3>3. QED
      BY <3>1, <3>2
  <2>5. QED
    BY <2>2, <2>3, <2>4
<1>6. ASSUME Distinct(s)
      PROVE  Distinct(t) /\ Elements(t) = Elements(s) \ {s[j]}
  <2>1. Distinct(t)
    BY <1>5, <1>6 DEF Distinct
  <2>2. ASSUME NEW x \in Elements(t)
        PROVE  x \in Elements(s) /\ x # s[j]
    <3>1. PICK k \in 1 .. Len(s) - 1 : x = t[k]
      BY <1>5 DEF Elements
    <3>2. CASE k < j
      <4>1. x = s[k] /\ k \in 1 .. Len(s)
        BY <1>5, <3>1, <3>2
      <4>2. QED
        BY <1>6, <3>2, <4>1 DEF Elements, Distinct
    <3>3. CASE k >= j
      <4>1. x = s[k + 1] /\ k + 1 \in 1 .. Len(s) /\ j < k + 1
        BY <1>5, <3>1, <3>3
      <4>2. QED
        BY <1>6, <4>1 DEF Elements, Distinct
    <3>4. QED
      BY <3>2, <3>3
  <2>3. ASSUME NEW x \in Elements(s), x # s[j]
        PROVE  x \in Elements(t)
    <3>1. PICK k \in 1 .. Len(s) : x = s[k]
      BY DEF Elements
    <3>2. CASE k < j
      <4>1. k \in 1 .. Len(t) /\ t[k] = x
        BY <1>5, <3>1, <3>2
      <4>2. QED
        BY <4>1 DEF Elements
    <3>3. CASE k > j
      <4>1. k - 1 \in 1 .. Len(t) /\ t[k - 1] = x
        BY <1>5, <3>1, <3>3
      <4>2. QED
        BY <4>1 DEF Elements
    <3>4. QED
      BY <2>3, <3>1, <3>2, <3>3
  <2>4. QED
    BY <2>1, <2>2, <2>3
<1>7. QED
  BY <1>5, <1>6 DEF t

LEMMA DistinctFits ==
  ASSUME NEW S, NEW s \in Seq(S), Distinct(s),
         NEW T, IsFiniteSet(T), Elements(s) \subseteq T
  PROVE  Len(s) <= Cardinality(T)
<1> DEFINE f == [k \in 1 .. Len(s) |-> s[k]]
<1>1. Len(s) \in Nat /\ Cardinality(1 .. Len(s)) = Len(s)
  <2>1. 1 \in Int /\ Len(s) \in Int /\ Len(s) >= 0
    OBVIOUS
  <2>2. Cardinality(1 .. Len(s)) = IF 1 > Len(s) THEN 0 ELSE Len(s) - 1 + 1
    BY <2>1, FS_Interval
  <2>3. QED
    BY <2>1, <2>2
<1>2. f \in Injection(1 .. Len(s), T)
  BY DEF Injection, IsInjective, Elements, Distinct
<1>3. QED
  BY <1>1, <1>2, FS_Injection

-----------------------------------------------------------------------------
(***************************************************************************)
(* Types, streams and tables.                                              *)
(***************************************************************************)

(* TypeOK, with the streams: each stream is open while its file is read    *)
(* and closed once, and no table but those of an overrun, which ends in a  *)
(* crash, gets more entries than were allocated.                           *)
THEOREM TypeCorrect == Spec => [](TypeOK /\ Streams)
<1> USE DEF Goto, Fail
<1> DEFINE Inv == TypeOK /\ Streams
           B == Nat \X {"line", "partitions", "info", "part", "counters", "name"} \X Nat
<1>1. Init => Inv
  <2>1. /\ Len(<<>>) = 0 /\ <<>> \in Seq(Device \cup {NULL}) /\ <<>> \in Seq(Device \cup {"?"})
        /\ <<>> \in Seq(Device)
        /\ MaxPartitions >= 0 /\ MaxInterfaces >= 0
    BY SizeAssumption
  <2>2. Init => Streams
    BY DEF Init, Streams
  <2>3. Init => TypeOK
    <3> SUFFICES ASSUME Init PROVE TypeOK
      OBVIOUS
    <3>1. /\ disks \in Seq(Device) /\ present \in Seq(Device)
          /\ parts \in Seq(Device \cup {"?"}) /\ entries \in Seq(Device \cup {NULL})
          /\ i \in 0 .. 4
      BY <2>1 DEF Init
    <3>2. Len(parts) <= MaxPartitions
      BY <2>1 DEF Init
    <3>3. Len(entries) <= IF fn = "disk" THEN Len(parts) ELSE MaxInterfaces
      BY <2>1 DEF Init
    <3>4. QED
      BY <3>1, <3>2, <3>3 DEF Init, TypeOK
  <2>4. QED
    BY <2>2, <2>3
<1>2. Inv /\ [Next]_vars => Inv'
  <2> SUFFICES ASSUME TypeOK, Streams, [Next]_vars
               PROVE  Inv'
    OBVIOUS
  <2>0. /\ calls \in Nat /\ pos \in Nat /\ pos + 1 \in Nat /\ Len(disks) \in Nat
        /\ Len(parts) \in Nat /\ Len(entries) \in Nat
        /\ Len(parts) + 1 \in Nat /\ Len(entries) + 1 \in Nat
    BY DEF TypeOK
  <2>1. /\ heap \subseteq B
        /\ {Block(k, 0) : k \in {"line", "partitions", "info"}} \subseteq B
        /\ {Block(k, 0) : k \in {"info", "counters", "line"}} \subseteq B
        /\ \A k \in {"part", "counters", "name"}, n \in Nat : Block(k, n) \in B
    BY DEF TypeOK, Block
  <2> HIDE DEF B
  <2>2. ASSUME NEW d \in Device, Plug(d)
        PROVE  Inv'
    BY <2>2 DEF B, TypeOK, Streams, Plug
  <2>3. ASSUME NEW d \in Device, Unplug(d)
        PROVE  Inv'
    <3>1. disks' \in Seq(Device)
      BY <2>3, Removed DEF TypeOK, Unplug
    <3>2. QED
      BY <2>3, <3>1 DEF B, TypeOK, Streams, Unplug
  <2>4. ASSUME NEW f \in {"disk", "net"}, Call(f)
        PROVE  Inv'
    <3>1. /\ Len(<<>>) = 0 /\ <<>> \in Seq(Device \cup {NULL}) /\ <<>> \in Seq(Device \cup {"?"})
          /\ MaxPartitions >= 0 /\ MaxInterfaces >= 0 /\ 0 \in 0 .. 4
      BY SizeAssumption
    <3>2. Streams'
      BY <2>4 DEF Streams, Call
    <3>3. /\ parts' \in Seq(Device \cup {"?"}) /\ Len(parts') = 0 /\ Len(entries') = 0
          /\ entries' \in Seq(Device \cup {NULL}) /\ i' \in 0 .. 4 /\ calls' \in Nat
      BY <2>0, <2>4, <3>1 DEF Call
    <3>4. TypeOK'
      <4>1. /\ Len(parts') <= MaxPartitions
            /\ Len(entries') <= IF fn' = "disk" THEN Len(parts') ELSE MaxInterfaces
        BY <3>1, <3>3
      <4>2. /\ fn' = f /\ pc' = "open" /\ fp' = NULL /\ removed' = FALSE /\ present' = disks
            /\ UNCHANGED <<disks, pos, files, answer, heap, fault, changes, failures>>
        BY <2>4 DEF Call
      <4>3. QED
        BY <3>3, <4>1, <4>2 DEF B, TypeOK
    <3>5. QED
      BY <3>2, <3>4
  <2>5. CASE OpenFails
    BY <2>5 DEF B, TypeOK, Streams, OpenFails
  <2>6. CASE OpenPartitions
    <3>1. heap' \subseteq B
      BY <2>0, <2>1, <2>6 DEF OpenPartitions
    <3>2. QED
      BY <2>6, <3>1 DEF B, TypeOK, Streams, OpenPartitions
  <2>7. CASE SkipDevice \/ SkipStats
    <3>1. /\ pc \in {"partitions", "diskstats"} /\ pos' \in Nat
          /\ UNCHANGED <<disks, pc, fn, i, files, fp, parts, entries, answer,
            heap, fault, calls, changes, failures, present, removed>>
      BY <2>0, <2>7 DEF SkipDevice, SkipStats
    <3>2. QED
      BY <3>1 DEF B, TypeOK, Streams
  <2>8. CASE KeepName
    <3>1. pos < Len(disks)
      BY <2>8 DEF KeepName
    <3>2. disks[pos + 1] \in Device
      BY <2>0, <3>1 DEF TypeOK
    <3>3. PICK name \in Device \cup {"?"} : name = Kept[disks[pos + 1]]
      BY <3>2, KeptAssumption
    <3>4. \/ /\ parts' = Append(parts, name) /\ Len(parts) < MaxPartitions
             /\ heap' = heap \cup {Block("part", Len(parts) + 1)}
             /\ UNCHANGED <<pc, fault>>
          \/ pc' = "crashed" /\ fault' = "wild_write" /\ UNCHANGED <<parts, heap>>
      BY <2>8, <3>3 DEF KeepName
    <3>5. /\ parts' \in Seq(Device \cup {"?"}) /\ Len(parts') \in {Len(parts), Len(parts) + 1}
          /\ Len(parts') <= MaxPartitions
      <4>1. parts \in Seq(Device \cup {"?"}) /\ Len(parts) <= MaxPartitions /\ MaxPartitions \in Nat
        BY SizeAssumption DEF TypeOK
      <4>2. QED
        BY <3>4, <4>1
    <3>6. heap' \subseteq B
      BY <2>0, <2>1, <3>4
    <3>7. Len(entries) <= IF fn = "disk" THEN Len(parts') ELSE MaxInterfaces
      BY <2>0, <3>5 DEF TypeOK
    <3>8. /\ pc = "partitions" /\ pos' = pos + 1 /\ pos + 1 \in Nat
          /\ UNCHANGED <<fn, i, disks, files, fp, entries, answer, calls, changes, failures,
                         present, removed>>
      BY <2>0, <2>8 DEF KeepName
    <3>9. TypeOK'
      BY <3>4, <3>5, <3>6, <3>7, <3>8 DEF B, TypeOK
    <3>10. QED
      BY <3>4, <3>8, <3>9 DEF Streams
  <2>9. ASSUME NEW owned, NEW h \in SUBSET B, Error(owned, h), pc \in {"partitions", "counters", "diskstats"}
        PROVE  Inv'
    <3>1. heap' \subseteq B
      BY <2>0, <2>1, <2>9 DEF Error
    <3>2. QED
      BY <2>9, <3>1 DEF B, TypeOK, Streams, Error
  <2>10. CASE KeepNameFails \/ OpenDiskstatsFails \/ CopyStatsFails
    <3>1. heap \in SUBSET B /\ heap \cup {Block("counters", 0)} \in SUBSET B
      BY <2>1
    <3>2. QED
      BY <2>9, <2>10, <3>1 DEF KeepNameFails, OpenDiskstatsFails, CopyStatsFails
  <2>11. CASE ClosePartitions
    BY <2>11 DEF B, TypeOK, Streams, ClosePartitions
  <2>12. CASE OpenDiskstats
    <3>1. heap' \subseteq B
      BY <2>0, <2>1, <2>12 DEF OpenDiskstats
    <3>2. QED
      BY <2>12, <3>1 DEF B, TypeOK, Streams, OpenDiskstats
  <2>13. CASE CopyStats
    <3>1. pos < Len(disks)
      BY <2>13 DEF CopyStats
    <3>2. PICK d \in Device : d = disks[pos + 1]
      BY <2>0, <3>1 DEF TypeOK
    <3>3. \/ /\ entries' = Append(entries, d) /\ Len(entries) < Len(parts)
             /\ heap' = heap \cup {Block("name", Len(entries) + 1)}
             /\ UNCHANGED <<pc, fault>>
          \/ pc' = "crashed" /\ fault' = "wild_write" /\ UNCHANGED <<entries, heap>>
      BY <2>13, <3>2 DEF CopyStats, HasRoom
    <3>4. /\ pc = "diskstats" /\ fn = "disk" /\ pos' = pos + 1 /\ pos + 1 \in Nat
          /\ UNCHANGED <<fn, i, disks, files, fp, parts, answer, calls, changes, failures,
                         present, removed>>
      BY <2>0, <2>13 DEF CopyStats, Streams
    <3>5. entries' \in Seq(Device \cup {NULL}) /\ Len(entries') <= Len(parts)
      <4>1. entries \in Seq(Device \cup {NULL}) /\ Len(entries) <= Len(parts)
        BY <3>4 DEF TypeOK
      <4>2. QED
        BY <2>0, <3>3, <4>1
    <3>6. heap' \subseteq B
      BY <2>0, <2>1, <3>3
    <3>7. TypeOK'
      BY <3>3, <3>4, <3>5, <3>6 DEF B, TypeOK
    <3>8. QED
      BY <3>3, <3>4, <3>7 DEF Streams
  <2>14. CASE EndOfDiskstats \/ EndOfNetDev
    <3>1. heap' \subseteq B
      BY <2>0, <2>1, <2>14 DEF EndOfDiskstats, EndOfNetDev
    <3>2. QED
      BY <2>14, <3>1 DEF B, TypeOK, Streams, EndOfDiskstats, EndOfNetDev
  <2>15. CASE OpenNetDev
    <3>1. heap' \subseteq B
      BY <2>0, <2>1, <2>15 DEF OpenNetDev
    <3>2. Streams'
      BY <2>15 DEF Streams, OpenNetDev
    <3>3. TypeOK'
      BY <2>15, <3>1 DEF B, TypeOK, OpenNetDev
    <3>4. QED
      BY <3>2, <3>3
  <2>16. CASE SkipHeader
    BY <2>16 DEF B, TypeOK, Streams, SkipHeader
  <2>17. CASE CopyInterface
    <3>1. /\ pc = "netdev" /\ fn = "net" /\ pos < 2 + Len(disks) /\ 2 <= pos
          /\ i' = 4 /\ pos' = pos + 1 /\ pos + 1 \in Nat /\ pos + 1 >= 2
          /\ UNCHANGED <<fn, disks, files, fp, parts, answer, calls, changes, present,
                         removed>>
      BY <2>0, <2>17 DEF CopyInterface, SkipFields, Streams
    <3>2. disks[pos - 1] \in Device
      BY <2>0, <3>1 DEF TypeOK
    <3>3. PICK name \in Device \cup {NULL} :
            /\ failures' \in Nat
            /\ \/ /\ entries' = Append(entries, name) /\ Len(entries) < MaxInterfaces
                  /\ heap' \in {heap, heap \cup {Block("name", Len(entries) + 1)}}
                  /\ UNCHANGED <<pc, fault>>
               \/ pc' = "crashed" /\ fault' = "wild_write" /\ UNCHANGED <<entries, heap>>
      <4>1. CASE Len(entries) >= MaxInterfaces
        <5>1. /\ pc' = "crashed" /\ fault' = "wild_write" /\ UNCHANGED <<entries, heap, failures>>
          BY <2>17, <4>1 DEF CopyInterface
        <5>2. failures' \in Nat /\ NULL \in Device \cup {NULL}
          BY <2>0, <5>1 DEF TypeOK
        <5>3. QED
          BY <5>1, <5>2
      <4>2. CASE ~(Len(entries) >= MaxInterfaces)
        <5>1. /\ Len(entries) < MaxInterfaces /\ failures \in Nat /\ failures + 1 \in Nat
              /\ UNCHANGED <<pc, fault>>
              /\ \/ /\ entries' = Append(entries, disks[pos - 1])
                    /\ heap' = heap \cup {Block("name", Len(entries) + 1)}
                    /\ UNCHANGED failures
                 \/ entries' = Append(entries, NULL) /\ Fail /\ UNCHANGED heap
          <6>1. MaxInterfaces \in Nat /\ Len(entries) \in Nat /\ failures \in Nat
            BY <2>0, SizeAssumption DEF TypeOK
          <6>2. Len(entries) < MaxInterfaces /\ failures + 1 \in Nat
            BY <4>2, <6>1
          <6>3. /\ UNCHANGED <<pc, fault>>
                /\ \/ /\ entries' = Append(entries, disks[pos - 1])
                      /\ heap' = heap \cup {Block("name", Len(entries) + 1)}
                      /\ UNCHANGED failures
                   \/ entries' = Append(entries, NULL) /\ Fail /\ UNCHANGED heap
            BY <2>17, <4>2 DEF CopyInterface
          <6>4. QED
            BY <6>1, <6>2, <6>3
        <5>2. QED
          BY <3>2, <5>1
      <4>3. QED
        BY <4>1, <4>2
    <3>4. entries' \in Seq(Device \cup {NULL}) /\ Len(entries') <= MaxInterfaces
      <4>1. /\ entries \in Seq(Device \cup {NULL}) /\ Len(entries) <= MaxInterfaces
            /\ MaxInterfaces \in Nat
        BY <3>1, SizeAssumption DEF TypeOK
      <4>2. CASE UNCHANGED entries
        BY <4>1, <4>2
      <4>3. ASSUME NEW x \in Device \cup {NULL}, Len(entries) < MaxInterfaces,
                   entries' = Append(entries, x)
            PROVE  entries' \in Seq(Device \cup {NULL}) /\ Len(entries') <= MaxInterfaces
        <5>1. entries' \in Seq(Device \cup {NULL}) /\ Len(entries') = Len(entries) + 1
          BY <4>1, <4>3
        <5>2. QED
          BY <2>0, <4>1, <4>3, <5>1
      <4>4. QED
        BY <3>3, <4>2, <4>3
    <3>5. heap' \subseteq B
      BY <2>0, <2>1, <3>3
    <3>6. TypeOK'
      BY <3>1, <3>3, <3>4, <3>5 DEF B, TypeOK
    <3>7. QED
      BY <3>1, <3>3, <3>6 DEF Streams
  <2>18. CASE Release
    <3>1. heap' \subseteq B
      BY <2>0, <2>1, <2>18 DEF Release
    <3>2. QED
      BY <2>18, <3>1 DEF B, TypeOK, Streams, Release
  <2>19. CASE UNCHANGED vars
    BY <2>19 DEF B, TypeOK, Streams, vars
  <2>20. QED
    BY <2>2, <2>3, <2>4, <2>5, <2>6, <2>7, <2>8, <2>10, <2>11, <2>12, <2>13, <2>14,
       <2>15, <2>16, <2>17, <2>18, <2>19 DEF Next, library
<1>3. QED
  BY <1>1, <1>2, PTL DEF Spec
-----------------------------------------------------------------------------
(***************************************************************************)
(* Memory.                                                                 *)
(***************************************************************************)

(* AllReleased: a stream is closed once on every path, and memory is freed *)
(* but for the counters of a call that could not open /proc/diskstats,     *)
(* because each block is always due to be released by somebody (HeapInv).  *)
THEOREM NothingKept == Spec => []AllReleased
<1> USE DEF Goto, Fail, Reading
<1>1. Init => HeapInv
  BY DEF Init, HeapInv
<1>2. HeapInv /\ TypeOK /\ Streams /\ [Next]_vars => HeapInv'
  <2> SUFFICES ASSUME HeapInv, TypeOK, Streams, [Next]_vars,
                      NEW b \in heap'
               PROVE  Accounted(b)'
    BY DEF HeapInv
  <2>0. /\ calls \in Nat /\ failures \in Nat /\ Len(entries) \in Nat /\ Len(parts) \in Nat
        /\ b \in heap => Accounted(b)
    BY DEF TypeOK, HeapInv
  <2> DEFINE base == {Block(k, 0) : k \in {"line", "partitions", "info"}}
             held(n) == {Block("info", 0), Block("counters", 0)} \cup Names(n)
             part(n) == {Block("part", j) : j \in 1 .. n}
  <2>1. /\ \A k, n : Block(k, n)[1] = calls /\ Block(k, n)[2] = k
        /\ \A n, m \in Nat : n <= m => held(n) \subseteq held(m) /\ part(n) \subseteq part(m)
        /\ \A n \in Nat : Block("name", n + 1) \in held(n + 1)
        /\ \A n \in Nat : Block("part", n + 1) \in part(n + 1)
        /\ Block("counters", 0) \in held(Len(entries))
        /\ Block("info", 0) \in held(Len(entries))
    BY DEF Names, Block
  <2>2. /\ \A k, n : b = Block(k, n) => b[1] <= calls
        /\ b \in base => b[1] <= calls
        /\ \A n : b \in held(n) => b[1] <= calls
        /\ \A n : b \in part(n) => b[1] <= calls
    BY <2>0, <2>1 DEF Names
  <2>3. ASSUME UNCHANGED calls
        PROVE  /\ \A k, n : Block(k, n)' = Block(k, n)
               /\ \A n : held(n)' = held(n)
               /\ \A n : part(n)' = part(n)
               /\ base' = base
    BY <2>3 DEF Names, Block
  <2>4. Entered = held(Len(entries)) /\ PartStrings = part(Len(parts))
    BY DEF Entered, PartStrings
  <2> HIDE DEF base, held, part
  <2>5. Accounted(b) <=>
          /\ b[1] <= calls
          /\ \/ pc = "crashed"
             \/ b[2] = "counters" /\ failures > 0
             \/ pc \in Reading /\ b \in base \cup part(Len(parts))
             \/ pc = "diskstats" /\ b \in held(Len(entries))
             \/ pc = "netdev" /\ b \in held(Len(entries)) \cup {Block("line", 0)}
             \/ pc = "done" /\ answer # NULL /\ b \in held(Len(answer))
    BY <2>4 DEF Accounted, base, held
  <2>6. ASSUME UNCHANGED calls, NEW n \in Nat, n = Len(entries'),
               NEW p \in Nat, p = Len(parts'),
               \/ pc' = "crashed"
               \/ b[2] = "counters" /\ failures' > 0
               \/ pc' \in Reading /\ b \in base \cup part(p)
               \/ pc' = "diskstats" /\ b \in held(n)
               \/ pc' = "netdev" /\ b \in held(n) \cup {Block("line", 0)},
               b[1] <= calls
        PROVE  Accounted(b)'
    <3>1. Entered' = held(n) /\ PartStrings' = part(p)
      BY <2>3, <2>6 DEF Entered, PartStrings, held, part
    <3>2. /\ {Block(k, 0) : k \in {"line", "partitions", "info"}}' = base
          /\ {Block("line", 0)}' = {Block("line", 0)}
      BY <2>3, <2>6 DEF base
    <3>3. QED
      BY <2>6, <3>1, <3>2 DEF Accounted
  <2>7. ASSUME NEW d \in Device, Plug(d) \/ Unplug(d)
        PROVE  Accounted(b)'
    <3>1. UNCHANGED <<pc, fn, parts, entries, answer, heap, calls, failures>>
      BY <2>7 DEF Plug, Unplug
    <3>2. QED
      BY <2>0, <3>1 DEF Accounted, Entered, PartStrings, Names, Block
  <2>8. ASSUME NEW f \in {"disk", "net"}, Call(f)
        PROVE  Accounted(b)'
    <3>1. /\ b[2] = "counters" /\ failures > 0 /\ UNCHANGED failures
          /\ b[1] <= calls /\ calls' = calls + 1 /\ b[1] \in Nat
      BY <2>0, <2>8 DEF Call, Accounted, TypeOK
    <3>2. b[1] <= calls'
      BY <2>0, <3>1
    <3>3. QED
      BY <3>1, <3>2 DEF Accounted
  <2>9. CASE OpenFails
    <3>1. /\ b[2] = "counters" /\ failures > 0 /\ failures' = failures + 1
          /\ b[1] <= calls /\ UNCHANGED calls
      BY <2>0, <2>9 DEF OpenFails, Accounted
    <3>2. QED
      BY <2>0, <3>1 DEF Accounted
  <2>10. CASE OpenPartitions
    <3>1. /\ UNCHANGED <<calls, entries, parts, failures>> /\ pc = "open" /\ pc' = "partitions"
          /\ b \in heap \/ b \in base
      BY <2>10 DEF OpenPartitions, base
    <3>2. QED
      BY <2>0, <2>2, <2>5, <2>6, <3>1
  <2>11. CASE SkipDevice \/ SkipStats \/ ClosePartitions
    <3>1. /\ UNCHANGED <<calls, entries, parts, failures>> /\ b \in heap
          /\ pc \in Reading /\ pc' \in Reading
          /\ pc = "diskstats" => pc' = "diskstats"
      BY <2>11 DEF SkipDevice, SkipStats, ClosePartitions
    <3>2. /\ Len(entries') = Len(entries) /\ Len(parts') = Len(parts) /\ b[1] <= calls
          /\ \/ b[2] = "counters" /\ failures' > 0
             \/ b \in base \cup part(Len(parts))
             \/ pc' = "diskstats" /\ b \in held(Len(entries))
      BY <2>0, <2>5, <3>1
    <3>3. QED
      BY <2>0, <2>6, <3>1, <3>2
  <2>12. CASE KeepName
    <3>1. CASE pc' = "crashed"
      <4>1. b \in heap /\ UNCHANGED calls
        BY <2>12, <3>1 DEF KeepName
      <4>2. QED
        BY <2>0, <3>1, <4>1 DEF Accounted
    <3>2. CASE pc' # "crashed"
      <4>1. /\ UNCHANGED <<calls, entries, failures>>
            /\ pc = "partitions" /\ pc' = "partitions"
            /\ parts' = Append(parts, Kept[disks[pos + 1]])
            /\ b \in heap \/ b = Block("part", Len(parts) + 1)
        BY <2>12, <3>2 DEF KeepName
      <4>2. /\ Len(parts') = Len(parts) + 1 /\ Len(parts) + 1 \in Nat
            /\ Len(parts) <= Len(parts) + 1
        BY <2>0, <4>1 DEF TypeOK
      <4>3. PICK n \in Nat : n = Len(parts) + 1
        BY <4>2
      <4>4. part(Len(parts)) \subseteq part(n) /\ Block("part", n) \in part(n)
        BY <2>0, <2>1, <4>2, <4>3
      <4>5. b[1] <= calls
        BY <2>0, <2>2, <4>1 DEF Accounted
      <4>6. QED
        BY <2>0, <2>5, <2>6, <4>1, <4>2, <4>3, <4>4, <4>5
    <3>3. QED
      BY <3>1, <3>2
  <2>13. ASSUME NEW owned, NEW h, Error(owned, h), pc \in Reading,
                b \in h => b \in heap \/ b = Block("counters", 0),
                pc = "diskstats" => owned = held(Len(entries)) \ {Block("info", 0)}
         PROVE  Accounted(b)'
    <3>1. /\ b \in h /\ b \notin base /\ b \notin PartStrings /\ b \notin owned
          /\ UNCHANGED calls /\ failures' = failures + 1
      BY <2>13 DEF Error, base
    <3>2. Block("info", 0) \in base
      BY DEF base
    <3>3. b[2] = "counters" /\ b[1] <= calls
      BY <2>0, <2>1, <2>2, <2>4, <2>5, <2>13, <3>1, <3>2
    <3>4. QED
      BY <2>0, <3>1, <3>3 DEF Accounted
  <2>14. CASE KeepNameFails \/ OpenDiskstatsFails \/ CopyStatsFails
    <3>1. CASE KeepNameFails
      BY <2>13, <3>1 DEF KeepNameFails
    <3>2. CASE OpenDiskstatsFails
      BY <2>13, <3>2 DEF OpenDiskstatsFails
    <3>3. CASE CopyStatsFails
      <4>1. {Block("counters", 0)} \cup Names(Len(entries)) = held(Len(entries)) \ {Block("info", 0)}
        BY DEF held, Names, Block
      <4>2. QED
        BY <2>13, <3>3, <4>1 DEF CopyStatsFails
    <3>4. QED
      BY <2>14, <3>1, <3>2, <3>3
  <2>15. CASE OpenDiskstats
    <3>1. /\ UNCHANGED <<calls, entries, parts, failures>>
          /\ pc = "counters" /\ pc' = "diskstats"
          /\ b \in heap \/ b = Block("counters", 0)
      BY <2>15 DEF OpenDiskstats
    <3>2. QED
      BY <2>0, <2>1, <2>2, <2>5, <2>6, <3>1
  <2>16. CASE CopyStats \/ CopyInterface
    <3>1. CASE pc' = "crashed"
      <4>1. b \in heap /\ UNCHANGED calls
        BY <2>16, <3>1, SizeAssumption DEF CopyStats, CopyInterface
      <4>2. QED
        BY <2>0, <3>1, <4>1 DEF Accounted
    <3>2. CASE pc' # "crashed"
      <4>1. /\ UNCHANGED <<pc, calls, parts>> /\ failures' \in {failures, failures + 1}
            /\ pc \in {"diskstats", "netdev"}
            /\ Len(entries') = Len(entries) + 1
            /\ b \in heap \/ b = Block("name", Len(entries) + 1)
        BY <2>16, <3>2 DEF CopyStats, CopyInterface, TypeOK
      <4>2. PICK n \in Nat : n = Len(entries) + 1
        BY <2>0
      <4>3. held(Len(entries)) \subseteq held(n) /\ Block("name", n) \in held(n)
        BY <2>0, <2>1, <4>2
      <4>4. b[1] <= calls
        BY <2>0, <2>2, <4>1 DEF Accounted
      <4>5. QED
        BY <2>0, <2>5, <2>6, <4>1, <4>2, <4>3, <4>4
    <3>3. QED
      BY <3>1, <3>2
  <2>17. CASE EndOfDiskstats \/ EndOfNetDev
    <3>1. /\ UNCHANGED <<calls, entries, failures>> /\ pc' = "done" /\ answer' = entries
          /\ b \in heap
          /\ \/ pc = "diskstats" /\ b \notin PartStrings
                /\ b # Block("line", 0) /\ b # Block("partitions", 0)
             \/ pc = "netdev" /\ b # Block("line", 0)
      BY <2>17 DEF EndOfDiskstats, EndOfNetDev
    <3>2. b \in base => b \in {Block("line", 0), Block("partitions", 0), Block("info", 0)}
      BY DEF base
    <3>3. /\ b[1] <= calls
          /\ \/ b[2] = "counters" /\ failures > 0
             \/ b \in held(Len(entries))
      BY <2>0, <2>1, <2>4, <2>5, <3>1, <3>2
    <3>4. PICK n \in Nat : n = Len(entries)
      BY <2>0
    <3>5. {Block("info", 0), Block("counters", 0)}' \cup Names(n)' = held(n)
      BY <2>3, <3>1 DEF held
    <3>6. answer' # NULL
      BY <3>1, SentinelAssumption DEF TypeOK
    <3>7. QED
      BY <3>1, <3>3, <3>4, <3>5, <3>6 DEF Accounted
  <2>18. CASE OpenNetDev
    <3>1. /\ UNCHANGED <<calls, entries, parts, failures>> /\ pc = "open" /\ pc' = "netdev"
          /\ \/ b \in heap
             \/ b \in {Block("info", 0), Block("counters", 0), Block("line", 0)}
      BY <2>18 DEF OpenNetDev
    <3>2. QED
      BY <2>0, <2>1, <2>2, <2>5, <2>6, <3>1
  <2>19. CASE SkipHeader
    <3>1. /\ UNCHANGED <<pc, calls, entries, parts, failures>> /\ b \in heap /\ pc = "netdev"
      BY <2>19 DEF SkipHeader
    <3>2. QED
      BY <2>0, <2>5, <2>6, <3>1
  <2>20. CASE Release
    <3>1. /\ pc = "done" /\ UNCHANGED <<calls, failures>> /\ b \in heap
          /\ answer # NULL => b \notin held(Len(answer))
      BY <2>20 DEF Release, held
    <3>2. QED
      BY <2>0, <2>5, <3>1 DEF Accounted
  <2>21. CASE UNCHANGED vars
    BY <2>0, <2>21 DEF Accounted, Entered, PartStrings, Names, Block, vars
  <2>22. QED
    BY <2>7, <2>8, <2>9, <2>10, <2>11, <2>12, <2>14, <2>15, <2>16, <2>17, <2>18,
       <2>19, <2>20, <2>21 DEF Next, library
<1>3. HeapInv /\ TypeOK /\ Streams => AllReleased
  BY DEF HeapInv, Accounted, Streams, TypeOK, AllReleased
<1>4. QED
  BY <1>1, <1>2, <1>3, TypeCorrect, PTL DEF Spec
-----------------------------------------------------------------------------
(***************************************************************************)
(* The lines and the entries.                                              *)
(***************************************************************************)

(* OrderInv: while no device has gone away, what has been read of the      *)
(* open file is a stretch of the kernel's list, and the two arrays have    *)
(* what belongs to it, in its order.                                       *)
LEMMA LinesKept == Spec => []OrderInv
<1> USE DEF Goto, Fail, Reading
<1>1. Init => OrderInv
  BY DEF Init, OrderInv, PartsInv, StatsInv, NetInv, Distinct
<1>2. OrderInv /\ TypeOK /\ Streams /\ [Next]_vars => OrderInv'
  <2> SUFFICES ASSUME PartsInv, StatsInv, NetInv, TypeOK, Streams, [Next]_vars
               PROVE  OrderInv'
    BY DEF OrderInv
  <2>0. /\ Len(disks) \in Nat /\ Len(present) \in Nat /\ pos \in Nat /\ failures \in Nat
        /\ Len(parts) \in Nat /\ Len(entries) \in Nat
        /\ disks \in Seq(Device) /\ Distinct(disks)
    BY DEF TypeOK, PartsInv
  <2>1. ASSUME NEW d \in Device, Plug(d)
        PROVE  OrderInv'
    <3>1. /\ d \notin Elements(disks) /\ disks' = Append(disks, d)
          /\ UNCHANGED <<pc, fn, i, pos, parts, entries, failures, present, removed>>
      BY <2>1 DEF Plug
    <3>2. /\ Len(disks') = Len(disks) + 1
          /\ \A k \in 1 .. Len(disks) : disks'[k] = disks[k] /\ k \in 1 .. Len(disks')
          /\ disks'[Len(disks) + 1] = d
      BY <2>0, <3>1
    <3>3. Distinct(disks')
      <4> SUFFICES ASSUME NEW j \in 1 .. Len(disks'), NEW k \in 1 .. Len(disks'), j < k
                   PROVE  disks'[j] # disks'[k]
        BY DEF Distinct
      <4>1. j \in 1 .. Len(disks) /\ disks'[j] = disks[j]
        BY <2>0, <3>2
      <4>2. CASE k = Len(disks) + 1
        BY <3>1, <3>2, <4>1, <4>2 DEF Elements
      <4>3. CASE k # Len(disks) + 1
        <5>1. k \in 1 .. Len(disks) /\ disks'[k] = disks[k]
          BY <2>0, <3>2, <4>3
        <5>2. QED
          BY <2>0, <4>1, <5>1 DEF Distinct
      <4>4. QED
        BY <4>2, <4>3
    <3>4. Elements(disks) \subseteq Elements(disks')
      BY <3>2 DEF Elements
    <3>5. ASSUME ~removed
          PROVE  /\ Len(present) <= Len(disks')
                 /\ \A k \in 1 .. Len(present) : present[k] = disks'[k]
      BY <2>0, <3>2, <3>5 DEF PartsInv
    <3>6. ASSUME ~removed, pc \in {"partitions", "diskstats"}
          PROVE  pos <= Len(disks) /\ \A k \in 1 .. pos : disks'[k] = disks[k]
      BY <2>0, <3>2, <3>6 DEF PartsInv, StatsInv
    <3>7. PartsInv'
      BY <2>0, <3>1, <3>2, <3>3, <3>4, <3>5, <3>6 DEF PartsInv, Wanted
    <3>8. StatsInv'
      <4>1. CASE pc = "diskstats" /\ ~removed
        <5>1. /\ pos <= Len(disks') /\ \A k \in 1 .. pos : disks'[k] = disks[k]
          BY <2>0, <3>2, <3>6, <4>1
        <5>2. /\ \A k \in 1 .. pos :
                   disks'[k] \in Elements(parts) => disks'[k] \in Elements(entries)
              /\ \A j \in 1 .. Len(entries) : \E m \in 1 .. pos : disks'[m] = entries[j]
          <6>1. /\ \A k \in 1 .. pos :
                     disks[k] \in Elements(parts) => disks[k] \in Elements(entries)
                /\ \A j \in 1 .. Len(entries) : \E m \in 1 .. pos : disks[m] = entries[j]
            BY <4>1 DEF StatsInv
          <6>2. QED
            BY <5>1, <6>1
        <5>3. InOrder(entries, disks, pos)
          BY <4>1 DEF StatsInv
        <5>4. InOrder(entries, disks', pos)
          <6> SUFFICES ASSUME NEW j \in 1 .. Len(entries), NEW k \in 1 .. Len(entries), j < k
                       PROVE  \E m, n \in 1 .. pos :
                                m < n /\ disks'[m] = entries[j] /\ disks'[n] = entries[k]
            BY DEF InOrder
          <6>1. PICK m \in 1 .. pos, n \in 1 .. pos :
                  m < n /\ disks[m] = entries[j] /\ disks[n] = entries[k]
            BY <5>3 DEF InOrder
          <6>2. QED
            BY <5>1, <6>1
        <5>5. QED
          BY <3>1, <4>1, <5>1, <5>2, <5>4 DEF StatsInv
      <4>2. CASE ~(pc = "diskstats" /\ ~removed)
        BY <3>1, <4>2 DEF StatsInv
      <4>3. QED
        BY <4>1, <4>2
    <3>9. ASSUME ~removed, pc = "netdev"
          PROVE  /\ pos <= Len(disks') + 2
                 /\ \A j \in 1 .. Len(entries) : entries[j] \in {disks'[j], NULL}
      <4>1. Len(entries) + 2 = pos \/ Len(entries) = 0
        BY <3>9, SizeAssumption DEF NetInv, TypeOK
      <4>2. QED
        BY <2>0, <3>2, <3>9, <4>1 DEF NetInv
    <3>10. NetInv'
      BY <3>1, <3>9 DEF NetInv
    <3>11. QED
      BY <3>7, <3>8, <3>10 DEF OrderInv
  <2>2. ASSUME NEW d \in Device, Unplug(d)
        PROVE  OrderInv'
    <3>1. /\ Distinct(disks') /\ removed'
          /\ UNCHANGED <<pc, i, pos, parts, entries, failures>>
      BY <2>0, <2>2, Removed DEF Unplug
    <3>2. QED
      BY <3>1 DEF OrderInv, PartsInv, StatsInv, NetInv
  <2>3. ASSUME NEW f \in {"disk", "net"}, Call(f)
        PROVE  OrderInv'
    BY <2>0, <2>3 DEF Call, OrderInv, PartsInv, StatsInv, NetInv
  <2>4. ASSUME UNCHANGED <<disks, present, removed>>, pc' \in {"idle", "done", "crashed"}
        PROVE  OrderInv'
    BY <2>4 DEF OrderInv, PartsInv, StatsInv, NetInv
  <2>5. CASE OpenFails \/ KeepNameFails \/ OpenDiskstatsFails \/ CopyStatsFails \/ Release
             \/ EndOfDiskstats \/ EndOfNetDev
    BY <2>4, <2>5 DEF OpenFails, KeepNameFails, OpenDiskstatsFails, CopyStatsFails, Error,
                      EndOfDiskstats, EndOfNetDev, Release
  <2>6. CASE OpenPartitions \/ OpenDiskstats
    <3>1. /\ UNCHANGED <<disks, present, removed, parts, entries>> /\ pos' = 0
          /\ \/ pc = "open" /\ pc' = "partitions"
             \/ pc = "counters" /\ pc' = "diskstats"
      BY <2>6 DEF OpenPartitions, OpenDiskstats
    <3>2. Elements(<<>>) = {} /\ Len(<<>>) = 0 /\ InOrder(<<>>, disks, 0)
      BY DEF Elements, InOrder
    <3>3. entries = <<>> /\ (pc = "open" => parts = <<>>)
      BY <3>1 DEF StatsInv, PartsInv
    <3>4. PartsInv'
      BY <2>0, <3>1, <3>2, <3>3 DEF PartsInv
    <3>5. StatsInv'
      BY <2>0, <3>1, <3>2, <3>3 DEF StatsInv
    <3>6. QED
      BY <3>1, <3>4, <3>5 DEF OrderInv, NetInv
  <2>7. CASE ClosePartitions
    <3>1. /\ UNCHANGED <<disks, present, removed, parts, entries>>
          /\ pc = "partitions" /\ pc' = "counters" /\ pos >= Len(disks)
      BY <2>7 DEF ClosePartitions
    <3>2. ~removed => \A k \in 1 .. Len(present) : k \in 1 .. pos /\ present[k] = disks[k]
      BY <2>0, <3>1 DEF PartsInv
    <3>3. PartsInv'
      BY <3>1, <3>2 DEF PartsInv
    <3>4. QED
      BY <3>1, <3>3 DEF OrderInv, StatsInv, NetInv
  <2>8. CASE SkipDevice \/ SkipStats
    <3>1. /\ UNCHANGED <<disks, present, removed, parts, entries, pc>> /\ pos' = pos + 1
          /\ pos < Len(disks) /\ pos + 1 <= Len(disks)
          /\ \/ pc = "partitions" /\ ~Wanted(disks[pos + 1])
             \/ pc = "diskstats" /\ disks[pos + 1] \notin Elements(parts)
      BY <2>0, <2>8 DEF SkipDevice, SkipStats
    <3>2. /\ \A k \in 1 .. pos + 1 : k = pos + 1 \/ k \in 1 .. pos
          /\ \A k \in 1 .. pos : k \in 1 .. pos + 1
      BY <2>0
    <3>3. PartsInv'
      BY <2>0, <3>1, <3>2 DEF PartsInv, Wanted
    <3>4. StatsInv'
      <4>1. CASE pc = "partitions"
        BY <3>1, <4>1 DEF StatsInv
      <4>2. CASE pc = "diskstats" /\ ~removed
        <5>1. /\ \A k \in 1 .. pos + 1 :
                   disks[k] \in Elements(parts) => disks[k] \in Elements(entries)
              /\ \A j \in 1 .. Len(entries) : \E m \in 1 .. pos + 1 : disks[m] = entries[j]
          BY <3>1, <3>2, <4>2 DEF StatsInv
        <5>2. InOrder(entries, disks, pos + 1)
          BY <3>2, <4>2 DEF StatsInv, InOrder
        <5>3. QED
          BY <3>1, <4>2, <5>1, <5>2 DEF StatsInv
      <4>3. CASE removed
        BY <3>1, <4>3 DEF StatsInv
      <4>4. QED
        BY <3>1, <4>1, <4>2, <4>3
    <3>5. QED
      BY <3>1, <3>3, <3>4 DEF OrderInv, NetInv
  <2>9. CASE KeepName
    <3>1. CASE pc' = "crashed"
      BY <2>4, <2>9, <3>1 DEF KeepName
    <3>2. CASE pc' # "crashed"
      <4> DEFINE d == disks[pos + 1]
                 names == {Kept[x] : x \in {y \in Elements(disks) : Wanted(y)}}
      <4>1. /\ UNCHANGED <<disks, present, removed, entries, pc>> /\ pos' = pos + 1
            /\ pos < Len(disks) /\ pos + 1 \in 1 .. Len(disks) /\ pos + 1 <= Len(disks)
            /\ pc = "partitions" /\ Wanted(d)
            /\ parts' = Append(parts, Kept[d])
        BY <2>0, <2>9, <3>2 DEF KeepName
      <4>2. /\ parts \in Seq(Device \cup {"?"}) /\ d \in Elements(disks)
            /\ d \in Device /\ Kept[d] \in Device \cup {"?"}
        BY <2>0, <4>1, KeptAssumption DEF Elements, TypeOK
      <4>3. Elements(parts') = Elements(parts) \cup {Kept[d]}
        <5>1. /\ Len(parts') = Len(parts) + 1 /\ parts'[Len(parts) + 1] = Kept[d]
              /\ \A k \in 1 .. Len(parts) : parts'[k] = parts[k]
          BY <4>1, <4>2
        <5>2. QED
          BY <2>0, <5>1 DEF Elements
      <4>4. \A k \in 1 .. pos + 1 : k = pos + 1 \/ k \in 1 .. pos
        BY <2>0
      <4>5. Kept[d] \in names
        BY <4>1, <4>2
      <4>6. /\ ~removed => Elements(parts') \subseteq names
            /\ ~removed => \A k \in 1 .. pos + 1 :
                             Wanted(disks[k]) => Kept[disks[k]] \in Elements(parts')
        BY <4>1, <4>3, <4>4, <4>5 DEF PartsInv
      <4>7. PartsInv'
        BY <4>1, <4>6 DEF PartsInv, Wanted
      <4>8. QED
        BY <4>1, <4>7 DEF OrderInv, StatsInv, NetInv
    <3>3. QED
      BY <3>1, <3>2
  <2>10. CASE CopyStats
    <3>1. CASE pc' = "crashed"
      BY <2>4, <2>10, <3>1 DEF CopyStats
    <3>2. CASE pc' # "crashed"
      <4> DEFINE d == disks[pos + 1]
      <4>1. /\ UNCHANGED <<disks, present, removed, parts, pc>> /\ pos' = pos + 1
            /\ pos < Len(disks) /\ pos + 1 \in 1 .. Len(disks) /\ pos + 1 <= Len(disks)
            /\ pc = "diskstats" /\ d \in Elements(parts)
            /\ entries' = Append(entries, d)
        BY <2>0, <2>10, <3>2 DEF CopyStats
      <4>2. d \in Device /\ entries \in Seq(Device \cup {NULL})
        BY <2>0, <4>1 DEF TypeOK
      <4> HIDE DEF d
      <4>3. /\ Len(entries') = Len(entries) + 1 /\ entries'[Len(entries) + 1] = d
            /\ \A k \in 1 .. Len(entries) : entries'[k] = entries[k]
        BY <4>1, <4>2
      <4>4. Elements(entries') = Elements(entries) \cup {d}
        BY <2>0, <4>3 DEF Elements
      <4>5. /\ \A k \in 1 .. pos + 1 : k = pos + 1 \/ k \in 1 .. pos
            /\ \A k \in 1 .. pos : k \in 1 .. pos + 1 /\ k < pos + 1
            /\ pos + 1 \in 1 .. pos + 1
            /\ \A k \in 1 .. Len(entries) + 1 : k = Len(entries) + 1 \/ k \in 1 .. Len(entries)
        BY <2>0
      <4>6. Elements(entries') \subseteq Elements(parts) \cap Device
        BY <4>1, <4>2, <4>4 DEF StatsInv
      <4>7. ASSUME removed
            PROVE  StatsInv'
        BY <4>1, <4>6, <4>7 DEF StatsInv
      <4>8. ASSUME ~removed
            PROVE  StatsInv'
        <5>1. d = disks[pos + 1]
          BY DEF d
        <5>2. \A k \in 1 .. pos + 1 :
                disks[k] \in Elements(parts) => disks[k] \in Elements(entries')
          BY <4>1, <4>4, <4>5, <4>8, <5>1 DEF StatsInv
        <5>3. \A j \in 1 .. Len(entries') : \E m \in 1 .. pos + 1 : disks[m] = entries'[j]
          BY <4>1, <4>3, <4>5, <4>8, <5>1 DEF StatsInv
        <5>4. ASSUME NEW j \in 1 .. Len(entries'), NEW k \in 1 .. Len(entries'), j < k
              PROVE  \E m, n \in 1 .. pos + 1 :
                       m < n /\ disks[m] = entries'[j] /\ disks[n] = entries'[k]
          <6>1. j \in 1 .. Len(entries) /\ entries'[j] = entries[j]
            BY <2>0, <4>3, <5>4
          <6>2. CASE k = Len(entries) + 1
            <7>1. PICK m \in 1 .. pos : disks[m] = entries[j]
              BY <4>1, <4>8, <6>1 DEF StatsInv
            <7>2. QED
              BY <4>3, <4>5, <5>1, <6>1, <6>2, <7>1
          <6>3. CASE k # Len(entries) + 1
            <7>1. k \in 1 .. Len(entries) /\ entries'[k] = entries[k]
              BY <4>3, <4>5, <6>3
            <7>2. PICK m, n \in 1 .. pos :
                         m < n /\ disks[m] = entries[j] /\ disks[n] = entries[k]
              BY <4>1, <4>8, <5>4, <6>1, <7>1 DEF StatsInv, InOrder
            <7>3. QED
              BY <4>5, <6>1, <7>1, <7>2
          <6>4. QED
            BY <6>2, <6>3
        <5>5. InOrder(entries', disks, pos + 1)
          BY <5>4 DEF InOrder
        <5>6. QED
          BY <4>1, <4>6, <4>8, <5>2, <5>3, <5>5 DEF StatsInv
      <4>9. PartsInv'
        BY <4>1 DEF PartsInv
      <4>10. QED
        BY <4>1, <4>7, <4>8, <4>9 DEF OrderInv, NetInv
    <3>3. QED
      BY <3>1, <3>2
  <2>11. CASE OpenNetDev \/ SkipHeader
    <3>1. /\ UNCHANGED <<disks, present, removed, parts, entries, failures>>
          /\ pc' = "netdev" /\ pc \in {"open", "netdev"}
          /\ entries = <<>> /\ i' = pos' /\ i' \in {0, 1, 2}
          /\ pos' <= Len(disks) + 2
      <4>1. CASE OpenNetDev
        BY <2>0, <4>1 DEF OpenNetDev, Streams, StatsInv
      <4>2. CASE SkipHeader
        <5>1. i \in 0 .. 4 /\ i < 2 /\ i' = i + 1 /\ pos = i /\ entries = <<>>
          BY <4>2 DEF SkipHeader, TypeOK, NetInv
        <5>2. i + 1 \in {0, 1, 2}
          BY <5>1
        <5>3. QED
          BY <2>0, <4>2, <5>1, <5>2 DEF SkipHeader
      <4>3. QED
        BY <2>11, <4>1, <4>2
    <3>2. Len(<<>>) = 0 /\ Elements(<<>>) = {}
      BY DEF Elements
    <3>3. NetInv'
      BY <2>0, <3>1, <3>2 DEF NetInv
    <3>4. QED
      BY <3>1, <3>3 DEF OrderInv, PartsInv, StatsInv
  <2>12. CASE CopyInterface
    <3>1. CASE pc' = "crashed"
      BY <2>4, <2>12, <3>1 DEF CopyInterface
    <3>2. CASE pc' # "crashed"
      <4>1. /\ UNCHANGED <<disks, present, removed, parts, pc>> /\ pos' = pos + 1
            /\ pc = "netdev" /\ i' = 4 /\ pos < 2 + Len(disks) /\ Len(entries) + 2 = pos
        BY <2>12, <3>2 DEF CopyInterface, SkipFields, NetInv
      <4>2. PICK name \in {disks[pos - 1], NULL} :
              /\ entries' = Append(entries, name)
              /\ \/ name = disks[pos - 1] /\ UNCHANGED failures
                 \/ failures' = failures + 1
        BY <2>12, <3>2 DEF CopyInterface
      <4>3. disks[pos - 1] \in Device /\ pos - 1 = Len(entries) + 1
        BY <2>0, <4>1
      <4>4. /\ Len(entries') = Len(entries) + 1 /\ entries'[Len(entries) + 1] = name
            /\ \A k \in 1 .. Len(entries) : entries'[k] = entries[k]
            /\ \A k \in 1 .. Len(entries) + 1 : k = Len(entries) + 1 \/ k \in 1 .. Len(entries)
        BY <2>0, <4>2, <4>3 DEF TypeOK
      <4>5. failures' = 0 => name # NULL /\ failures = 0
        BY <2>0, <4>2, <4>3, SentinelAssumption
      <4>6. failures' = 0 => NULL \notin Elements(entries')
        BY <4>1, <4>4, <4>5 DEF NetInv, Elements
      <4>7. ~removed => \A j \in 1 .. Len(entries') : entries'[j] \in {disks[j], NULL}
        BY <4>1, <4>2, <4>3, <4>4 DEF NetInv
      <4>8. NetInv'
        BY <2>0, <4>1, <4>4, <4>6, <4>7 DEF NetInv
      <4>9. QED
        BY <4>1, <4>8 DEF OrderInv, PartsInv, StatsInv
    <3>3. QED
      BY <3>1, <3>2
  <2>13. CASE UNCHANGED vars
    BY <2>13 DEF OrderInv, PartsInv, StatsInv, NetInv, vars
  <2>14. QED
    BY <2>1, <2>2, <2>3, <2>5, <2>6, <2>7, <2>8, <2>9, <2>10, <2>11, <2>12, <2>13
       DEF Next, library
<1>3. QED
  BY <1>1, <1>2, TypeCorrect, PTL DEF Spec

(* CompleteWithoutRemoval: if no device goes away during the call, the     *)
(* answer is complete, in the kernel's order and without repetition, and   *)
(* has no device that came too late for /proc/partitions.                  *)
THEOREM ListingsComplete == Spec => []CompleteWithoutRemoval
<1> USE DEF Goto, Fail, Reading
<1>1. Init => CompleteWithoutRemoval
  BY DEF Init, CompleteWithoutRemoval
<1>2. CompleteWithoutRemoval /\ OrderInv /\ TypeOK /\ Streams /\ [Next]_vars
        => CompleteWithoutRemoval'
  <2> SUFFICES ASSUME CompleteWithoutRemoval, PartsInv, StatsInv, NetInv, TypeOK, Streams,
                      [Next]_vars
               PROVE  CompleteWithoutRemoval'
    BY DEF OrderInv
  <2> DEFINE names == {Kept[d] : d \in {x \in Elements(disks) : x \in EndsInDigit}}
  <2>0. /\ Len(disks) \in Nat /\ pos \in Nat /\ Len(entries) \in Nat /\ disks \in Seq(Device)
        /\ Len(present) \in Nat /\ i \in 0 .. 4
    BY DEF TypeOK
  <2>1. ASSUME \/ pc' # "done"
               \/ answer' = NULL
               \/ removed'
        PROVE  CompleteWithoutRemoval'
    BY <2>1 DEF CompleteWithoutRemoval
  <2>2. ASSUME NEW d \in Device, Plug(d)
        PROVE  CompleteWithoutRemoval'
    <3>1. /\ disks' = Append(disks, d)
          /\ UNCHANGED <<pc, fn, answer, removed, present>>
      BY <2>2 DEF Plug
    <3>2. /\ Len(disks') = Len(disks) + 1
          /\ \A k \in 1 .. Len(disks) : disks'[k] = disks[k] /\ k \in 1 .. Len(disks')
      BY <2>0, <3>1
    <3>3. Elements(disks) \subseteq Elements(disks')
      BY <3>2 DEF Elements
    <3>4. \A x, y : Before(x, y) => Before(x, y)'
      BY <3>2 DEF Before
    <3>5. QED
      BY <3>1, <3>3, <3>4 DEF CompleteWithoutRemoval
  <2>3. ASSUME NEW d \in Device, Unplug(d)
        PROVE  CompleteWithoutRemoval'
    BY <2>1, <2>3 DEF Unplug
  <2>4. CASE \/ \E f \in {"disk", "net"} : Call(f)
             \/ OpenFails \/ OpenPartitions \/ SkipDevice \/ KeepName \/ KeepNameFails
             \/ ClosePartitions \/ OpenDiskstats \/ OpenDiskstatsFails
    BY <2>1, <2>4 DEF Call, OpenFails, OpenPartitions, SkipDevice, KeepName, KeepNameFails,
                      ClosePartitions, OpenDiskstats, OpenDiskstatsFails, Error, Streams
  <2>5. CASE \/ SkipStats \/ CopyStats \/ CopyStatsFails \/ OpenNetDev \/ SkipHeader
             \/ CopyInterface \/ Release
    BY <2>1, <2>5 DEF SkipStats, CopyStats, CopyStatsFails, OpenNetDev, SkipHeader,
                      CopyInterface, Release, Error, Streams
  <2>6. CASE EndOfDiskstats
    <3> SUFFICES ASSUME ~removed
                 PROVE  CompleteWithoutRemoval'
      BY <2>1, <2>6 DEF EndOfDiskstats
    <3>1. /\ UNCHANGED <<disks, fn, present, removed>> /\ answer' = entries
          /\ pc = "diskstats" /\ fn = "disk" /\ pos = Len(disks)
      BY <2>0, <2>6 DEF EndOfDiskstats, Streams, StatsInv
    <3>2. Elements(entries) \subseteq Elements(disks)
      BY <3>1 DEF StatsInv, Elements
    <3>3. \A j, k \in 1 .. Len(entries) : j < k => Before(entries[j], entries[k])
      BY <3>1 DEF StatsInv, InOrder, Before
    <3>4. ASSUME NEW d \in Elements(present), d \in EndsInDigit, Kept[d] = d
          PROVE  d \in Elements(entries)
      <4>1. PICK k \in 1 .. Len(present) : d = present[k]
        BY DEF Elements
      <4>2. k \in 1 .. pos /\ disks[k] = d /\ d \in Elements(parts)
        BY <2>0, <3>1, <3>4, <4>1 DEF PartsInv, Wanted
      <4>3. QED
        BY <3>1, <4>2 DEF StatsInv
    <3>5. Elements(entries) \subseteq names
      BY <3>1 DEF StatsInv, PartsInv, Wanted
    <3>6. QED
      BY <3>1, <3>2, <3>3, <3>4, <3>5 DEF CompleteWithoutRemoval, Before
  <2>7. CASE EndOfNetDev
    <3> SUFFICES ASSUME ~removed, NULL \notin Elements(entries)
                 PROVE  CompleteWithoutRemoval'
      BY <2>7 DEF EndOfNetDev, CompleteWithoutRemoval
    <3>1. /\ UNCHANGED <<disks, fn, present, removed>> /\ answer' = entries
          /\ pc = "netdev" /\ fn = "net" /\ pos >= 2 + Len(disks)
      BY <2>7 DEF EndOfNetDev, Streams
    <3>2. Len(entries) = Len(disks)
      BY <2>0, <3>1 DEF NetInv, Streams
    <3>3. \A j \in 1 .. Len(disks) : entries[j] = disks[j]
      BY <3>1, <3>2 DEF NetInv, Elements
    <3>4. Elements(entries) = Elements(disks)
      BY <3>2, <3>3 DEF Elements
    <3>5. \A j, k \in 1 .. Len(entries) : j < k => Before(entries[j], entries[k])
      BY <3>2, <3>3 DEF Before
    <3>6. Elements(present) \subseteq Elements(disks)
      BY <2>0 DEF PartsInv, Elements
    <3>7. QED
      BY <3>1, <3>4, <3>5, <3>6 DEF CompleteWithoutRemoval, Before
  <2>8. CASE UNCHANGED vars
    BY <2>8 DEF CompleteWithoutRemoval, Before, vars
  <2>9. QED
    BY <2>2, <2>3, <2>4, <2>5, <2>6, <2>7, <2>8 DEF Next, library
<1>3. QED
  BY <1>1, <1>2, TypeCorrect, LinesKept, PTL DEF Spec

(* OverrunNeedsCause: a device met twice has come back; otherwise only too *)
(* many interfaces fill a table beyond its end.  The counters of the block *)
(* devices cannot be too few, since no more names can differ than there    *)
(* are.                                                                    *)
THEOREM OverrunsExplained == Spec => []OverrunNeedsCause
<1> USE DEF Goto, Fail, Reading
<1>1. Init => OverrunNeedsCause
  BY DEF Init, OverrunNeedsCause
<1>2. OverrunNeedsCause /\ OrderInv /\ TypeOK /\ Streams /\ [Next]_vars => OverrunNeedsCause'
  <2> SUFFICES ASSUME OverrunNeedsCause, PartsInv, StatsInv, NetInv, TypeOK, Streams,
                      [Next]_vars
               PROVE  OverrunNeedsCause'
    BY DEF OrderInv
  <2>0. /\ Len(disks) \in Nat /\ pos \in Nat /\ Len(entries) \in Nat /\ Len(parts) \in Nat
        /\ disks \in Seq(Device) /\ parts \in Seq(Device \cup {"?"})
        /\ entries \in Seq(Device \cup {NULL}) /\ Distinct(disks) /\ i \in 0 .. 4
    BY DEF TypeOK, PartsInv
  <2>1. ASSUME fault' # "wild_write" \/ fp' = "partitions"
        PROVE  OverrunNeedsCause'
    BY <2>1 DEF OverrunNeedsCause
  <2>2. ASSUME NEW d \in Device, Plug(d) \/ Unplug(d)
        PROVE  OverrunNeedsCause'
    BY <2>1, <2>2 DEF Plug, Unplug, Streams
  <2>3. CASE \/ \E f \in {"disk", "net"} : Call(f)
             \/ OpenFails \/ OpenPartitions \/ SkipDevice \/ KeepName \/ KeepNameFails
             \/ ClosePartitions \/ OpenDiskstats \/ OpenDiskstatsFails
    BY <2>1, <2>3 DEF Call, OpenFails, OpenPartitions, SkipDevice, KeepName, KeepNameFails,
                      ClosePartitions, OpenDiskstats, OpenDiskstatsFails, Error, Streams
  <2>4. CASE \/ SkipStats \/ CopyStatsFails \/ OpenNetDev \/ SkipHeader \/ Release
             \/ EndOfDiskstats \/ EndOfNetDev
    BY <2>1, <2>4 DEF SkipStats, CopyStatsFails, OpenNetDev, SkipHeader, Release, Error,
                      EndOfDiskstats, EndOfNetDev, Streams
  <2> DEFINE Again(s) == \E j, k \in 1 .. Len(s) : j < k /\ s[j] = s[k] /\ s[j] # NULL
  <2>5. CASE CopyStats
    <3> SUFFICES ASSUME fault' = "wild_write"
                 PROVE  OverrunNeedsCause'
      BY <2>1
    <3> DEFINE d == disks[pos + 1]
               met == Append(entries, d)
    <3>1. /\ UNCHANGED <<disks, fn, entries, removed, failures>> /\ pos' = pos + 1
          /\ pc = "diskstats" /\ fn = "disk" /\ pos < Len(disks) /\ pos + 1 \in 1 .. Len(disks)
          /\ d \in Elements(parts) /\ d \in Device
          /\ ~(Len(entries) < Len(parts))
      BY <2>0, <2>5 DEF CopyStats, HasRoom, Streams
    <3> HIDE DEF d
    <3>2. /\ met \in Seq(Device \cup {NULL}) /\ Len(met) = Len(entries) + 1
          /\ \A k \in 1 .. Len(entries) : met[k] = entries[k]
          /\ met[Len(entries) + 1] = d
      BY <2>0, <3>1
    <3> HIDE DEF met
    <3>3. ASSUME ~removed
          PROVE  ~Again(met)
      <4> SUFFICES ASSUME NEW j \in 1 .. Len(met), NEW k \in 1 .. Len(met), j < k
                   PROVE  met[j] # met[k]
        OBVIOUS
      <4>1. j \in 1 .. Len(entries) /\ met[j] = entries[j]
        BY <2>0, <3>2
      <4>2. CASE k = Len(entries) + 1
        <5>1. PICK m \in 1 .. pos : disks[m] = entries[j]
          BY <3>1, <3>3, <4>1 DEF StatsInv
        <5>2. m \in 1 .. Len(disks) /\ m < pos + 1
          BY <2>0, <3>1
        <5>3. disks[m] # disks[pos + 1]
          BY <2>0, <3>1, <5>2 DEF Distinct
        <5>4. QED
          BY <3>2, <4>1, <4>2, <5>1, <5>3 DEF d
      <4>3. CASE k # Len(entries) + 1
        <5>1. k \in 1 .. Len(entries) /\ met[k] = entries[k]
          BY <2>0, <3>2, <4>3
        <5>2. PICK m, n \in 1 .. pos : m < n /\ disks[m] = entries[j] /\ disks[n] = entries[k]
          BY <3>1, <3>3, <4>1, <5>1 DEF StatsInv, InOrder
        <5>3. m \in 1 .. Len(disks) /\ n \in 1 .. Len(disks)
          BY <2>0, <3>1
        <5>4. QED
          BY <2>0, <4>1, <5>1, <5>2, <5>3 DEF Distinct
      <4>4. QED
        BY <4>2, <4>3
    <3>4. Again(met)
      <4> SUFFICES ASSUME ~Again(met)
                   PROVE  FALSE
        OBVIOUS
      <4>1. Elements(met) \subseteq Elements(parts) /\ NULL \notin Elements(met)
        <5>1. \A k \in 1 .. Len(met) : k = Len(entries) + 1 \/ k \in 1 .. Len(entries)
          BY <2>0, <3>2
        <5>2. /\ \A k \in 1 .. Len(entries) : entries[k] \in Elements(parts) \cap Device
              /\ NULL \notin Device
          BY <3>1, SentinelAssumption DEF StatsInv, Elements
        <5>3. \A k \in 1 .. Len(met) : met[k] \in Elements(parts) \cap Device
          BY <3>1, <3>2, <5>1, <5>2
        <5>4. QED
          BY <5>2, <5>3 DEF Elements
      <4>2. Distinct(met)
        BY <4>1 DEF Distinct, Elements
      <4>3. IsFiniteSet(Elements(parts)) /\ Cardinality(Elements(parts)) <= Len(parts)
        <5> DEFINE f == [k \in 1 .. Len(parts) |-> parts[k]]
        <5>1. Len(parts) \in Nat /\ 1 \in Int /\ Len(parts) \in Int
          BY <2>0
        <5>2. IsFiniteSet(1 .. Len(parts)) /\ Cardinality(1 .. Len(parts)) = Len(parts)
          <6>1. /\ IsFiniteSet(1 .. Len(parts))
                /\ Cardinality(1 .. Len(parts)) = IF 1 > Len(parts) THEN 0 ELSE Len(parts) - 1 + 1
            BY <5>1, FS_Interval
          <6>2. QED
            BY <5>1, <6>1
        <5>3. f \in Surjection(1 .. Len(parts), Elements(parts))
          BY DEF Surjection, Elements
        <5>4. QED
          BY <5>2, <5>3, FS_Surjection
      <4>4. Len(met) <= Cardinality(Elements(parts))
        BY <3>2, <4>1, <4>2, <4>3, DistinctFits
      <4>5. Cardinality(Elements(parts)) \in Nat
        BY <4>3, FS_CardinalityType
      <4>6. QED
        BY <2>0, <3>1, <3>2, <4>3, <4>4, <4>5
    <3>5. met = Append(entries', disks'[IF fn' = "net" THEN pos' - 2 ELSE pos'])
      BY <3>1 DEF met, d
    <3>6. QED
      BY <3>1, <3>3, <3>4, <3>5 DEF OverrunNeedsCause
  <2>6. CASE CopyInterface
    <3> SUFFICES ASSUME fault' = "wild_write"
                 PROVE  OverrunNeedsCause'
      BY <2>1
    <3> DEFINE d == disks[pos - 1]
               met == Append(entries, d)
    <3>1. /\ pc = "netdev" /\ fn = "net" /\ pos < 2 + Len(disks) /\ Len(entries) + 2 = pos
          /\ UNCHANGED <<disks, fn, removed>> /\ pos' = pos + 1
          /\ fault # "wild_write"
      BY <2>6 DEF CopyInterface, SkipFields, Streams, NetInv
    <3>2. UNCHANGED <<entries, failures>> /\ Len(entries) >= MaxInterfaces
      BY <2>6, <3>1 DEF CopyInterface
    <3>3. pos - 1 \in 1 .. Len(disks) /\ pos - 1 = Len(entries) + 1 /\ d \in Device
      BY <2>0, <3>1
    <3> HIDE DEF d
    <3>4. /\ met \in Seq(Device \cup {NULL}) /\ Len(met) = Len(entries) + 1
          /\ \A k \in 1 .. Len(entries) : met[k] = entries[k]
          /\ met[Len(entries) + 1] = d
          /\ \A k \in 1 .. Len(met) : k = Len(entries) + 1 \/ k \in 1 .. Len(entries)
      BY <2>0, <3>3
    <3> HIDE DEF met
    <3>5. ASSUME ~removed
          PROVE  ~Again(met)
      <4>1. ASSUME NEW k \in 1 .. Len(met)
            PROVE  met[k] \in {disks[k], NULL} /\ k \in 1 .. Len(disks)
        <5>1. /\ pos <= Len(disks) + 2
              /\ \A j \in 1 .. Len(entries) : entries[j] \in {disks[j], NULL}
          BY <3>1, <3>5 DEF NetInv
        <5>2. /\ Len(entries) + 1 \in 1 .. Len(disks)
              /\ d = disks[Len(entries) + 1]
          BY <3>3 DEF d
        <5>3. CASE k = Len(entries) + 1
          BY <3>4, <5>2, <5>3
        <5>4. CASE k \in 1 .. Len(entries)
          BY <2>0, <3>4, <5>1, <5>2, <5>4
        <5>5. QED
          BY <3>4, <4>1, <5>3, <5>4
      <4>2. QED
        BY <2>0, <4>1 DEF Distinct
    <3>6. ASSUME ~Again(met), failures = 0
          PROVE  Cardinality(Elements(met)) > MaxInterfaces
      <4>1. NULL \notin Elements(met)
        <5>1. \A k \in 1 .. Len(entries) : entries[k] # NULL
          BY <3>1, <3>6 DEF NetInv, Elements
        <5>2. d # NULL
          BY <3>3, SentinelAssumption
        <5>3. QED
          BY <3>4, <5>1, <5>2 DEF Elements
      <4>2. Distinct(met)
        BY <3>6, <4>1 DEF Distinct, Elements
      <4>3. IsFiniteSet(Elements(met))
        <5> DEFINE f == [k \in 1 .. Len(met) |-> met[k]]
        <5>1. IsFiniteSet(1 .. Len(met))
          BY <3>4, FS_Interval
        <5>2. f \in Surjection(1 .. Len(met), Elements(met))
          BY DEF Surjection, Elements
        <5>3. QED
          BY <5>1, <5>2, FS_Surjection
      <4>4. Len(met) <= Cardinality(Elements(met)) /\ Cardinality(Elements(met)) \in Nat
        BY <3>4, <4>2, <4>3, DistinctFits, FS_CardinalityType
      <4>5. QED
        BY <2>0, <3>2, <3>4, <4>4, SizeAssumption
    <3>7. met = Append(entries', disks'[IF fn' = "net" THEN pos' - 2 ELSE pos'])
      <4>1. pos' - 2 = pos - 1
        BY <2>0, <3>1
      <4>2. QED
        BY <3>1, <3>2, <4>1 DEF met, d
    <3>8. QED
      BY <3>1, <3>2, <3>5, <3>6, <3>7 DEF OverrunNeedsCause
  <2>7. CASE UNCHANGED vars
    BY <2>7 DEF OverrunNeedsCause, vars
  <2>8. QED
    BY <2>2, <2>3, <2>4, <2>5, <2>6, <2>7 DEF Next, library
<1>3. QED
  BY <1>1, <1>2, TypeCorrect, LinesKept, PTL DEF Spec
=============================================================================
