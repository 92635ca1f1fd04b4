--------------------------- MODULE GetUsersProofs ---------------------------
(***************************************************************************)
(* What GetUsers guarantees for every size of the login table, of the      *)
(* initial array and of the bounds.                                        *)
(***************************************************************************)
EXTENDS GetUsers, TLAPS

\* Why the properties of memory hold.  From the callocs until the caller has its
\* list, get_users has allocated what free_users_info would free, no block of
\* an earlier call among it; the cursor is ready except just before a realloc.
Holding == pc \in {"scan", "grow"} \/ (pc = "done" /\ answer # NULL)

\* The inductive invariant for memory: what get_users has allocated is Owned.
HeapInv ==
  /\ NoMemoryError
  /\ vec.cap > 0
  /\ CursorSafe
  /\ pc = "grow" =>
       vec.cblk = vec.blk /\ vec.cidx = vec.len /\ vec.len = vec.cap
  /\ \A b \in heap : b[1] <= calls
  /\ pc \in Running \cup {"done"} => \A b \in before : b[1] < calls
  /\ pc = "alloc" => heap = before
  /\ Holding => /\ vec.blk[1] = calls /\ vec.blk[2] = "users"
                /\ heap = before \cup Owned
  /\ FailureKeepsOnlyPartialEntry

\* The entries stored so far come from records already consumed
LinesInv ==
  /\ OneEntryPerLine
  /\ pc \in {"scan", "grow"} =>
       \A j \in 1 .. Len(entries) : entries[j][1] <= filepos

\* As long as nothing has failed, a call begins at the start of the file, and
\* its entries are what a scan of the lines read so far may have found: a line
\* without an entry held nobody at some time during the call.
ScanInv ==
  failures = 0 =>
    /\ pc # "crashed"
    /\ pc \in {"idle", "alloc", "done"} => filepos = 0
    /\ pc # "done" => answer = NULL
    /\ pc \in Running => \A i \in Record : utmp[i] \in seen[i]
    /\ pc \in {"scan", "grow"} =>
         /\ \A j \in 1 .. Len(entries) : entries[j][2] \in seen[entries[j][1]]
         /\ \A i \in 1 .. filepos :
              \/ Nobody \in seen[i]
              \/ \E j \in 1 .. Len(entries) : entries[j][1] = i

\* A list names nobody who was not logged in on that line at some time during
\* the call
NobodyInvented ==
  answer # NULL => \A j \in 1 .. Len(answer) : answer[j][2] \in seen[answer[j][1]]

\* What a list is worth as long as nothing has failed
ListsThem == failures = 0 => EveryUserListed /\ NobodyInvented

(***************************************************************************)
(* The array operations.                                                   *)
(***************************************************************************)
LEMMA NewArrayReady ==
  ASSUME NEW Blk, NEW b \in Blk, NEW n \in Nat \ {0}, NEW h, b \in h
  PROVE  /\ NewArray(b, n) \in ArrayType(Blk)
         /\ CursorReady(NewArray(b, n), h)
  BY DEF NewArray, ArrayType, CursorReady

LEMMA AdvanceType ==
  ASSUME NEW Blk, NEW v \in ArrayType(Blk)
  PROVE  /\ Advance(v) \in ArrayType(Blk)
         /\ Advance(v).blk = v.blk
         /\ Advance(v).cblk = v.cblk
         /\ Advance(v).len = v.len + 1
         /\ Advance(v).cidx = v.cidx + 1
         /\ Advance(v).cap = v.cap
  <1>1. v.len + 1 \in Nat /\ v.cidx + 1 \in Nat
    BY DEF ArrayType
  <1>2. Advance(v) \in ArrayType(Blk)
    BY <1>1 DEF Advance, ArrayType
  <1>3. QED
    BY <1>2 DEF Advance, ArrayType

LEMMA RegrowType ==
  ASSUME NEW Blk, NEW v \in ArrayType(Blk), NEW b \in Blk
  PROVE  /\ Regrow(v, b) \in ArrayType(Blk)
         /\ Regrow(v, b).blk = b
         /\ Regrow(v, b).cblk = b
         /\ Regrow(v, b).len = v.len
         /\ Regrow(v, b).cidx = v.len
         /\ Regrow(v, b).cap = 2 * v.cap
  <1>1. v.len \in Nat /\ 2 * v.cap \in Nat
    BY DEF ArrayType
  <1>2. Regrow(v, b) \in ArrayType(Blk)
    BY <1>1 DEF Regrow, ArrayType
  <1>3. QED
    BY <1>2 DEF Regrow, ArrayType
-----------------------------------------------------------------------------
(***************************************************************************)
(* TypeOK is inductive.                                                    *)
(***************************************************************************)
LEMMA StringsType ==
  ASSUME TypeOK, NEW n \in Nat, NEW k \in 0 .. 3
  PROVE  Strings(n, k) \subseteq Block
  <1>1. \A j \in 1 .. k : Fields[j] \in Kind
    BY DEF Fields, Kind
  <1>2. QED
    BY <1>1 DEF Strings, Block, TypeOK

(* TypeOK: the login table, the array, the heap and the counters of        *)
(* get_users keep their types through every step.                          *)
THEOREM TypeCorrect == Spec => []TypeOK
<1> USE CapacityAssumption, RecordAssumption
<1>1. Init => TypeOK
  <2> SUFFICES ASSUME Init PROVE TypeOK
    OBVIOUS
  <2>1. <<0, "users", 0>> \in Block
    BY DEF Block, Kind
  <2>2. vec \in ArrayType(Block)
    BY <2>1 DEF Init, NewArray, ArrayType
  <2>3. QED
    BY <2>2 DEF Init, TypeOK
<1>2. TypeOK /\ [Next]_vars => TypeOK'
  <2> SUFFICES ASSUME TypeOK, [Next]_vars
               PROVE  TypeOK'
    OBVIOUS
  <2>1. ASSUME NEW i \in Record, NEW v \in Content, Overwrite(i, v)
        PROVE  TypeOK'
    BY <2>1 DEF TypeOK, Overwrite
  <2>2. CASE Call
    BY <2>2 DEF TypeOK, Call, Record, Content
  <2>3. CASE Allocate
    <3>1. <<calls, "info", 0>> \in Block /\ <<calls, "users", 0>> \in Block
      BY DEF TypeOK, Block, Kind
    <3>2. vec' \in ArrayType(Block)
      BY <3>1, <2>3 DEF Allocate, NewArray, ArrayType
    <3>3. heap' \in SUBSET Block
      BY <2>3, <3>1 DEF TypeOK, Allocate
    <3>4. entries' \in Seq(Record \X User)
      BY <2>3 DEF Allocate
    <3>5. QED
      BY <2>3, <3>2, <3>3, <3>4 DEF TypeOK, Allocate
  <2>4. CASE ArrayAllocFails
    BY <2>4 DEF TypeOK, ArrayAllocFails, Fail
  <2>5. CASE InfoAllocFails
    BY <2>5 DEF TypeOK, InfoAllocFails, Fail, Block, Kind
  <2>6. CASE SkipRecord
    BY <2>6 DEF TypeOK, SkipRecord
  <2>7. CASE CopyRecord
    <3>1. vec' \in ArrayType(Block)
      BY <2>7, AdvanceType DEF TypeOK, CopyRecord
    <3>2. heap' \subseteq Block
      BY <2>7, StringsType DEF TypeOK, CopyRecord, ArrayType
    <3>3. <<filepos + 1, utmp[filepos + 1]>> \in Record \X User
      BY <2>7 DEF TypeOK, CopyRecord, Record, Content
    <3>4. entries' \in Seq(Record \X User)
      BY <2>7, <3>3 DEF TypeOK, CopyRecord
    <3>5. QED
      BY <2>7, <3>1, <3>2, <3>4 DEF TypeOK, CopyRecord
  <2>8. ASSUME NEW k \in 0 .. 2, CopyFails(k)
        PROVE  TypeOK'
    <3>1. Strings(vec.len, k) \subseteq Block
      BY StringsType DEF TypeOK, ArrayType
    <3>2. QED
      BY <2>8, <3>1 DEF TypeOK, CopyFails, free_users_info, Fail
  <2>9. CASE Grow
    <3>1. PICK b \in {vec.blk, <<calls, "users", vec.blk[3] + 1>>} :
            /\ vec' = Regrow(vec, b)
            /\ heap' = (heap \ {vec.blk}) \cup {b}
      BY <2>9 DEF Grow
    <3>2. b \in Block
      BY DEF TypeOK, ArrayType, Block, Kind
    <3>3. vec' \in ArrayType(Block)
      BY <3>1, <3>2, RegrowType DEF TypeOK
    <3>4. QED
      BY <2>9, <3>1, <3>2, <3>3 DEF TypeOK, Grow
  <2>10. CASE GrowFails
    BY <2>10 DEF TypeOK, GrowFails, free_users_info, Fail
  <2>11. CASE EndOfFile
    BY <2>11 DEF TypeOK, EndOfFile
  <2>12. CASE Release
    BY <2>12 DEF TypeOK, Release, free_users_info
  <2>13. CASE UNCHANGED vars
    BY <2>13 DEF TypeOK, vars
  <2>14. QED
    BY <2>1, <2>2, <2>3, <2>4, <2>5, <2>6, <2>7, <2>8, <2>9, <2>10, <2>11,
       <2>12, <2>13 DEF Next, get_users
<1>3. QED
  BY <1>1, <1>2, PTL DEF Spec
-----------------------------------------------------------------------------
(***************************************************************************)
(* The order of the lines.  No step but CopyRecord lengthens entries, and  *)
(* it appends the record that it consumes.                                 *)
(***************************************************************************)
LEMMA LinesInductive == Spec => []LinesInv
<1>1. Init => LinesInv
  BY DEF Init, LinesInv, OneEntryPerLine
<1>2. TypeOK /\ LinesInv /\ [Next]_vars => LinesInv'
  <2> SUFFICES ASSUME TypeOK, LinesInv, [Next]_vars
               PROVE  LinesInv'
    OBVIOUS
  <2>1. CASE CopyRecord
    <3> DEFINE e == <<filepos + 1, utmp[filepos + 1]>>
    <3>1. /\ entries \in Seq(Record \X User)
          /\ e \in Record \X User
          /\ filepos' = filepos + 1
          /\ filepos \in Nat
      BY <2>1, RecordAssumption DEF TypeOK, CopyRecord, Record, Content
    <3>2. /\ Len(entries') = Len(entries) + 1
          /\ \A j \in 1 .. Len(entries) : entries'[j] = entries[j]
          /\ entries'[Len(entries) + 1] = e
      BY <2>1, <3>1 DEF CopyRecord
    <3>3. \A j \in 1 .. Len(entries) :
            entries[j][1] \in Nat /\ entries[j][1] <= filepos
      BY <2>1, <3>1 DEF LinesInv, CopyRecord, Record
    <3>4. Len(entries) \in Nat
      BY <3>1
    <3>5. \A j, k \in 1 .. Len(entries') :
            j < k => entries'[j][1] < entries'[k][1]
      <4> SUFFICES ASSUME NEW j \in 1 .. Len(entries'),
                          NEW k \in 1 .. Len(entries'), j < k
                   PROVE  entries'[j][1] < entries'[k][1]
        OBVIOUS
      <4>1. j \in 1 .. Len(entries)
        BY <3>2, <3>4
      <4>2. CASE k \in 1 .. Len(entries)
        BY <4>1, <4>2, <3>2 DEF LinesInv, OneEntryPerLine
      <4>3. CASE k = Len(entries) + 1
        BY <4>1, <4>3, <3>1, <3>2, <3>3
      <4>4. QED
        BY <3>2, <3>4, <4>2, <4>3
    <3>6. \A j \in 1 .. Len(entries') : entries'[j][1] <= filepos'
      <4> SUFFICES ASSUME NEW j \in 1 .. Len(entries')
                   PROVE  entries'[j][1] <= filepos'
        OBVIOUS
      <4>1. CASE j \in 1 .. Len(entries)
        BY <4>1, <3>1, <3>2, <3>3
      <4>2. CASE j = Len(entries) + 1
        BY <4>2, <3>1, <3>2
      <4>3. QED
        BY <3>2, <3>4, <4>1, <4>2
    <3>7. QED
      BY <3>5, <3>6 DEF LinesInv, OneEntryPerLine
  <2>2. CASE SkipRecord
    <3>1. /\ entries' = entries
          /\ filepos \in Nat /\ filepos' = filepos + 1
          /\ \A j \in 1 .. Len(entries) : entries[j][1] \in Nat
      BY <2>2, RecordAssumption DEF TypeOK, SkipRecord, Record
    <3>2. QED
      BY <2>2, <3>1 DEF LinesInv, OneEntryPerLine, SkipRecord
  <2>3. CASE Allocate \/ Release
    BY <2>3 DEF LinesInv, OneEntryPerLine, Allocate, Release
  <2>4. CASE Grow
    BY <2>4 DEF LinesInv, OneEntryPerLine, Grow
  <2>5. CASE \/ Call \/ ArrayAllocFails \/ InfoAllocFails \/ GrowFails
             \/ EndOfFile \/ \E k \in 0 .. 2 : CopyFails(k)
    BY <2>5 DEF LinesInv, OneEntryPerLine, Call, ArrayAllocFails,
                InfoAllocFails, GrowFails, EndOfFile, CopyFails
  <2>6. CASE \E i \in Record, v \in Content : Overwrite(i, v)
    BY <2>6 DEF LinesInv, OneEntryPerLine, Overwrite
  <2>7. CASE UNCHANGED vars
    BY <2>7 DEF LinesInv, OneEntryPerLine, vars
  <2>8. QED
    BY <2>1, <2>2, <2>3, <2>4, <2>5, <2>6, <2>7 DEF Next, get_users
<1>3. QED
  BY <1>1, <1>2, TypeCorrect, PTL DEF Spec

(* OneEntryPerLine: whatever happens to the login table while get_users    *)
(* reads it, the list names no line twice and follows the file's order.    *)
THEOREM LinesInOrder == Spec => []OneEntryPerLine
<1>1. LinesInv => OneEntryPerLine
  BY DEF LinesInv
<1>2. QED
  BY <1>1, LinesInductive, PTL
-----------------------------------------------------------------------------
(***************************************************************************)
(* The heap.  Three facts about the blocks of the call in progress: they   *)
(* are of no earlier call, the next entry's strings are not among those    *)
(* already owned, and counting that entry makes them owned.                *)
(***************************************************************************)
LEMMA StringsShape ==
  ASSUME NEW n, NEW k \in 0 .. 3, NEW s \in Strings(n, k)
  PROVE  s[1] = calls /\ s[3] = n /\ s[2] \in {"username", "tty", "hostname"}
  BY DEF Strings, Fields

LEMMA OwnedShape ==
  ASSUME TypeOK, vec.blk[1] = calls, vec.blk[2] = "users", NEW s \in Owned
  PROVE  /\ s[1] = calls
         /\ \/ s[2] = "info"
            \/ s = vec.blk
            \/ /\ s[3] \in 0 .. vec.len - 1
               /\ s[2] \in {"username", "tty", "hostname"}
  <1>1. CASE s \in UNION {Strings(n, 3) : n \in 0 .. vec.len - 1}
    <2>1. PICK n \in 0 .. vec.len - 1 : s \in Strings(n, 3)
      BY <1>1
    <2>2. QED
      BY <2>1, StringsShape
  <1>2. CASE s = <<calls, "info", 0>> \/ s = vec.blk
    BY <1>2
  <1>3. QED
    BY <1>1, <1>2 DEF Owned

LEMMA NextStringsNew ==
  ASSUME TypeOK, vec.blk[1] = calls, vec.blk[2] = "users", NEW k \in 0 .. 3
  PROVE  Strings(vec.len, k) \cap Owned = {}
  <1> SUFFICES ASSUME NEW s \in Strings(vec.len, k), s \in Owned
               PROVE  FALSE
    OBVIOUS
  <1>1. vec.len \in Nat
    BY DEF TypeOK, ArrayType
  <1>2. QED
    BY <1>1, StringsShape, OwnedShape

LEMMA CountingOwns ==
  ASSUME TypeOK, calls' = calls, vec' = Advance(vec)
  PROVE  Owned' = Owned \cup Strings(vec.len, 3)
  <1>1. /\ vec.len \in Nat
        /\ vec'.len = vec.len + 1
        /\ vec'.blk = vec.blk
    BY AdvanceType DEF TypeOK, ArrayType
  <1>2. 0 .. vec'.len - 1 = (0 .. vec.len - 1) \cup {vec.len}
    BY <1>1
  <1>3. \A n : Strings(n, 3)' = Strings(n, 3)
    BY DEF Strings
  <1>4. UNION {Strings(n, 3)' : n \in 0 .. vec'.len - 1}
          = (UNION {Strings(n, 3) : n \in 0 .. vec.len - 1})
              \cup Strings(vec.len, 3)
    BY <1>2, <1>3
  <1>5. QED
    BY <1>1, <1>4 DEF Owned

LEMMA HeapInductive == Spec => []HeapInv
<1> USE CapacityAssumption
<1>1. Init => HeapInv
  BY DEF Init, HeapInv, NoMemoryError, CursorSafe, NewArray, Running, Holding,
         FailureKeepsOnlyPartialEntry
<1>2. TypeOK /\ TypeOK' /\ HeapInv /\ [Next]_vars => HeapInv'
  <2> SUFFICES ASSUME TypeOK, TypeOK', HeapInv, [Next]_vars
               PROVE  HeapInv'
    OBVIOUS
  <2> USE DEF Running, Holding
  <2>1. /\ calls \in Nat
        /\ vec.len \in Nat /\ vec.cap \in Nat /\ vec.blk \in Block
        /\ \A b \in heap \cup before : b[1] \in Nat
    BY DEF TypeOK, ArrayType, Block
  <2>2. \A b \in Owned : Holding => b[1] = calls
    BY OwnedShape DEF HeapInv
  <2>3. Holding => before \cap Owned = {}
    BY <2>1, <2>2 DEF HeapInv
  <2>4. CASE Call
    BY <2>1, <2>4 DEF Call, HeapInv, NoMemoryError, CursorSafe,
                      FailureKeepsOnlyPartialEntry
  <2>5. CASE Allocate
    <3>1. /\ vec' = NewArray(<<calls, "users", 0>>, InitialCapacity)
          /\ <<calls, "users", 0>> \in heap'
          /\ heap' = heap \cup {<<calls, "info", 0>>, <<calls, "users", 0>>}
          /\ heap = before
          /\ UNCHANGED <<calls, before, fault>>
          /\ pc = "alloc" /\ pc' = "scan"
      BY <2>5 DEF Allocate, HeapInv
    <3>2. vec'.blk = <<calls, "users", 0>> /\ vec'.len = 0
          /\ vec'.cap = InitialCapacity /\ vec'.cblk = vec'.blk /\ vec'.cidx = 0
      BY <3>1 DEF NewArray
    <3>3. Owned' = {<<calls, "info", 0>>, <<calls, "users", 0>>}
      BY <3>1, <3>2 DEF Owned
    <3>4. CursorSafe'
      BY <3>1, <3>2 DEF CursorSafe, CursorReady
    <3>5. \A b \in heap' : b[1] <= calls
      BY <2>1, <3>1 DEF HeapInv
    <3>6. QED
      BY <2>1, <3>1, <3>2, <3>3, <3>4, <3>5
         DEF HeapInv, NoMemoryError, FailureKeepsOnlyPartialEntry
  <2>6. CASE ArrayAllocFails
    BY <2>6 DEF ArrayAllocFails, HeapInv, NoMemoryError, CursorSafe,
                FailureKeepsOnlyPartialEntry
  <2>7. CASE InfoAllocFails
    BY <2>1, <2>7 DEF InfoAllocFails, HeapInv, NoMemoryError, CursorSafe,
                      FailureKeepsOnlyPartialEntry
  <2>8. CASE SkipRecord
    <3>1. Owned' = Owned
      BY <2>8 DEF SkipRecord, Owned, Strings
    <3>2. QED
      BY <2>8, <3>1 DEF SkipRecord, HeapInv, NoMemoryError, CursorSafe,
                        FailureKeepsOnlyPartialEntry
  <2>9. CASE CopyRecord
    <3>1. /\ pc = "scan"
          /\ heap' = heap \cup Strings(vec.len, 3)
          /\ vec' = Advance(vec)
          /\ pc' = IF Full(vec') THEN "grow" ELSE "scan"
          /\ fault' = IF StoreInBounds(vec, heap) THEN fault ELSE "wild_write"
          /\ UNCHANGED <<calls, before>>
      BY <2>9 DEF CopyRecord
    <3>2. CursorReady(vec, heap) /\ heap = before \cup Owned
      BY <3>1 DEF HeapInv, CursorSafe
    <3>3. /\ vec'.blk = vec.blk /\ vec'.cblk = vec.blk /\ vec'.cap = vec.cap
          /\ vec'.len = vec.len + 1 /\ vec'.cidx = vec'.len
      BY <3>1, <3>2, AdvanceType DEF TypeOK, CursorReady
    <3>4. fault' = fault
      BY <3>1, <3>2 DEF CursorReady, StoreInBounds
    <3>5. heap' = before \cup Owned'
      BY <3>1, <3>2, CountingOwns
    <3>6. \A b \in heap' : b[1] <= calls
      BY <2>1, <3>1, StringsShape DEF HeapInv
    <3>7. pc' = "scan" => CursorReady(vec', heap')
      BY <2>1, <3>1, <3>2, <3>3 DEF CursorReady, Full
    <3>8. pc' = "grow" => vec'.len = vec'.cap
      BY <3>1 DEF Full
    <3>9. QED
      BY <3>1, <3>3, <3>4, <3>5, <3>6, <3>7, <3>8
         DEF HeapInv, NoMemoryError, CursorSafe, FailureKeepsOnlyPartialEntry
  <2>10. ASSUME NEW k \in 0 .. 2, CopyFails(k)
         PROVE  HeapInv'
    <3>1. /\ pc = "scan" /\ pc' = "done" /\ answer' = NULL
          /\ UNCHANGED <<vec, calls, before>>
          /\ heap' = (heap \cup Strings(vec.len, k)) \ Owned
          /\ fault' = IF Owned \subseteq heap \cup Strings(vec.len, k)
                        THEN fault ELSE "bad_free"
      BY <2>10 DEF CopyFails, free_users_info
    <3>2. heap = before \cup Owned
      BY <3>1 DEF HeapInv
    <3>3. heap' = before \cup Strings(vec.len, k)
      BY <2>3, <3>1, <3>2, NextStringsNew DEF HeapInv
    <3>4. Strings(vec.len, k) \subseteq Strings(vec.len, 2)
      BY DEF Strings
    <3>5. Strings(vec.len, 2)' = Strings(vec.len, 2)
      BY <3>1 DEF Strings
    <3>6. \A b \in heap' : b[1] <= calls
      BY <2>1, <3>1, <3>3, StringsShape DEF HeapInv
    <3>7. FailureKeepsOnlyPartialEntry'
      BY <3>1, <3>3, <3>4, <3>5 DEF FailureKeepsOnlyPartialEntry
    <3>8. fault' = fault
      BY <3>1, <3>2
    <3>9. QED
      BY <3>1, <3>6, <3>7, <3>8 DEF HeapInv, NoMemoryError, CursorSafe
  <2>11. CASE Grow
    <3>1. PICK b \in {vec.blk, <<calls, "users", vec.blk[3] + 1>>} :
            /\ vec' = Regrow(vec, b)
            /\ heap' = (heap \ {vec.blk}) \cup {b}
      BY <2>11 DEF Grow
    <3>2. /\ pc = "grow" /\ pc' = "scan"
          /\ UNCHANGED <<calls, before, fault>>
      BY <2>11 DEF Grow
    <3>3. b \in Block /\ b[1] = calls /\ b[2] = "users"
      <4>1. CASE b = vec.blk
        BY <2>1, <3>2, <4>1 DEF HeapInv
      <4>2. CASE b = <<calls, "users", vec.blk[3] + 1>>
        BY <2>1, <4>2 DEF Block, Kind
      <4>3. QED
        BY <3>1, <4>1, <4>2
    <3>4. /\ vec'.blk = b /\ vec'.cblk = b /\ vec'.len = vec.len
          /\ vec'.cidx = vec.len /\ vec'.cap = 2 * vec.cap
      BY <3>1, <3>3, RegrowType DEF TypeOK
    <3>5. CursorReady(vec', heap')
      BY <2>1, <3>1, <3>2, <3>4 DEF HeapInv, CursorReady
    <3>6. heap' = before \cup Owned'
      <4> DEFINE Rest == {<<calls, "info", 0>>}
                          \cup UNION {Strings(n, 3) : n \in 0 .. vec.len - 1}
      <4>1. Owned = Rest \cup {vec.blk}
        BY DEF Owned
      <4>2. \A n : Strings(n, 3)' = Strings(n, 3)
        BY <3>2 DEF Strings
      <4>3. Owned' = Rest \cup {b}
        BY <3>2, <3>4, <4>2 DEF Owned
      <4>4. vec.blk \notin Rest
        <5>1. \A n : vec.blk \notin Strings(n, 3)
          BY <3>2, StringsShape DEF HeapInv
        <5>2. QED
          BY <3>2, <5>1 DEF HeapInv
      <4>5. heap = before \cup Owned /\ vec.blk \notin before
        BY <2>3, <3>2, <4>1 DEF HeapInv
      <4>6. QED
        BY <3>1, <4>1, <4>3, <4>4, <4>5
    <3>7. \A x \in heap' : x[1] <= calls
      BY <2>1, <3>1, <3>3 DEF HeapInv
    <3>8. QED
      BY <2>1, <3>2, <3>3, <3>4, <3>5, <3>6, <3>7
         DEF HeapInv, NoMemoryError, CursorSafe, FailureKeepsOnlyPartialEntry
  <2>12. CASE GrowFails
    <3>1. /\ pc = "grow" /\ pc' = "done" /\ answer' = NULL
          /\ UNCHANGED <<vec, calls, before>>
          /\ heap' = heap \ Owned
          /\ fault' = IF Owned \subseteq heap THEN fault ELSE "bad_free"
      BY <2>12 DEF GrowFails, free_users_info
    <3>2. heap' = before /\ fault' = fault
      BY <2>3, <3>1 DEF HeapInv
    <3>3. QED
      BY <3>1, <3>2 DEF HeapInv, NoMemoryError, CursorSafe,
                        FailureKeepsOnlyPartialEntry
  <2>13. CASE EndOfFile
    <3>1. answer' # NULL
      BY <2>13, SentinelAssumption DEF EndOfFile, TypeOK, Record
    <3>2. Owned' = Owned
      BY <2>13 DEF EndOfFile, Owned, Strings
    <3>3. QED
      BY <2>13, <3>1, <3>2 DEF EndOfFile, HeapInv, NoMemoryError, CursorSafe,
                               FailureKeepsOnlyPartialEntry
  <2>14. CASE Release
    <3>1. /\ pc = "done" /\ pc' = "idle"
          /\ UNCHANGED <<vec, calls, before>>
          /\ heap' \subseteq heap
          /\ fault' = fault
      BY <2>14 DEF Release, free_users_info, HeapInv
    <3>2. QED
      BY <3>1 DEF HeapInv, NoMemoryError, CursorSafe,
                  FailureKeepsOnlyPartialEntry
  <2>15. CASE (\E i \in Record, v \in Content : Overwrite(i, v))
                \/ UNCHANGED vars
    <3>1. UNCHANGED <<pc, vec, answer, heap, fault, calls, before>>
      BY <2>15 DEF Overwrite, vars
    <3>2. Owned' = Owned /\ Strings(vec.len, 2)' = Strings(vec.len, 2)
      BY <3>1 DEF Owned, Strings
    <3>3. QED
      BY <3>1, <3>2 DEF HeapInv, NoMemoryError, CursorSafe,
                        FailureKeepsOnlyPartialEntry
  <2>16. QED
    BY <2>4, <2>5, <2>6, <2>7, <2>8, <2>9, <2>10, <2>11, <2>12, <2>13, <2>14,
       <2>15 DEF Next, get_users
<1>3. QED
  BY <1>1, <1>2, TypeCorrect, PTL DEF Spec

(* CursorSafe: the doubling of get_users never leaves the cursor u behind, *)
(* whatever the capacity it starts with and wherever realloc moves.        *)
THEOREM CursorNeverStray == Spec => []CursorSafe
<1>1. HeapInv => CursorSafe
  BY DEF HeapInv
<1>2. QED
  BY <1>1, HeapInductive, PTL

(* NoMemoryError: no store of get_users and no free of free_users_info     *)
(* touches a block that is not live, on any path.                          *)
THEOREM MemorySafety == Spec => []NoMemoryError
<1>1. HeapInv => NoMemoryError
  BY DEF HeapInv
<1>2. QED
  BY <1>1, HeapInductive, PTL

(* FailureKeepsOnlyPartialEntry: all that a failed get_users keeps is the  *)
(* username and the tty of the entry it was filling.                       *)
THEOREM FailureLeakBound == Spec => []FailureKeepsOnlyPartialEntry
<1>1. HeapInv => FailureKeepsOnlyPartialEntry
  BY DEF HeapInv
<1>2. QED
  BY <1>1, HeapInductive, PTL

(* ReleaseRestoresHeap: free_users_info undoes get_users exactly.          *)
THEOREM ReleaseIsExact == Spec => ReleaseRestoresHeap
<1>1. TypeOK /\ HeapInv /\ [Next]_vars
        => [pc = "done" /\ pc' = "idle" /\ answer # NULL => heap' = before]_vars
  <2> SUFFICES ASSUME TypeOK, HeapInv, [Next]_vars,
                      pc = "done", pc' = "idle", answer # NULL
               PROVE  heap' = before
    OBVIOUS
  <2>1. Release
    BY DEF Next, get_users, vars, Call, Allocate, ArrayAllocFails,
           InfoAllocFails, SkipRecord, CopyRecord, CopyFails, Grow, GrowFails,
           EndOfFile, Overwrite
  <2>2. heap' = heap \ Owned
    BY <2>1 DEF Release, free_users_info
  <2>3. heap = before \cup Owned
    BY DEF HeapInv, Holding
  <2>4. before \cap Owned = {}
    BY OwnedShape DEF HeapInv, Holding, Running, TypeOK, Block
  <2>5. QED
    BY <2>2, <2>3, <2>4
<1>2. QED
  BY <1>1, TypeCorrect, HeapInductive, PTL DEF Spec, ReleaseRestoresHeap
-----------------------------------------------------------------------------
(***************************************************************************)
(* get_users implements ScanQuery: every step is one of a scan, or none.   *)
(***************************************************************************)
LEMMA ScanInductive == Spec => []ScanInv
<1> USE RecordAssumption DEF Running
<1>1. Init => ScanInv
  BY DEF Init, ScanInv
<1>2. TypeOK /\ ScanInv /\ [Next]_vars => ScanInv'
  <2> SUFFICES ASSUME TypeOK, ScanInv, [Next]_vars, failures' = 0
               PROVE  ScanInv'
    BY DEF ScanInv
  <2>1. failures = 0
    BY DEF Next, get_users, vars, Call, Allocate, ArrayAllocFails,
           InfoAllocFails, SkipRecord, CopyRecord, CopyFails, Grow, GrowFails,
           EndOfFile, Release, Overwrite, Fail, TypeOK
  <2>2. CASE Call
    BY <2>1, <2>2 DEF Call, ScanInv, TypeOK
  <2>3. CASE Allocate
    BY <2>1, <2>3 DEF Allocate, ScanInv, TypeOK
  <2>4. CASE \/ ArrayAllocFails \/ InfoAllocFails \/ GrowFails
             \/ \E k \in 0 .. 2 : CopyFails(k)
    BY <2>1, <2>4 DEF ArrayAllocFails, InfoAllocFails, GrowFails, CopyFails, Fail
  <2>5. CASE SkipRecord
    <3>1. /\ filepos \in Nat /\ filepos' = filepos + 1
          /\ filepos + 1 \in Record /\ utmp[filepos + 1] = Nobody
          /\ pc = "scan" /\ pc' = "scan"
          /\ UNCHANGED <<utmp, entries, answer, seen, failures>>
      BY <2>5 DEF SkipRecord, TypeOK, Record
    <3>2. Nobody \in seen[filepos + 1]
      BY <2>1, <3>1 DEF ScanInv
    <3>3. 1 .. filepos' = (1 .. filepos) \cup {filepos + 1}
      BY <3>1
    <3>4. QED
      BY <2>1, <3>1, <3>2, <3>3 DEF ScanInv
  <2>6. CASE CopyRecord
    <3> DEFINE e == <<filepos + 1, utmp[filepos + 1]>>
    <3>1. /\ filepos \in Nat /\ filepos' = filepos + 1
          /\ filepos + 1 \in Record
          /\ e \in Record \X User
          /\ entries \in Seq(Record \X User) /\ entries' = Append(entries, e)
          /\ pc = "scan" /\ pc' \in {"scan", "grow"}
          /\ UNCHANGED <<utmp, answer, seen, failures>>
      BY <2>6 DEF CopyRecord, TypeOK, Record, Content
    <3>2. /\ Len(entries) \in Nat /\ Len(entries') = Len(entries) + 1
          /\ \A j \in 1 .. Len(entries) : entries'[j] = entries[j]
          /\ entries'[Len(entries) + 1] = e
      BY <3>1
    <3>3. /\ 1 .. filepos' = (1 .. filepos) \cup {filepos + 1}
          /\ 1 .. Len(entries') = (1 .. Len(entries)) \cup {Len(entries) + 1}
      BY <3>1, <3>2
    <3>4. e[1] = filepos + 1 /\ e[2] \in seen[filepos + 1]
      BY <2>1, <3>1 DEF ScanInv
    <3> HIDE DEF e
    <3>5. \A j \in 1 .. Len(entries') : entries'[j][2] \in seen[entries'[j][1]]
      BY <2>1, <3>1, <3>2, <3>3, <3>4 DEF ScanInv
    <3>6. \A i \in 1 .. filepos' :
            \/ Nobody \in seen[i]
            \/ \E j \in 1 .. Len(entries') : entries'[j][1] = i
      <4> SUFFICES ASSUME NEW i \in 1 .. filepos', Nobody \notin seen[i]
                   PROVE  \E j \in 1 .. Len(entries') : entries'[j][1] = i
        OBVIOUS
      <4>1. CASE i = filepos + 1
        BY <4>1, <3>2, <3>3, <3>4
      <4>2. CASE i \in 1 .. filepos
        <5>1. PICK j \in 1 .. Len(entries) : entries[j][1] = i
          BY <2>1, <3>1, <4>2 DEF ScanInv
        <5>2. QED
          BY <5>1, <3>2, <3>3
      <4>3. QED
        BY <3>3, <4>1, <4>2
    <3>7. QED
      BY <2>1, <3>1, <3>5, <3>6 DEF ScanInv
  <2>7. CASE Grow
    BY <2>1, <2>7 DEF Grow, ScanInv
  <2>8. CASE EndOfFile
    BY <2>1, <2>8 DEF EndOfFile, ScanInv
  <2>9. CASE Release
    BY <2>1, <2>9 DEF Release, ScanInv
  <2>10. ASSUME NEW i \in Record, NEW v \in Content, Overwrite(i, v)
         PROVE  ScanInv'
    <3>1. /\ utmp' = [utmp EXCEPT ![i] = v]
          /\ UNCHANGED <<filepos, pc, entries, answer, failures>>
          /\ utmp \in [Record -> Content]
          /\ seen \in [Record -> SUBSET Content]
      BY <2>10 DEF Overwrite, TypeOK
    <3>2. CASE pc \notin Running
      BY <2>1, <3>1, <3>2 DEF ScanInv
    <3>3. CASE pc \in Running
      <4>1. seen' = [seen EXCEPT ![i] = @ \cup {v}]
        BY <2>10, <3>3 DEF Overwrite
      <4>2. \A k \in Record : seen[k] \subseteq seen'[k] /\ utmp'[k] \in seen'[k]
        BY <2>1, <3>1, <3>3, <4>1 DEF ScanInv
      <4>3. /\ 1 .. filepos \subseteq Record
            /\ \A j \in 1 .. Len(entries) : entries[j][1] \in Record
        BY DEF TypeOK, Record
      <4>4. QED
        BY <2>1, <3>1, <3>3, <4>2, <4>3 DEF ScanInv
    <3>4. QED
      BY <3>2, <3>3
  <2>11. CASE UNCHANGED vars
    BY <2>1, <2>11 DEF ScanInv, vars
  <2>12. QED
    BY <2>2, <2>3, <2>4, <2>5, <2>6, <2>7, <2>8, <2>9, <2>10, <2>11
       DEF Next, get_users
<1>3. QED
  BY <1>1, <1>2, TypeCorrect, PTL DEF Spec

(* RefinesScan: until an allocation fails, a list of get_users is what a   *)
(* single pass over a changing login table may see, whatever its size.     *)
THEOREM ImplementsScan == Spec => RefinesScan
<1> USE RecordAssumption, SentinelAssumption DEF Running
<1> DEFINE step == failures' = 0 => Scan!Next
<1>1. Init => Scan!Init
  BY DEF Init, Scan!Init, Scan!Slot, Scan!Content, Record, Content
<1>2. TypeOK /\ ScanInv /\ OneEntryPerLine /\ [Next]_vars => [step]_(Scan!vars)
  <2> SUFFICES ASSUME TypeOK, ScanInv, OneEntryPerLine, [Next]_vars, failures' = 0
               PROVE  Scan!Next \/ UNCHANGED Scan!vars
    OBVIOUS
  <2>1. failures = 0
    BY DEF Next, get_users, vars, Call, Allocate, ArrayAllocFails,
           InfoAllocFails, SkipRecord, CopyRecord, CopyFails, Grow, GrowFails,
           EndOfFile, Release, Overwrite, Fail, TypeOK
  <2>2. CASE Call
    <3>1. Scan!Begin
      BY <2>2 DEF Call, Scan!Begin, Scan!Slot, Record
    <3>2. QED
      BY <3>1 DEF Scan!Next
  <2>3. CASE Allocate \/ SkipRecord \/ CopyRecord \/ Grow
    <3>1. pc \in {"alloc", "scan", "grow"} /\ pc' \in {"scan", "grow"}
      BY <2>3 DEF Allocate, SkipRecord, CopyRecord, Grow
    <3>2. UNCHANGED <<utmp, seen, answer>>
      BY <2>3 DEF Allocate, SkipRecord, CopyRecord, Grow
    <3>3. QED
      BY <3>1, <3>2 DEF Scan!vars
  <2>4. CASE \/ ArrayAllocFails \/ InfoAllocFails \/ GrowFails
             \/ \E k \in 0 .. 2 : CopyFails(k)
    BY <2>1, <2>4 DEF ArrayAllocFails, InfoAllocFails, GrowFails, CopyFails, Fail
  <2>5. CASE EndOfFile
    <3>1. /\ pc = "scan" /\ pc' = "done"
          /\ filepos = NRecords /\ answer' = entries
          /\ UNCHANGED <<utmp, seen>>
          /\ entries \in Seq(Record \X User)
      BY <2>5 DEF EndOfFile, TypeOK
    <3> DEFINE at(i) == \E j \in 1 .. Len(entries) : entries[j][1] = i
               f == [i \in Record |->
                       IF at(i)
                         THEN entries[CHOOSE j \in 1 .. Len(entries) :
                                        entries[j][1] = i][2]
                         ELSE Nobody]
    <3>2. \A j \in 1 .. Len(entries) :
            /\ entries[j] \in Record \X User
            /\ entries[j] = <<entries[j][1], entries[j][2]>>
      BY <3>1
    <3>3. \A j \in 1 .. Len(entries) : f[entries[j][1]] = entries[j][2]
      <4> SUFFICES ASSUME NEW j \in 1 .. Len(entries)
                   PROVE  f[entries[j][1]] = entries[j][2]
        OBVIOUS
      <4> DEFINE k == CHOOSE k \in 1 .. Len(entries) : entries[k][1] = entries[j][1]
      <4>1. k \in 1 .. Len(entries) /\ entries[k][1] = entries[j][1]
        OBVIOUS
      <4>2. f[entries[j][1]] = entries[k][2]
        BY <3>2
      <4> HIDE DEF k
      <4>3. entries[j][1] \in Nat
        BY <3>2 DEF Record
      <4>4. ~(k < j) /\ ~(j < k)
        BY <4>1, <4>3 DEF OneEntryPerLine
      <4>5. k = j
        BY <4>1, <4>4
      <4>6. QED
        BY <4>2, <4>5
    <3>4. \A i \in Record : ~at(i) => f[i] = Nobody
      OBVIOUS
    <3>5. \A i \in Record : f[i] \in seen[i] /\ f[i] \in Content
      <4> SUFFICES ASSUME NEW i \in Record
                   PROVE  f[i] \in seen[i] /\ f[i] \in Content
        OBVIOUS
      <4>1. CASE at(i)
        <5>1. PICK j \in 1 .. Len(entries) : entries[j][1] = i
          BY <4>1
        <5>2. f[i] = entries[j][2]
          BY <3>3, <5>1
        <5> HIDE DEF f
        <5>3. QED
          BY <2>1, <3>1, <3>2, <5>1, <5>2 DEF ScanInv, Content
      <4>2. CASE ~at(i)
        <5>1. f[i] = Nobody
          BY <3>4, <4>2
        <5> HIDE DEF f
        <5>2. i \in 1 .. filepos
          BY <3>1 DEF Record
        <5>3. QED
          BY <2>1, <3>1, <4>2, <5>1, <5>2 DEF ScanInv, Content
      <4>3. QED
        BY <4>1, <4>2
    <3>6. f \in [Record -> Content]
      BY <3>5, Zenon
    <3> HIDE DEF f
    <3>7. {entries[j] : j \in 1 .. Len(entries)} =
            {<<i, f[i]>> : i \in {k \in Record : f[k] # Nobody}}
      <4> DEFINE L == {entries[j] : j \in 1 .. Len(entries)}
                 R == {<<i, f[i]>> : i \in {k \in Record : f[k] # Nobody}}
      <4>1. ASSUME NEW e \in L
            PROVE  e \in R
        <5>1. PICK j \in 1 .. Len(entries) : e = entries[j]
          OBVIOUS
        <5>2. e[1] \in Record /\ f[e[1]] # Nobody /\ e = <<e[1], f[e[1]]>>
          BY <3>2, <3>3, <5>1
        <5>3. QED
          BY <5>2
      <4>2. ASSUME NEW e \in R
            PROVE  e \in L
        <5>1. PICK i \in Record : f[i] # Nobody /\ e = <<i, f[i]>>
          OBVIOUS
        <5>2. PICK j \in 1 .. Len(entries) : entries[j][1] = i
          BY <3>4, <5>1
        <5>3. e = entries[j]
          BY <3>2, <3>3, <5>1, <5>2
        <5>4. QED
          BY <5>3
      <4> HIDE DEF L, R
      <4>3. L = R
        BY <4>1, <4>2
      <4>4. QED
        BY <4>3 DEF L, R
    <3>8. Scan!Lists(answer', f)
      BY <3>1, <3>7 DEF Scan!Lists, Scan!Slot, Record, OneEntryPerLine
    <3>9. answer' # NULL
      BY <3>1 DEF Record
    <3>10. Scan!Answer
      <4>1. f \in [Scan!Slot -> Scan!Content] /\ \A i \in Scan!Slot : f[i] \in seen[i]
        BY <3>5, <3>6 DEF Scan!Slot, Scan!Content, Record, Content
      <4>2. QED
        BY <3>1, <3>8, <3>9, <4>1 DEF Scan!Answer
    <3>11. QED
      BY <3>10 DEF Scan!Next
  <2>6. CASE Release
    <3>1. Scan!Release
      BY <2>6 DEF Release, Scan!Release, Scan!Slot, Record
    <3>2. QED
      BY <3>1 DEF Scan!Next
  <2>7. ASSUME NEW i \in Record, NEW v \in Content, Overwrite(i, v)
        PROVE  Scan!Next
    <3>1. Scan!Change(i, v)
      BY <2>1, <2>7 DEF Overwrite, Scan!Change, ScanInv, TypeOK
    <3>2. QED
      BY <3>1 DEF Scan!Next, Scan!Slot, Scan!Content, Record, Content
  <2>8. CASE UNCHANGED vars
    BY <2>8 DEF vars, Scan!vars
  <2>9. QED
    BY <2>2, <2>3, <2>4, <2>5, <2>6, <2>7, <2>8 DEF Next, get_users
<1>3. QED
  BY <1>1, <1>2, TypeCorrect, ScanInductive, LinesInOrder, PTL
     DEF Spec, RefinesScan
-----------------------------------------------------------------------------
(* Until an allocation fails, every list of get_users names everybody who  *)
(* was logged in all through the call, and nobody who was not there during *)
(* it: EveryUserListed is only violated after a failure.                   *)
THEOREM NobodyMissed == Spec => [](failures = 0 => EveryUserListed /\ NobodyInvented)
<1> USE RecordAssumption, SentinelAssumption DEF Running
<1>1. Init => ListsThem
  BY DEF Init, ListsThem, EveryUserListed, NobodyInvented
<1>2. TypeOK /\ ScanInv /\ ScanInv' /\ ListsThem /\ [Next]_vars => ListsThem'
  <2> SUFFICES ASSUME TypeOK, ScanInv, ScanInv', ListsThem, [Next]_vars, failures' = 0
               PROVE  (EveryUserListed /\ NobodyInvented)'
    BY DEF ListsThem
  <2>1. failures = 0
    BY DEF Next, get_users, vars, Call, Allocate, ArrayAllocFails,
           InfoAllocFails, SkipRecord, CopyRecord, CopyFails, Grow, GrowFails,
           EndOfFile, Release, Overwrite, Fail, TypeOK
  <2>2. CASE EndOfFile
    <3>1. /\ pc = "scan" /\ filepos = NRecords /\ answer' = entries
          /\ UNCHANGED seen /\ entries \in Seq(Record \X User)
      BY <2>2 DEF EndOfFile, TypeOK
    <3>2. \A j \in 1 .. Len(entries) : entries[j][2] \in seen[entries[j][1]]
      BY <2>1, <3>1 DEF ScanInv
    <3>3. ASSUME NEW i \in Record, NEW u \in User, seen[i] = {u}
          PROVE  \E j \in 1 .. Len(entries) : entries[j] = <<i, u>>
      <4>1. i \in 1 .. filepos /\ Nobody \notin seen[i]
        BY <3>1, <3>3 DEF Record
      <4>2. PICK j \in 1 .. Len(entries) : entries[j][1] = i
        BY <2>1, <3>1, <4>1 DEF ScanInv
      <4>3. entries[j][2] = u /\ entries[j] = <<entries[j][1], entries[j][2]>>
        BY <3>1, <3>2, <3>3, <4>2
      <4> QED
        BY <4>2, <4>3
    <3> QED
      BY <3>1, <3>2, <3>3 DEF EveryUserListed, NobodyInvented
  <2>3. ASSUME NEW i \in Record, NEW v \in Content, Overwrite(i, v)
        PROVE  (EveryUserListed /\ NobodyInvented)'
    <3>1. UNCHANGED <<pc, answer>> /\ (pc = "done" => UNCHANGED seen)
      BY <2>3 DEF Overwrite
    <3>2. CASE pc = "done"
      BY <2>1, <3>1, <3>2 DEF ListsThem, EveryUserListed, NobodyInvented
    <3>3. CASE pc # "done"
      BY <2>1, <3>1, <3>3 DEF ScanInv, EveryUserListed, NobodyInvented
    <3> QED
      BY <3>2, <3>3
  <2>4. CASE pc' # "done"
    BY <2>4 DEF ScanInv, EveryUserListed, NobodyInvented
  <2>5. CASE UNCHANGED vars
    BY <2>1, <2>5 DEF vars, ListsThem, EveryUserListed, NobodyInvented
  <2>6. ASSUME Call \/ Allocate \/ SkipRecord \/ CopyRecord \/ Grow \/ Release
        PROVE  pc' # "done"
    BY <2>6 DEF Call, Allocate, SkipRecord, CopyRecord, Grow, Release
  <2>7. ~(ArrayAllocFails \/ InfoAllocFails \/ GrowFails \/ \E k \in 0 .. 2 : CopyFails(k))
    BY <2>1 DEF ArrayAllocFails, InfoAllocFails, GrowFails, CopyFails, Fail
  <2> QED
    BY <2>2, <2>3, <2>4, <2>5, <2>6, <2>7 DEF Next, get_users
<1> QED
  BY <1>1, <1>2, TypeCorrect, ScanInductive, PTL DEF Spec, ListsThem
=============================================================================
