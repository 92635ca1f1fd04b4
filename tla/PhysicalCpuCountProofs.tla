----------------------- MODULE PhysicalCpuCountProofs -----------------------
(***************************************************************************)
(* When physical_cpu_count counts right, for every set of package numbers  *)
(* and every number of lines.                                              *)
(***************************************************************************)
EXTENDS PhysicalCpuCount, FiniteSetTheorems, TLAPS

LEMMA AtMostOne ==
  ASSUME NEW S, IsFiniteSet(S), Cardinality(S) <= 1, NEW x \in S, NEW y \in S
  PROVE  x = y
<1>1. Cardinality(S) \in Nat /\ S # {}
  BY FS_CardinalityType
<1>2. Cardinality(S) = 1
  BY <1>1, FS_EmptySet
<1>3. PICK z : S = {z}
  BY <1>2, FS_Singleton
<1>4. QED
  BY <1>3

LEMMA SeenGrows ==
  ASSUME TypeOK, pos < lines, pos' = pos + 1, UNCHANGED <<cpuinfo, lines>>
  PROVE  /\ Seen' = Seen \cup {cpuinfo[pos + 1]}
         /\ Ascending' => Ascending /\ \A x \in Seen : x <= cpuinfo[pos + 1]
<1>1. pos \in Nat /\ 1 .. pos' = (1 .. pos) \cup {pos + 1}
  BY DEF TypeOK
<1>2. QED
  BY <1>1 DEF Seen, Ascending

(* What lfind answers: the id is the one stored last, or it is 0 and some  *)
(* id has been stored.                                                     *)
LEMMA WhatIsFound ==
  ASSUME TypeOK, IdsInv, NEW id \in Nat
  PROVE  Found(id) <=> nprocs > 0 /\ (id = ids[1] \/ id = 0)
<1>1. 1 \in 1 .. s /\ 2 \in 1 .. s /\ 1 .. s = {1, 2} \cup 3 .. s
  BY SizeAssumption
<1>2. nprocs \in Nat
  BY DEF TypeOK
<1>3. CASE nprocs = 0
  BY <1>3 DEF IdsInv, NoIds, Found
<1>4. CASE nprocs > 0
  BY <1>1, <1>4 DEF IdsInv, Found
<1>5. QED
  BY <1>2, <1>3, <1>4

LEMMA CountInductive == Spec => []CountInv
<1> USE PackageAssumption, LinesAssumption, SizeAssumption, WidthAssumption
<1>1. Init => CountInv
  <2> SUFFICES ASSUME Init PROVE CountInv
    OBVIOUS
  <2>1. Seen = {} /\ Seen \ {0} = {}
    BY DEF Init, Seen
  <2>2. TypeOK
    BY DEF Init, TypeOK, NoIds
  <2>3. QED
    BY <2>1, <2>2, FS_EmptySet DEF Init, CountInv, IdsInv, AscendingExact,
       CountBounds, NoneMissed, PairNotRepeated
<1>2. CountInv /\ [Next]_vars => CountInv'
  <2> SUFFICES ASSUME CountInv, [Next]_vars PROVE CountInv'
    OBVIOUS
  <2>1. CASE ReadLine
    <3> DEFINE id == cpuinfo[pos + 1]
    <3>1. /\ pos \in Nat /\ nprocs \in Nat /\ pos' = pos + 1
          /\ id \in Nat /\ id \in Int
          /\ ids \in [1 .. s -> Int]
          /\ 1 \in 1 .. s /\ 2 \in 1 .. s
      <4>1. /\ pos \in Nat /\ nprocs \in Nat /\ lines \in Nat
            /\ pos' = pos + 1 /\ pos < lines
            /\ cpuinfo \in [1 .. lines -> Package]
            /\ ids \in [1 .. s -> Int]
        BY <2>1 DEF ReadLine, CountInv, TypeOK
      <4>2. pos + 1 \in 1 .. lines
        BY <4>1
      <4>3. id \in Package
        BY <4>1, <4>2
      <4> HIDE DEF id
      <4>6. id \in Nat /\ id \in Int
        BY <4>3
      <4>4. 1 \in 1 .. s /\ 2 \in 1 .. s
        OBVIOUS
      <4>5. QED
        BY <4>1, <4>6, <4>4
    <3>2. /\ Seen' = Seen \cup {id}
          /\ Ascending' => Ascending /\ \A x \in Seen : x <= id
      BY <2>1, SeenGrows DEF ReadLine, CountInv
    <3>3. /\ IsFiniteSet(Seen) /\ IsFiniteSet(Seen')
          /\ Cardinality(Seen) \in Nat
          /\ Cardinality(Seen') =
               IF id \in Seen THEN Cardinality(Seen) ELSE Cardinality(Seen) + 1
      BY <3>2, FS_AddElement, FS_CardinalityType DEF CountInv, IdsInv
    <3>4. /\ IsFiniteSet(Seen \ {0}) /\ IsFiniteSet(Seen' \ {0})
          /\ Cardinality(Seen \ {0}) \in Nat
          /\ Cardinality(Seen' \ {0}) =
               IF id = 0 \/ id \in Seen THEN Cardinality(Seen \ {0})
                                        ELSE Cardinality(Seen \ {0}) + 1
      <4>1. IsFiniteSet(Seen \ {0}) /\ IsFiniteSet((Seen \ {0}) \cup {id})
        BY <3>3, FS_RemoveElement, FS_AddElement
      <4>2. Cardinality((Seen \ {0}) \cup {id}) =
              IF id \in Seen \ {0} THEN Cardinality(Seen \ {0})
                                   ELSE Cardinality(Seen \ {0}) + 1
        BY <4>1, FS_AddElement
      <4>3. CASE id = 0
        <5>1. Seen' \ {0} = Seen \ {0}
          BY <3>2, <4>3
        <5>2. QED
          BY <4>1, <4>3, <5>1, FS_CardinalityType
      <4>4. CASE id # 0
        <5>1. Seen' \ {0} = (Seen \ {0}) \cup {id}
          BY <3>2, <4>4
        <5>2. QED
          BY <4>1, <4>2, <4>4, <5>1, FS_CardinalityType
      <4>5. QED
        BY <4>3, <4>4
    <3>5. Found(id) <=> nprocs > 0 /\ (id = ids[1] \/ id = 0)
      BY <3>1, WhatIsFound DEF CountInv
    <3>6. UNCHANGED <<cpuinfo, lines, ret>>
      BY <2>1 DEF ReadLine
    <3>7. cpuinfo'[pos'] = id
      BY <3>1, <3>6
    <3>8. CASE Found(id)
      <4>1. /\ UNCHANGED <<ids, nprocs>>
            /\ nprocs > 0 /\ pos > 0
            /\ id = ids[1] \/ id = 0
            /\ ids[1] \in Seen /\ ids[2] = 0
            /\ \A k \in 3 .. s : ids[k] = -1
        BY <2>1, <3>1, <3>5, <3>8 DEF ReadLine, CountInv, IdsInv, TypeOK
      <4>2. TypeOK'
        BY <2>1, <3>1, <3>6, <4>1 DEF CountInv, TypeOK, ReadLine
      <4>3. id = 0 \/ id \in Seen
        BY <4>1
      <4>4. Ascending' => Ascending /\ id = ids[1] /\ id \in Seen
        <5> SUFFICES ASSUME Ascending'
                     PROVE  Ascending /\ id = ids[1] /\ id \in Seen
          OBVIOUS
        <5>1. Ascending /\ ids[1] <= id
          BY <3>2, <4>1
        <5>2. ids[1] \in Nat
          BY <4>1, <3>1 DEF Seen, CountInv, TypeOK
        <5>3. QED
          BY <4>1, <5>1, <5>2, <3>1
      <4>5. AscendingExact'
        BY <3>3, <4>1, <4>4 DEF CountInv, AscendingExact
      <4>6. NoneMissed'
        <5>1. cpuinfo[1] = 0 => 0 \in Seen
          BY <3>1, <4>1 DEF Seen
        <5>2. cpuinfo[1] = 0 => id \in Seen
          BY <4>3, <5>1
        <5>3. QED
          BY <3>1, <3>3, <3>4, <3>6, <4>1, <4>3, <5>2 DEF CountInv, CountBounds, NoneMissed
      <4>7. PairNotRepeated'
        BY <3>1, <3>3, <3>4, <4>1, <4>3 DEF CountInv, CountBounds, PairNotRepeated
      <4>8. IdsInv'
        <5>1. Seen' \ {0} = Seen \ {0} /\ Seen \subseteq Seen'
          BY <3>2, <4>3
        <5>2. Ascending' => ids'[1] = cpuinfo'[pos']
          BY <3>7, <4>1, <4>4
        <5>3. QED
          BY <3>3, <4>1, <5>1, <5>2 DEF CountInv, IdsInv
      <4>9. QED
        BY <4>2, <4>5, <4>6, <4>7, <4>8 DEF CountInv, CountBounds
    <3>9. CASE ~Found(id)
      <4>1. /\ nprocs' = nprocs + 1
            /\ ids' = [ids EXCEPT ![1] = id, ![2] = 0]
            /\ nprocs = 0 \/ (nprocs > 0 /\ id # 0 /\ id # ids[1])
        BY <2>1, <3>1, <3>5, <3>9 DEF ReadLine, Store
      <4>2. /\ ids'[1] = id /\ ids'[2] = 0
            /\ \A k \in 3 .. s : ids'[k] = -1
            /\ ids' \in [1 .. s -> Int]
        <5>1. \A k \in 3 .. s : k \in 1 .. s /\ k # 1 /\ k # 2 /\ ids[k] = -1
          BY <3>1, <4>1 DEF CountInv, IdsInv, NoIds
        <5>2. QED
          BY <3>1, <4>1, <5>1
      <4>3. TypeOK'
        BY <2>1, <3>1, <3>6, <4>1, <4>2 DEF CountInv, TypeOK, ReadLine
      <4>4. nprocs = 0 => Seen = {} /\ Cardinality(Seen) = 0 /\ pos = 0
        BY FS_EmptySet DEF CountInv, IdsInv, Seen
      <4>5. nprocs > 0 => pos > 0 /\ ids[1] \in Seen
        BY <3>1 DEF CountInv, IdsInv, TypeOK
      <4>6. Ascending' => nprocs = Cardinality(Seen) /\ id \notin Seen
        <5> SUFFICES ASSUME Ascending'
                     PROVE  nprocs = Cardinality(Seen) /\ id \notin Seen
          OBVIOUS
        <5>1. Ascending /\ nprocs = Cardinality(Seen)
          BY <3>2 DEF CountInv, AscendingExact
        <5>2. CASE nprocs > 0
          <6>1. ids[1] = cpuinfo[pos] /\ ids[1] <= id /\ ids[1] # id
            BY <3>2, <4>1, <4>5, <5>1, <5>2 DEF CountInv, IdsInv
          <6>2. \A x \in Seen : x <= cpuinfo[pos]
            <7> SUFFICES ASSUME NEW j \in 1 .. pos
                         PROVE  cpuinfo[j] <= cpuinfo[pos]
              BY DEF Seen
            <7>1. pos \in 1 .. pos /\ j <= pos
              BY <3>1, <4>5, <5>2 DEF CountInv, TypeOK
            <7>2. QED
              BY <5>1, <7>1 DEF Ascending
          <6>3. cpuinfo[pos] \in Nat
            <7>1. /\ lines \in Nat /\ pos \in 1 .. lines
                  /\ cpuinfo \in [1 .. lines -> Package]
              BY <3>1, <4>5, <5>2 DEF CountInv, TypeOK
            <7>2. QED
              BY <7>1
          <6>4. QED
            BY <3>1, <5>1, <6>1, <6>2, <6>3
        <5>3. QED
          BY <4>1, <4>4, <5>1, <5>2
      <4>7. AscendingExact'
        BY <3>3, <4>1, <4>6 DEF AscendingExact
      <4>8. NoneMissed'
        <5>1. nprocs + 1 >= Cardinality(Seen' \ {0})
          BY <3>1, <3>4 DEF CountInv, CountBounds, NoneMissed
        <5>2. cpuinfo[1] = 0 => nprocs + 1 >= Cardinality(Seen')
          BY <3>1, <3>3, <4>1, <4>4, <4>5 DEF CountInv, CountBounds, NoneMissed
        <5>3. QED
          BY <3>6, <4>1, <5>1, <5>2 DEF NoneMissed
      <4>9. PairNotRepeated'
        <5> SUFFICES ASSUME Cardinality(Seen' \ {0}) <= 1
                     PROVE  nprocs + 1 <= Cardinality(Seen')
          BY <4>1 DEF PairNotRepeated
        <5>1. id \notin Seen
          <6>1. CASE nprocs > 0
            <7> SUFFICES ASSUME id \in Seen PROVE FALSE
              OBVIOUS
            <7>1. Cardinality(Seen \ {0}) <= 1
              BY <3>4
            <7>2. id = ids[1]
              BY <4>1, <6>1, <7>1 DEF CountInv, IdsInv
            <7>3. QED
              BY <4>1, <6>1, <7>2
          <6>2. QED
            BY <4>1, <4>4, <6>1
        <5>2. Cardinality(Seen \ {0}) <= 1
          BY <3>4, <5>1
        <5>3. nprocs <= Cardinality(Seen)
          BY <5>2 DEF CountInv, CountBounds, PairNotRepeated
        <5>4. QED
          BY <3>1, <3>3, <5>1, <5>3
      <4>10. IdsInv'
        <5>1. Cardinality(Seen' \ {0}) <= 1 => \A x \in Seen' \ {0} : ids'[1] = x
          <6> SUFFICES ASSUME Cardinality(Seen' \ {0}) <= 1,
                              NEW x \in Seen' \ {0}
                       PROVE  x = id
            BY <4>2
          <6>1. CASE id = 0
            BY <3>2, <4>1, <4>4, <6>1
          <6>2. CASE id # 0
            BY <3>2, <3>4, <6>2, AtMostOne
          <6>3. QED
            BY <6>1, <6>2
        <5>2. id \in Seen'
          BY <3>2
        <5>3. QED
          BY <3>1, <3>3, <3>7, <4>1, <4>2, <5>1, <5>2 DEF IdsInv
      <4>11. QED
        BY <4>3, <4>7, <4>8, <4>9, <4>10 DEF CountInv, CountBounds
    <3>10. QED
      BY <3>8, <3>9
  <2>2. CASE Return \/ Unavailable \/ UNCHANGED vars
    <3>1. UNCHANGED <<cpuinfo, lines, pos, ids, nprocs>>
      BY <2>2 DEF Return, Unavailable, vars
    <3>2. Seen' = Seen /\ (Ascending' <=> Ascending)
      BY <3>1 DEF Seen, Ascending
    <3>3. TypeOK'
      BY <2>2, <3>1 DEF CountInv, TypeOK, Return, Unavailable, vars
    <3>4. QED
      BY <3>1, <3>2, <3>3 DEF CountInv, IdsInv, AscendingExact, CountBounds,
                              CountBounds, NoneMissed, PairNotRepeated
  <2>3. QED
    BY <2>1, <2>2 DEF Next
<1>3. QED
  BY <1>1, <1>2, PTL DEF Spec

(* TypeOK, with the bound it puts on the count: no more than lines read.   *)
THEOREM TypeCorrect == Spec => []TypeOK
<1>1. CountInv => TypeOK
  BY DEF CountInv
<1>2. QED
  BY <1>1, CountInductive, PTL

(* AscendingExact: with package numbers that ascend along the file, as on  *)
(* machines that number the CPUs package by package, the count is exact.   *)
THEOREM ExactIfAscending == Spec => []AscendingExact
<1>1. CountInv => AscendingExact
  BY DEF CountInv
<1>2. QED
  BY <1>1, CountInductive, PTL

(* CountBounds: the only package that can be missed is 0, if not the       *)
(* first, and package 0 and one other are never counted twice.             *)
THEOREM MissedOrRepeated == Spec => []CountBounds
<1>1. CountInv => CountBounds
  BY DEF CountInv
<1>2. QED
  BY <1>1, CountInductive, PTL
=============================================================================
