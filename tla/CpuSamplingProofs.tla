------------------------- MODULE CpuSamplingProofs -------------------------
(***************************************************************************)
(* What CpuSampling guarantees for any number of CPUs, entries of the      *)
(* table, sessions, ticks, CPUs that come and go, and failures.            *)
(***************************************************************************)
EXTENDS CpuSampling, FiniteSetTheorems, WellFoundedInduction, TLAPS

Calling == {"reference", "compute"}

\* Which of the arrays exist, and how long they are
Shape ==
  /\ platform = "osx" => online = Cpu
  /\ fault = "none" <=> pc # "crashed"
  /\ pc \in {"idle", "counted"} => prev = NULL
  /\ pc \in Calling => prev # NULL
  /\ pc \in {"idle", "counted", "sampled", "reference", "answered"} => current = NULL
  /\ pc = "compute" => current # NULL
  /\ prev # NULL => Len(prev) = IF percpu THEN Entries ELSE 1
  /\ current # NULL => Len(current) = IF percpu THEN Entries ELSE 1
  /\ pc = "answered" /\ result # NULL => Len(result) = ncpus

\* The callee has already failed to do what it was asked for
Failed ==
  \/ pc = "sampled" /\ prev = NULL
  \/ pc = "refused"
  \/ pc = "answered" /\ result = NULL
  \/ pc \in Calling /\ ncpus = Uncounted

\* What caller and callee have counted, as far as no CPU came or went
CountInv ==
  /\ counted = Uncounted => failures > 0
  /\ ncpus = Uncounted => failures > 0
  /\ ~percpu /\ pc # "idle" => counted = 1
  /\ ~percpu /\ (pc \in Calling \/ (pc = "answered" /\ result # NULL)) => ncpus = 1
  /\ percpu /\ steady =>
       /\ pc \notin {"idle", "crashed"} => counted \in {Cardinality(online), Uncounted}
       /\ pc \in Calling => ncpus \in {Cardinality(online), Uncounted}
       /\ pc = "answered" /\ result # NULL => ncpus = Cardinality(online)
       /\ prev # NULL => Cardinality(online) <= Entries
  /\ pc \in Calling /\ fn = "util" /\ result = NULL => failures > 0
  /\ Failed => failures > 0

Ports == {b \in heap : b[2] = "port"}
Old == {b \in heap \ Ports : b[1] < sessions}

\* What this session has allocated
Mine ==
  CASE pc = "counted" -> {}
    [] pc = "sampled" -> {"prev"}
    [] pc = "reference" -> {"prev"} \cup (IF fn = "util" THEN {"result"} ELSE {})
    [] pc \in {"compute", "refused"} ->
         {"prev", "current"} \cup (IF fn = "util" THEN {"result"} ELSE {})
    [] OTHER ->
         {"prev"} \cup (IF fn = "util" \/ result # NULL THEN {"result"} ELSE {})

HeapInv ==
  /\ IsFiniteSet(heap)
  /\ Cardinality(Ports) <= failures
  /\ platform = "linux" => Ports = {}
  /\ \A b \in heap : b[1] <= sessions
  /\ pc = "idle" =>
       Cardinality(heap \ Ports) <= failures /\ \A b \in heap : b[2] # "current"
  /\ pc \notin {"idle", "crashed"} =>
       /\ Cardinality(Old) + (IF Failed THEN 1 ELSE 0) <= failures
       /\ \A b \in Old : b[2] # "current"
       /\ \A b \in heap \ Ports : b[1] = sessions => b[2] \in Mine

Indices == IF percpu THEN Cpu ELSE {1}

\* Since the sample the line that it has at index i has grown by what was
\* counted since, and so has the line of the callee's sample if it is the same.
\* While no CPU comes or goes it is.
SampleInv ==
  /\ \A l \in Line : since[l]["guest"] <= since[l]["user"]
  /\ pc \in {"sampled", "reference"} /\ prev # NULL =>
       /\ steady \/ ~percpu => \A i \in Cpu : pairs[i][1] = Behind(i)
       /\ \A i \in Indices : (percpu => pairs[i][1] # 0) =>
            /\ i <= Len(prev)
            /\ \A f \in Field :
                 counters[pairs[i][1]][f] = prev[i][f] + since[pairs[i][1]][f]
  /\ pc = "compute" =>
       /\ steady \/ ~percpu => \A i \in Cpu : pairs[i] = <<Behind(i), Behind(i)>>
       /\ \A i \in Indices : Same(i) =>
            /\ i <= Len(prev) /\ i <= Len(current)
            /\ \A f \in Field :
                 current[i][f] = prev[i][f] + since[pairs[i][1]][f]
-----------------------------------------------------------------------------
\* A set of natural numbers that is not empty has a least one.
LEMMA Least ==
  ASSUME NEW T \in SUBSET Nat, T # {}
  PROVE  \E x \in T : \A y \in T : x <= y
<1>1. PICK x \in T : \A y \in T : ~(<<y, x>> \in OpToRel(<, Nat))
  BY NatLessThanWellFounded, WFMin
<1>2. \A y \in T : ~(y < x)
  BY <1>1 DEF OpToRel
<1>3. \A y \in T : y \in Nat /\ x \in Nat
  OBVIOUS
<1>4. \A y \in T : x <= y
  BY <1>2, <1>3
<1> QED
  BY <1>4

\* The i-th of a set of CPUs is one of them.
LEMMA NthIn ==
  ASSUME NEW S \in SUBSET Cpu, NEW i \in 1 .. Cardinality(S)
  PROVE  Nth(S, i) \in S
<1> DEFINE Below(n) == {d \in S : d < n}
           T == {n \in Nat : Cardinality(Below(n + 1)) >= i}
<1>0. NCpus \in Nat /\ \A d \in S : d \in Nat /\ 1 <= d /\ d <= NCpus
  BY SizeAssumption DEF Cpu
<1>1. IsFiniteSet(S) /\ Cardinality(S) \in Nat
  <2>1. IsFiniteSet(Cpu)
    BY <1>0, FS_Interval DEF Cpu
  <2> QED
    BY <2>1, FS_Subset, FS_CardinalityType
<1>2. ASSUME NEW n
      PROVE  IsFiniteSet(Below(n)) /\ Cardinality(Below(n)) \in Nat
  <2>1. Below(n) \in SUBSET S
    OBVIOUS
  <2> QED
    BY <1>1, <2>1, FS_Subset, FS_CardinalityType
<1>3. NCpus \in T
  <2>1. NCpus \in Nat /\ Below(NCpus + 1) = S
    BY <1>0
  <2> QED
    BY <1>1, <2>1
<1>4. PICK c \in T : \A y \in T : c <= y
  BY <1>3, Least
<1>5. c \in Nat /\ Cardinality(Below(c + 1)) >= i
  BY <1>4
<1>6. Cardinality(Below(c)) < i
  <2>1. CASE c = 0
    <3>1. Below(c) = {}
      BY <1>0, <2>1
    <3> QED
      BY <3>1, FS_EmptySet
  <2>2. CASE c # 0
    <3>1. c - 1 \in Nat /\ c - 1 \notin T /\ (c - 1) + 1 = c
      BY <1>4, <1>5, <2>2
    <3> QED
      BY <1>2, <3>1
  <2> QED
    BY <2>1, <2>2
<1>7. Below(c + 1) = IF c \in S THEN Below(c) \cup {c} ELSE Below(c)
  <2>1. c \in Nat
    BY <1>5
  <2>2. \A d \in S : d < c + 1 <=> d < c \/ d = c
    BY <1>0, <2>1
  <2> QED
    BY <2>2
<1>8. c \in S /\ Cardinality(Below(c)) = i - 1
  <2>1. Cardinality(Below(c) \cup {c}) \in {Cardinality(Below(c)), Cardinality(Below(c)) + 1}
    BY <1>2, FS_AddElement
  <2> HIDE DEF Below, T
  <2>2. Cardinality(Below(c)) \in Nat /\ i \in Nat
    BY <1>1, <1>2
  <2>3. c \in S
    BY <1>5, <1>6, <1>7, <2>2
  <2>4. Cardinality(Below(c + 1)) \in {Cardinality(Below(c)), Cardinality(Below(c)) + 1}
    BY <1>7, <2>1, <2>3
  <2> QED
    BY <1>5, <1>6, <2>2, <2>3, <2>4
<1>9. \E x \in S : Cardinality({d \in S : d < x}) = i - 1
  BY <1>8
<1> QED
  BY <1>9 DEF Nth

-----------------------------------------------------------------------------
\* How many CPUs are online, and that nobody takes an error for a number of CPUs
LEMMA Online ==
  ASSUME TypeOK
  PROVE  /\ Cardinality(online) \in 0 .. NCpus
         /\ Cardinality(Cpu) = NCpus
         /\ logical_cpu_count = Cardinality(online)
         /\ Uncounted \in Nat /\ Uncounted > NCpus
         /\ Entries \in Nat /\ Entries < Uncounted
<1>1. IsFiniteSet(Cpu) /\ Cardinality(Cpu) = NCpus /\ NCpus \in Nat
  BY SizeAssumption, FS_Interval DEF Cpu
<1>2. online \in SUBSET Cpu
  BY DEF TypeOK
<1>3. IsFiniteSet(online) /\ Cardinality(online) <= NCpus
  BY <1>1, <1>2, FS_Subset
<1>4. Cardinality(online) \in Nat
  BY <1>3, FS_CardinalityType
<1> QED
  BY <1>1, <1>3, <1>4, SizeAssumption DEF logical_cpu_count, Uncounted, Entries

\* The array that cpu_times returns if it does not overrun
LEMMA Sampled ==
  ASSUME TypeOK, ~Overrun
  PROVE  /\ cpu_times \in Seq(CpuTimes)
         /\ cpu_times # NULL
         /\ Len(cpu_times) = IF percpu THEN Entries ELSE 1
         /\ percpu => Cardinality(online) <= Entries
         /\ \A i \in Indices : (percpu => Behind(i) # 0) =>
              i <= Len(cpu_times) /\ cpu_times[i] = counters[Behind(i)]
<1>1. /\ Cardinality(online) \in 0 .. NCpus
      /\ Entries \in Nat
  BY Online
<1>2. /\ counters \in [Line -> CpuTimes] /\ online \in SUBSET Cpu
      /\ Cpu \subseteq Line /\ 0 \in Line
  BY SizeAssumption DEF TypeOK, Cpu, Line
<1>3. Zero \in CpuTimes
  BY DEF Zero, CpuTimes
<1>4. \A i \in 1 .. Cardinality(online) : counters[Nth(online, i)] \in CpuTimes
  BY <1>2, NthIn
<1>5. CASE percpu
  <2>1. cpu_times = [i \in 1 .. Entries |->
                       IF i <= Cardinality(online) THEN counters[Nth(online, i)] ELSE Zero]
    BY <1>5 DEF cpu_times, PerCpuTimes
  <2>2. \A i \in 1 .. Entries : cpu_times[i] \in CpuTimes
    BY <1>1, <1>3, <1>4, <2>1
  <2>3. cpu_times \in Seq(CpuTimes) /\ Len(cpu_times) = Entries
    BY <1>1, <2>1, <2>2
  <2>4. Cardinality(online) <= Entries
    BY <1>1, <1>5 DEF Overrun
  <2>5. \A i \in Indices : Behind(i) # 0 =>
          i <= Len(cpu_times) /\ cpu_times[i] = counters[Behind(i)]
    <3>1. \A i \in Indices : i \in Nat /\ i >= 1
      BY <1>5, SizeAssumption DEF Indices, Cpu
    <3>2. \A i \in Indices : Behind(i) # 0 =>
            i <= Cardinality(online) /\ Behind(i) = Nth(online, i)
      BY <1>5 DEF Behind
    <3> QED
      BY <1>1, <2>1, <2>3, <2>4, <3>1, <3>2
  <2> QED
    BY <1>5, <2>3, <2>4, <2>5, SentinelAssumption
<1>6. CASE ~percpu
  <2>1. cpu_times = <<counters[0]>>
    BY <1>6 DEF cpu_times, Totals
  <2>2. cpu_times \in Seq(CpuTimes) /\ Len(cpu_times) = 1 /\ cpu_times[1] = counters[0]
    BY <1>2, <2>1
  <2> QED
    BY <1>6, <2>2, SentinelAssumption DEF Indices, Behind
<1> QED
  BY <1>5, <1>6

\* Both functions compute pairs of integers, and if t2 is e after t1, these are
\* the ticks of e and their sum.
LEMMA Quotients ==
  ASSUME NEW t1 \in CpuTimes, NEW t2 \in CpuTimes
  PROVE  /\ calculate_cpu_util_percentage(t1, t2) \in Percentage
         /\ calculate_cpu_times_percentage(t1, t2) \in Percentage
         /\ \A e \in CpuTimes :
              (\A f \in Field : t2[f] = t1[f] + e[f]) =>
                LET all == e["user"] + e["idle"] + e["guest"]
                IN  /\ calculate_cpu_util_percentage(t1, t2)["busy"]
                         = <<e["user"] + e["guest"], all>>
                    /\ \A f \in Field : calculate_cpu_times_percentage(t1, t2)[f]
                                          = <<e[f], all>>
<1>1. /\ \A f \in Field : t1[f] \in Nat /\ t2[f] \in Nat
      /\ Field = {"user", "idle", "guest"}
  BY DEF CpuTimes, Field
<1>2. sum_cpu_time(t1) \in Nat /\ sum_cpu_time(t2) \in Nat
  BY <1>1 DEF sum_cpu_time
<1>3. calculate_cpu_times_percentage(t1, t2) \in [Field -> Ratio]
  <2>1. \A f \in Field :
          <<t2[f] - t1[f], sum_cpu_time(t2) - sum_cpu_time(t1)>> \in Ratio
    BY <1>1, <1>2 DEF Ratio
  <2> QED
    BY <2>1 DEF calculate_cpu_times_percentage
<1>4. calculate_cpu_util_percentage(t1, t2) \in [{"busy"} -> Ratio]
  <2>1. <<(sum_cpu_time(t2) - t2["idle"]) - (sum_cpu_time(t1) - t1["idle"]),
          sum_cpu_time(t2) - sum_cpu_time(t1)>> \in Ratio
    BY <1>1, <1>2 DEF Ratio
  <2> QED
    BY <2>1 DEF calculate_cpu_util_percentage
<1>5. ASSUME NEW e \in CpuTimes, \A f \in Field : t2[f] = t1[f] + e[f]
      PROVE  LET all == e["user"] + e["idle"] + e["guest"]
             IN  /\ calculate_cpu_util_percentage(t1, t2)["busy"]
                      = <<e["user"] + e["guest"], all>>
                 /\ \A f \in Field : calculate_cpu_times_percentage(t1, t2)[f]
                                       = <<e[f], all>>
  <2> DEFINE all == e["user"] + e["idle"] + e["guest"]
  <2>1. \A f \in Field : e[f] \in Nat
    BY DEF CpuTimes
  <2>2. sum_cpu_time(t2) - sum_cpu_time(t1) = all
    BY <1>1, <1>5, <2>1 DEF sum_cpu_time
  <2>3. (sum_cpu_time(t2) - t2["idle"]) - (sum_cpu_time(t1) - t1["idle"])
          = e["user"] + e["guest"]
    BY <1>1, <1>5, <2>1 DEF sum_cpu_time
  <2>4. \A f \in Field : t2[f] - t1[f] = e[f]
    BY <1>1, <1>5, <2>1
  <2> HIDE DEF all
  <2>5. calculate_cpu_util_percentage(t1, t2)["busy"] = <<e["user"] + e["guest"], all>>
    BY <2>2, <2>3 DEF calculate_cpu_util_percentage
  <2>6. \A f \in Field : calculate_cpu_times_percentage(t1, t2)[f] = <<e[f], all>>
    BY <2>2, <2>4 DEF calculate_cpu_times_percentage
  <2> QED
    BY <2>5, <2>6 DEF all
<1> QED
  BY <1>3, <1>4, <1>5 DEF Percentage

\* What both functions compute if no CPU is missing in their own sample
LEMMA Answer ==
  ASSUME TypeOK, Shape, pc = "compute", ~(ncpus > Len(current)),
         NEW r, r = [i \in 1 .. ncpus |->
                       IF fn = "util"
                         THEN calculate_cpu_util_percentage(prev[i], current[i])
                         ELSE calculate_cpu_times_percentage(prev[i], current[i])]
  PROVE  /\ r \in Seq(Percentage) /\ r # NULL /\ Len(r) = ncpus
         /\ \A i \in 1 .. ncpus : prev[i] \in CpuTimes /\ current[i] \in CpuTimes
<1>1. /\ prev \in Seq(CpuTimes) /\ current \in Seq(CpuTimes)
      /\ Len(prev) = Len(current)
  BY DEF TypeOK, Shape, Calling
<1>2. ncpus \in Nat
  BY Online, SizeAssumption DEF TypeOK
<1>3. \A i \in 1 .. ncpus : prev[i] \in CpuTimes /\ current[i] \in CpuTimes
  BY <1>1, <1>2
<1>4. \A i \in 1 .. ncpus :
        /\ calculate_cpu_util_percentage(prev[i], current[i]) \in Percentage
        /\ calculate_cpu_times_percentage(prev[i], current[i]) \in Percentage
  BY <1>3, Quotients
<1>5. r \in Seq(Percentage) /\ Len(r) = ncpus
  BY <1>2, <1>4
<1>6. r \in Seq(Percentage \cup {NULL})
  BY <1>5
<1> QED
  BY <1>3, <1>5, <1>6, SentinelAssumption
-----------------------------------------------------------------------------
PC == {"idle", "counted", "sampled", "reference", "refused", "compute", "answered",
       "crashed"}
Block == Nat \X {"prev", "current", "result", "port"}
Counts == (0 .. NCpus) \cup {Uncounted}
Samples == Seq(CpuTimes) \cup {NULL}
Results == Seq(Percentage \cup {NULL}) \cup {NULL}

\* Every variable stays in its range, each entry of a sample is set, and both
\* samples of a call are of the same length.
THEOREM TypeCorrect == Spec => [](TypeOK /\ Shape)
<1>1. Init => TypeOK /\ Shape
  <2> SUFFICES ASSUME Init PROVE TypeOK /\ Shape
    OBVIOUS
  <2>1. /\ counters \in [Line -> CpuTimes] /\ since \in [Line -> CpuTimes]
        /\ pairs \in [Cpu -> (Cpu \cup {0}) \X (Cpu \cup {0})]
    BY DEF Init, Zero, CpuTimes
  <2>2. {counted, ncpus} \subseteq (0 .. NCpus) \cup {Uncounted}
    BY SizeAssumption DEF Init
  <2>3. TypeOK
    <3>1. /\ online \in SUBSET Cpu /\ prev \in Seq(CpuTimes) \cup {NULL}
          /\ current \in Seq(CpuTimes) \cup {NULL}
          /\ result \in Seq(Percentage \cup {NULL}) \cup {NULL}
          /\ heap \subseteq Nat \X {"prev", "current", "result", "port"}
      BY DEF Init
    <3>2. /\ platform \in {"linux", "osx"}
          /\ pc \in {"idle", "counted", "sampled", "reference", "refused", "compute",
                     "answered", "crashed"}
          /\ percpu \in BOOLEAN /\ fn \in {"times", "util"}
          /\ fault \in {"none", "wild_read", "wild_write", "wild_unmap", "null_deref"}
          /\ steady \in BOOLEAN
      BY Zenon DEF Init
    <3>3. {sessions, ticks, hotplugs, failures} \subseteq Nat
      BY DEF Init
    <3> QED
      BY <2>1, <2>2, <3>1, <3>2, <3>3, Zenon DEF TypeOK
  <2>4. Shape
    BY DEF Init, Shape, Calling
  <2> QED
    BY <2>3, <2>4
<1>2. TypeOK /\ Shape /\ [Next]_vars => TypeOK' /\ Shape'
  <2> SUFFICES ASSUME TypeOK, Shape, [Next]_vars PROVE TypeOK' /\ Shape'
    OBVIOUS
  <2>n. /\ platform \in {"linux", "osx"} /\ pc \in PC /\ percpu \in BOOLEAN
        /\ fn \in {"times", "util"} /\ counted \in Counts /\ ncpus \in Counts
        /\ prev \in Samples /\ current \in Samples /\ result \in Results
        /\ fault \in {"none", "wild_read", "wild_write", "wild_unmap", "null_deref"}
        /\ sessions \in Nat /\ failures \in Nat /\ ticks \in Nat /\ hotplugs \in Nat
        /\ steady \in BOOLEAN
    BY DEF TypeOK, PC, Counts, Samples, Results
  <2>b. /\ heap \subseteq Block
        /\ \A S : heap \ S \subseteq Block
        /\ \A names \in SUBSET {"prev", "current", "result", "port"} :
             /\ heap \cup Blocks(names) \subseteq Block
             /\ \A S : (heap \ S) \cup Blocks(names) \subseteq Block
    <3>1. heap \subseteq Block /\ sessions \in Nat
      BY DEF TypeOK, Block
    <3> QED
      BY <3>1 DEF Blocks, Block
  <2>h. /\ since \in [Line -> CpuTimes]
        /\ pairs \in [Cpu -> (Cpu \cup {0}) \X (Cpu \cup {0})]
    BY DEF TypeOK
  <2>c. /\ logical_cpu_count \in Counts /\ Uncounted \in Counts /\ 0 \in Counts
        /\ 1 \in Counts
    BY Online, SizeAssumption DEF Counts
  \* A step of the program leaves the machine alone
  <2>t. ASSUME UNCHANGED machine,
               pc' \in PC, percpu' \in BOOLEAN, fn' \in {"times", "util"},
               counted' \in Counts, ncpus' \in Counts,
               prev' \in Samples, current' \in Samples, result' \in Results,
               heap' \subseteq Block,
               fault' \in {"none", "wild_read", "wild_write", "wild_unmap", "null_deref"},
               sessions' \in Nat, failures' \in Nat, steady' \in BOOLEAN,
               since' \in [Line -> CpuTimes],
               pairs' \in [Cpu -> (Cpu \cup {0}) \X (Cpu \cup {0})]
        PROVE  TypeOK' /\ Entries' = Entries
    <3>1. /\ platform' = platform /\ online' = online /\ counters' = counters
          /\ ticks' = ticks /\ hotplugs' = hotplugs
      BY <2>t DEF machine
    <3>2. /\ platform' \in {"linux", "osx"} /\ online' \in SUBSET Cpu
          /\ counters' \in [Line -> CpuTimes]
          /\ ticks' \in Nat /\ hotplugs' \in Nat
      BY <3>1 DEF TypeOK
    <3>3. {counted', ncpus'} \subseteq Counts
          /\ {sessions', ticks', hotplugs', failures'} \subseteq Nat
      BY <2>t, <3>2
    <3>4. TypeOK'
      BY <2>t, <3>2, <3>3, Zenon DEF TypeOK, PC, Counts, Samples, Results, Block
    <3> QED
      BY <3>1, <3>4 DEF Entries
  <2>s. /\ platform = "osx" => online = Cpu
        /\ fault = "none" <=> pc # "crashed"
        /\ pc \in {"idle", "counted"} => prev = NULL
        /\ pc \in Calling => prev # NULL
        /\ pc \in {"idle", "counted", "sampled", "reference", "answered"} => current = NULL
        /\ pc = "compute" => current # NULL
        /\ prev # NULL => Len(prev) = IF percpu THEN Entries ELSE 1
        /\ current # NULL => Len(current) = IF percpu THEN Entries ELSE 1
    BY DEF Shape
  <2>i. \A i \in Cpu : Behind(i) \in Cpu \cup {0}
    <3>1. online \in SUBSET Cpu /\ Cardinality(online) \in 0 .. NCpus
      BY Online DEF TypeOK
    <3>2. \A i \in 1 .. Cardinality(online) : Nth(online, i) \in Cpu
      BY <3>1, NthIn
    <3> QED
      BY <3>1, <3>2, SizeAssumption DEF Behind, Cpu
  <2>k. KeepPort => heap' \subseteq Block
    BY <2>b DEF KeepPort
  <2>3. ASSUME NEW c \in Cpu, NEW fields, Tick(c, fields)
        PROVE  TypeOK' /\ Shape'
    <3>1. /\ ticks' = ticks + 1
          /\ counters' = Added(counters, c, fields)
          /\ since' \in {since, Added(since, c, fields)}
          /\ UNCHANGED <<platform, online, hotplugs, pc, call, heap, fault, bounds,
                         steady, pairs>>
      BY <2>3 DEF Tick
    <3>2. ASSUME NEW t \in [Line -> CpuTimes]
          PROVE  Added(t, c, fields) \in [Line -> CpuTimes]
      <4>1. \A l \in Line : \A f \in Field : t[l][f] \in Nat /\ t[l][f] + 1 \in Nat
        BY DEF CpuTimes
      <4> QED
        BY <4>1 DEF Added, CpuTimes
    <3>3. counters' \in [Line -> CpuTimes] /\ since' \in [Line -> CpuTimes]
      <4>1. counters \in [Line -> CpuTimes]
        BY DEF TypeOK
      <4> QED
        BY <2>h, <3>1, <3>2, <4>1
    <3>4. TypeOK'
      <4>1. /\ {sessions', ticks', hotplugs', failures'} \subseteq Nat
            /\ {counted', ncpus'} \subseteq Counts
        BY <2>n, <3>1 DEF bounds, call
      <4> QED
        BY <2>n, <3>1, <3>3, <4>1 DEF TypeOK, call, bounds, Counts
    <3> QED
      BY <3>1, <3>4 DEF Shape, call, Entries
  <2>4. ASSUME NEW c \in Cpu, Hotplug(c)
        PROVE  TypeOK' /\ Shape'
    <3>1. /\ hotplugs' = hotplugs + 1 /\ steady' = FALSE /\ platform = "linux"
          /\ online' \in SUBSET Cpu
          /\ UNCHANGED <<platform, counters, ticks, pc, call, heap, fault, bounds,
                         since, pairs>>
      BY <2>4 DEF Hotplug, TypeOK
    <3>2. TypeOK'
      <4>1. /\ {sessions', ticks', hotplugs', failures'} \subseteq Nat
            /\ {counted', ncpus'} \subseteq Counts
        BY <2>n, <3>1 DEF bounds, call
      <4> QED
        BY <2>n, <3>1, <4>1 DEF TypeOK, call, bounds, Counts
    <3> QED
      BY <3>1, <3>2 DEF Shape, call, Entries
  <2>5. ASSUME NEW p \in BOOLEAN, Begin(p)
        PROVE  TypeOK' /\ Shape'
    <3>1. /\ pc = "idle" /\ pc' = "counted" /\ sessions' \in Nat /\ percpu' \in BOOLEAN
          /\ UNCHANGED <<machine, fn, ncpus, prev, current, result, heap, fault,
                         since, pairs>>
          /\ failures' \in Nat /\ counted' \in Counts /\ steady' \in BOOLEAN
      BY <2>5, <2>c, <2>n DEF Begin, Goto, Count, Fail
    <3>2. TypeOK' /\ Entries' = Entries
      BY <2>b, <2>h, <2>n, <2>t, <3>1 DEF PC
    <3>3. prev = NULL /\ current = NULL
      BY <2>s, <3>1
    <3> QED
      BY <2>s, <3>1, <3>2, <3>3 DEF Shape, Calling, machine
  <2>6. CASE Sample
    <3>1. /\ UNCHANGED <<machine, percpu, fn, counted, ncpus, current, result, bounds,
                         steady>>
          /\ pc = "counted" /\ current = NULL
          /\ \/ /\ pc' = "crashed" /\ fault' = "wild_write"
                /\ UNCHANGED <<prev, heap, since, pairs>>
             \/ /\ pc' = "sampled" /\ UNCHANGED fault /\ ~Overrun
                /\ prev' = cpu_times
                /\ heap' = heap \cup Blocks({"prev"})
                /\ since' = [l \in Line |-> Zero]
                /\ pairs' = [i \in Cpu |-> <<Behind(i), 0>>]
      BY <2>6, <2>s DEF Sample
    <3>2. heap' \subseteq Block
      BY <2>b, <3>1
    <3>3. since' \in [Line -> CpuTimes]
      BY <2>h, <3>1 DEF Zero, CpuTimes
    <3>4. pairs' \in [Cpu -> (Cpu \cup {0}) \X (Cpu \cup {0})]
      <4>1. \A i \in Cpu : Behind(i) \in Cpu \cup {0}
        BY <2>i
      <4> QED
        BY <2>h, <3>1, <4>1
    <3>5. /\ prev' \in Samples
          /\ prev' # NULL => prev' = prev \/ Len(prev') = IF percpu THEN Entries ELSE 1
      BY <2>n, <3>1, Sampled DEF Samples
    <3>6. TypeOK' /\ Entries' = Entries
      BY <2>n, <2>t, <3>1, <3>2, <3>3, <3>4, <3>5 DEF PC, bounds
    <3> QED
      BY <2>s, <3>1, <3>5, <3>6 DEF Shape, Calling, machine
  <2>7. CASE ReportTimes
    <3>1. /\ UNCHANGED <<machine, percpu, fn, counted, ncpus, current, result, bounds,
                         history>>
          /\ pc = "sampled" /\ prev' = NULL /\ current = NULL
          /\ \/ pc' = "crashed" /\ fault' = "wild_read" /\ UNCHANGED heap
             \/ pc' = "idle" /\ heap' = heap \ Blocks({"prev"}) /\ UNCHANGED fault
      BY <2>7, <2>s DEF ReportTimes
    <3>2. TypeOK' /\ Entries' = Entries
      BY <2>b, <2>h, <2>n, <2>t, <3>1 DEF PC, Samples, bounds, history
    <3> QED
      BY <2>s, <3>1, <3>2 DEF Shape, Calling, machine
  <2>8. CASE SampleFails
    <3>1. /\ UNCHANGED <<machine, percpu, fn, counted, ncpus, current, result, fault,
                         sessions, history>>
          /\ pc = "counted" /\ prev' = NULL /\ current = NULL
          /\ pc' \in {"sampled", "idle"} /\ failures' \in Nat
          /\ heap' \subseteq Block
      BY <2>8, <2>k, <2>n, <2>s DEF SampleFails, Fail
    <3>2. TypeOK' /\ Entries' = Entries
      BY <2>h, <2>n, <2>t, <3>1 DEF PC, Samples, history
    <3> QED
      BY <2>s, <3>1, <3>2 DEF Shape, Calling, machine
  <2>9. CASE TotalsAllocFails
    <3>1. /\ UNCHANGED <<machine, call, heap, sessions, history>>
          /\ failures' \in Nat /\ pc' = "crashed" /\ fault' = "null_deref"
      BY <2>9, <2>n DEF TotalsAllocFails, Fail
    <3>2. TypeOK' /\ Entries' = Entries
      BY <2>b, <2>h, <2>n, <2>t, <3>1 DEF PC, call, history
    <3> QED
      BY <2>s, <3>1, <3>2 DEF Shape, Calling, call, machine
  <2>20. CASE UnmapTooMuch
    <3>1. /\ UNCHANGED <<machine, call, heap, bounds, history>>
          /\ pc # "crashed" /\ pc' = "crashed" /\ fault' = "wild_unmap"
      BY <2>20 DEF UnmapTooMuch
    <3>2. TypeOK' /\ Entries' = Entries
      BY <2>b, <2>h, <2>n, <2>t, <3>1 DEF PC, call, bounds, history
    <3> QED
      BY <2>s, <3>1, <3>2 DEF Shape, Calling, call, machine
  <2>10. ASSUME NEW f \in {"times", "util"}, Call(f)
         PROVE  TypeOK' /\ Shape'
    <3>1. /\ UNCHANGED <<machine, percpu, counted, prev, current, fault, sessions,
                         history>>
          /\ pc = "sampled" /\ fn' \in {"times", "util"} /\ failures' \in Nat
          /\ ncpus' \in Counts
          /\ pc' = IF prev = NULL THEN "refused" ELSE "reference"
          /\ heap' \subseteq Block
      BY <2>10, <2>b, <2>c, <2>n DEF Call, Count, Fail
    <3>2. result' \in Results
      <4>1. ncpus' \in Nat
        BY <3>1, Online, SizeAssumption DEF Counts
      <4>2. [i \in 1 .. ncpus' |-> NULL] \in Results
        BY <4>1 DEF Results
      <4>3. result' = NULL \/ result' = [i \in 1 .. ncpus' |-> NULL]
        BY <2>10 DEF Call
      <4> QED
        BY <4>2, <4>3 DEF Results
    <3>3. TypeOK' /\ Entries' = Entries
      BY <2>h, <2>n, <2>t, <3>1, <3>2 DEF PC, history
    <3> QED
      BY <2>s, <3>1, <3>3 DEF Shape, Calling, machine
  <2>11. CASE CallAllocFails
    <3>1. /\ UNCHANGED <<machine, percpu, counted, prev, current, heap, fault, sessions,
                         history>>
          /\ pc = "sampled" /\ fn' = "util" /\ failures' \in Nat /\ result' = NULL
          /\ ncpus' \in Counts
          /\ pc' = IF prev = NULL THEN "refused" ELSE "reference"
      BY <2>11, <2>c, <2>n DEF CallAllocFails, Fail
    <3>2. TypeOK' /\ Entries' = Entries
      BY <2>b, <2>h, <2>n, <2>t, <3>1 DEF PC, Results, history
    <3> QED
      BY <2>s, <3>1, <3>2 DEF Shape, Calling, machine
  <2>12. CASE Reference
    <3>1. /\ UNCHANGED <<machine, percpu, fn, counted, ncpus, prev, result, bounds,
                         steady, since>>
          /\ pc = "reference"
          /\ \/ /\ pc' = "crashed" /\ fault' = "wild_write"
                /\ UNCHANGED <<current, heap, pairs>>
             \/ /\ pc' = "compute" /\ UNCHANGED fault /\ ~Overrun
                /\ current' = cpu_times
                /\ heap' = heap \cup Blocks({"current"})
                /\ pairs' = [i \in Cpu |-> <<pairs[i][1], Behind(i)>>]
      BY <2>12 DEF Reference
    <3>2. heap' \subseteq Block
      BY <2>b, <3>1
    <3>3. pairs' \in [Cpu -> (Cpu \cup {0}) \X (Cpu \cup {0})]
      <4>1. \A i \in Cpu : Behind(i) \in Cpu \cup {0}
        BY <2>i
      <4>2. \A i \in Cpu : pairs[i][1] \in Cpu \cup {0}
        BY <2>h
      <4> QED
        BY <2>h, <3>1, <4>1, <4>2
    <3>4. /\ current' \in Samples
          /\ current' # NULL => current' = current
                                \/ Len(current') = IF percpu THEN Entries ELSE 1
          /\ pc' = "compute" => current' # NULL
      BY <2>n, <3>1, Sampled DEF Samples
    <3>5. TypeOK' /\ Entries' = Entries
      BY <2>h, <2>n, <2>t, <3>1, <3>2, <3>3, <3>4 DEF PC, bounds
    <3> QED
      BY <2>s, <3>1, <3>4, <3>5 DEF Shape, Calling, machine
  <2>13. CASE ReferenceFails
    <3>1. /\ UNCHANGED <<machine, call, fault, sessions, history>>
          /\ failures' \in Nat /\ pc = "reference" /\ pc' = "refused"
          /\ heap' \subseteq Block
      BY <2>13, <2>k, <2>n DEF ReferenceFails, Goto, Fail
    <3>2. TypeOK' /\ Entries' = Entries
      BY <2>h, <2>n, <2>t, <3>1 DEF PC, call, history
    <3> QED
      BY <2>s, <3>1, <3>2 DEF Shape, Calling, call, machine
  <2>14. CASE Refuse
    <3>1. /\ UNCHANGED <<machine, percpu, fn, counted, ncpus, prev, fault, bounds,
                         history>>
          /\ pc = "refused" /\ pc' = "answered" /\ current' = NULL /\ result' = NULL
          /\ heap' \subseteq Block
      BY <2>14, <2>b DEF Refuse, Goto
    <3>2. TypeOK' /\ Entries' = Entries
      BY <2>h, <2>n, <2>t, <3>1 DEF PC, Results, Samples, bounds, history
    <3> QED
      BY <2>s, <3>1, <3>2 DEF Shape, Calling, machine
  <2>15. CASE ResultAllocFails
    <3>1. /\ UNCHANGED <<machine, call, heap, fault, sessions, history>>
          /\ failures' \in Nat /\ pc = "compute" /\ pc' = "refused"
      BY <2>15, <2>n DEF ResultAllocFails, Goto, Fail
    <3>2. TypeOK' /\ Entries' = Entries
      BY <2>b, <2>h, <2>n, <2>t, <3>1 DEF PC, call, history
    <3> QED
      BY <2>s, <3>1, <3>2 DEF Shape, Calling, call, machine
  <2>16. CASE ComputeCrashes
    <3>1. /\ UNCHANGED <<machine, call, heap, sessions, history>>
          /\ failures' \in Nat /\ pc = "compute" /\ pc' = "crashed"
          /\ fault' = "null_deref"
      BY <2>16, <2>n DEF ComputeCrashes, Goto, Fail
    <3>2. TypeOK' /\ Entries' = Entries
      BY <2>b, <2>h, <2>n, <2>t, <3>1 DEF PC, call, history
    <3> QED
      BY <2>s, <3>1, <3>2 DEF Shape, Calling, call, machine
  <2>17. CASE Compute
    <3>1. /\ UNCHANGED <<machine, percpu, fn, counted, ncpus, prev, bounds, history>>
          /\ pc = "compute" /\ prev # NULL /\ current # NULL
          /\ \/ /\ pc' = "crashed" /\ fault' = "wild_read"
                /\ UNCHANGED <<current, result>>
             \/ /\ pc' = "answered" /\ UNCHANGED fault /\ current' = NULL
                /\ ~(ncpus > Len(current))
                /\ result' =
                     [i \in 1 .. ncpus |->
                        IF fn = "util"
                          THEN calculate_cpu_util_percentage(prev[i], current[i])
                          ELSE calculate_cpu_times_percentage(prev[i], current[i])]
          /\ heap' \subseteq Block
      <4>1. ncpus \in Nat /\ (current # NULL => Len(current) \in Nat)
        BY <2>n, Online, SizeAssumption DEF Counts, Samples
      <4>2. heap' \subseteq Block
        BY <2>17, <2>b DEF Compute
      <4>3. pc = "compute" /\ prev # NULL /\ current # NULL
        BY <2>17, <2>s DEF Compute, Calling
      <4> QED
        BY <2>17, <4>1, <4>2, <4>3 DEF Compute
    <3>2. CASE pc' = "crashed"
      <4>1. TypeOK' /\ Entries' = Entries
        BY <2>h, <2>n, <2>t, <3>1, <3>2 DEF PC, bounds, history
      <4> QED
        BY <2>s, <3>1, <3>2, <4>1 DEF Shape, Calling, machine
    <3>3. CASE pc' = "answered"
      <4>4. result' \in Seq(Percentage \cup {NULL}) /\ Len(result') = ncpus
        <5>1. result' \in Seq(Percentage) /\ Len(result') = ncpus
          BY <3>1, <3>3, Answer
        <5> QED
          BY <5>1
      <4>5. TypeOK' /\ Entries' = Entries
        BY <2>h, <2>n, <2>t, <3>1, <3>3, <4>4 DEF PC, Results, Samples, bounds, history
      <4> QED
        BY <2>s, <3>1, <3>3, <4>4, <4>5 DEF Shape, Calling, machine
    <3> QED
      BY <3>1, <3>2, <3>3
  <2>18. CASE Report
    <3>1. /\ UNCHANGED <<machine, percpu, fn, counted, ncpus, current, bounds, history>>
          /\ pc = "answered" /\ prev' = NULL /\ result' = NULL /\ current = NULL
          /\ \/ pc' = "idle" /\ UNCHANGED fault
             \/ pc' = "crashed" /\ fault' \in {"null_deref", "wild_read"}
          /\ heap' \subseteq Block
      BY <2>18, <2>b, <2>s DEF Report
    <3>2. TypeOK' /\ Entries' = Entries
      BY <2>h, <2>n, <2>t, <3>1 DEF PC, Results, Samples, bounds, history
    <3> QED
      BY <2>s, <3>1, <3>2 DEF Shape, Calling, machine
  <2>19. CASE UNCHANGED vars
    <3>1. UNCHANGED <<machine, pc, call, heap, fault, bounds, history>>
      BY <2>19 DEF vars
    <3>2. TypeOK' /\ Entries' = Entries
      BY <2>b, <2>h, <2>n, <2>t, <3>1 DEF call, bounds, history
    <3> QED
      BY <3>1, <3>2 DEF Shape, call, machine
  <2> QED
    BY <2>3, <2>4, <2>5, <2>6, <2>7, <2>8, <2>9, <2>10, <2>11, <2>12, <2>13,
       <2>14, <2>15, <2>16, <2>17, <2>18, <2>19, <2>20 DEF Next, library
<1> QED
  BY <1>1, <1>2, PTL DEF Spec
-----------------------------------------------------------------------------
\* An array is read past its end only if a CPU came or went in between or could
\* not be counted, a null pointer is only dereferenced after a failure, and a
\* table only overrun on Linux, if more CPUs are online than it has entries:
\* otherwise caller and callee have counted the CPUs that the arrays describe.
THEOREM FaultsExplained == Spec => [](CountInv /\ FaultHasCause)
<1>1. TypeOK /\ Init => CountInv /\ FaultHasCause
  <2> SUFFICES ASSUME TypeOK, Init PROVE CountInv /\ FaultHasCause
    OBVIOUS
  <2>1. 0 # Uncounted
    BY Online, SizeAssumption
  <2>2. /\ pc = "idle" /\ percpu = FALSE /\ counted = 0 /\ ncpus = 0
        /\ fault = "none"
    BY Zenon DEF Init
  <2> QED
    BY <2>1, <2>2 DEF CountInv, FaultHasCause, Failed, Calling
<1>2. TypeOK /\ Shape /\ CountInv /\ FaultHasCause /\ [Next]_vars
        => CountInv' /\ FaultHasCause'
  <2> SUFFICES ASSUME TypeOK, Shape, CountInv, FaultHasCause, [Next]_vars
               PROVE  CountInv' /\ FaultHasCause'
    OBVIOUS
  <2> DEFINE N == Cardinality(online)
  <2>n. failures \in Nat /\ percpu \in BOOLEAN /\ steady \in BOOLEAN
        /\ platform \in {"linux", "osx"} /\ fn \in {"times", "util"}
    BY DEF TypeOK
  <2>o. /\ N \in Nat /\ N < Uncounted /\ logical_cpu_count = N
        /\ Uncounted \in Nat /\ Uncounted > 1
        /\ Entries \in Nat /\ Entries < Uncounted
        /\ counted \in Nat /\ ncpus \in Nat
    BY Online, SizeAssumption DEF TypeOK
  <2>s. /\ fault = "none" <=> pc # "crashed"
        /\ pc \in {"idle", "counted"} => prev = NULL
        /\ pc \in Calling => prev # NULL
        /\ pc = "compute" => current # NULL
        /\ prev # NULL => Len(prev) = IF percpu THEN Entries ELSE 1
        /\ current # NULL => Len(current) = IF percpu THEN Entries ELSE 1
        /\ pc = "answered" /\ result # NULL => Len(result) = ncpus
    BY DEF Shape
  <2>m. ASSUME UNCHANGED machine
        PROVE  /\ platform' = platform /\ online' = online
               /\ N' = N /\ Entries' = Entries
    BY <2>m DEF machine, Entries
  <2>f. Fail => failures' = failures + 1 /\ failures' > 0 /\ failures' \in Nat
    BY <2>n DEF Fail
  <2>k. ASSUME NEW n, Count(n)
        PROVE  /\ failures' \in Nat /\ failures' >= failures
               /\ n \in {N, Uncounted}
               /\ n = Uncounted => failures' > 0
    BY <2>f, <2>k, <2>n, <2>o DEF Count
  \* As long as nothing crashes, there is nothing to explain
  <2>g. ASSUME fault' = "none" PROVE FaultHasCause'
    BY <2>g DEF FaultHasCause
  <2>c. /\ counted = Uncounted => failures > 0
        /\ ncpus = Uncounted => failures > 0
        /\ ~percpu /\ pc # "idle" => counted = 1
        /\ ~percpu /\ (pc \in Calling \/ (pc = "answered" /\ result # NULL)) => ncpus = 1
        /\ percpu /\ steady =>
             /\ pc \notin {"idle", "crashed"} => counted \in {N, Uncounted}
             /\ pc \in Calling => ncpus \in {N, Uncounted}
             /\ pc = "answered" /\ result # NULL => ncpus = N
             /\ prev # NULL => N <= Entries
        /\ pc \in Calling /\ fn = "util" /\ result = NULL => failures > 0
        /\ Failed => failures > 0
    BY DEF CountInv
  <2> HIDE DEF N
  <2>p. ASSUME counted' = Uncounted' => failures' > 0,
               ncpus' = Uncounted' => failures' > 0,
               ~percpu' /\ pc' # "idle" => counted' = 1,
               ~percpu' /\ (pc' \in Calling \/ (pc' = "answered" /\ result' # NULL))
                 => ncpus' = 1,
               percpu' /\ steady' =>
                 /\ pc' \notin {"idle", "crashed"} => counted' \in {N', Uncounted}
                 /\ pc' \in Calling => ncpus' \in {N', Uncounted}
                 /\ pc' = "answered" /\ result' # NULL => ncpus' = N'
                 /\ prev' # NULL => N' <= Entries',
               pc' \in Calling /\ fn' = "util" /\ result' = NULL => failures' > 0,
               Failed' => failures' > 0
        PROVE  CountInv'
    <3>1. Uncounted' = Uncounted /\ Calling' = Calling
      BY DEF Uncounted, Calling
    <3> QED
      BY <2>p, <3>1, Zenon DEF CountInv, N
  <2>u. Uncounted' = Uncounted
    BY DEF Uncounted
  <2>3. ASSUME NEW c \in Cpu, NEW fields, Tick(c, fields)
        PROVE  CountInv' /\ FaultHasCause'
    <3>1. UNCHANGED <<platform, online, pc, call, fault, bounds, steady>>
      BY <2>3 DEF Tick
    <3> QED
      BY <3>1 DEF CountInv, FaultHasCause, Failed, Entries, call, bounds, Uncounted, Calling
  <2>4. ASSUME NEW c \in Cpu, Hotplug(c)
        PROVE  CountInv' /\ FaultHasCause'
    <3>1. /\ UNCHANGED <<pc, call, fault, bounds>> /\ steady' = FALSE
          /\ pc # "crashed"
      BY <2>4 DEF Hotplug
    <3> QED
      BY <2>g, <2>s, <3>1 DEF CountInv, Failed, call, bounds, Uncounted, Calling
  <2>5. ASSUME NEW p \in BOOLEAN, Begin(p)
        PROVE  CountInv' /\ FaultHasCause'
    <3>1. /\ pc = "idle" /\ pc' = "counted" /\ percpu' = p
          /\ UNCHANGED <<machine, ncpus, prev, fault>>
      BY <2>5 DEF Begin, Goto
    <3>2. /\ failures' \in Nat /\ failures' >= failures
          /\ p => counted' \in {N, Uncounted}
          /\ ~p => counted' = 1
          /\ counted' = Uncounted => failures' > 0
      BY <2>5, <2>k, <2>n, <2>o DEF Begin
    <3>3. CountInv'
      BY <2>c, <2>m, <2>n, <2>o, <2>p, <2>s, <2>u, <3>1, <3>2 DEF Failed, Calling
    <3> QED
      BY <2>g, <2>s, <3>1, <3>3
  <2>6. CASE Sample
    <3>1. /\ UNCHANGED <<machine, percpu, counted, ncpus, failures, steady>>
          /\ pc = "counted"
          /\ \/ pc' = "crashed" /\ fault' = "wild_write" /\ Overrun /\ prev' = prev
             \/ pc' = "sampled" /\ fault' = fault /\ ~Overrun /\ prev' = cpu_times
      BY <2>6 DEF Sample, bounds
    <3>2. ~Overrun => prev' # NULL \/ pc' = "crashed"
      BY <3>1, Sampled
    <3>3. CountInv'
      BY <2>c, <2>m, <2>n, <2>o, <2>p, <2>s, <2>u, <3>1, <3>2
      DEF Failed, Calling, Overrun, N
    <3>4. Overrun => platform = "linux" /\ Cardinality(online) > TableSize
      BY <2>n, <2>o, SizeAssumption DEF Overrun, Entries, N
    <3>5. FaultHasCause'
      BY <2>g, <2>m, <2>s, <3>1, <3>4 DEF FaultHasCause
    <3> QED
      BY <3>3, <3>5
  <2>7. CASE ReportTimes
    <3>1. /\ UNCHANGED <<machine, percpu, counted, ncpus, failures, steady>>
          /\ pc = "sampled" /\ prev # NULL /\ prev' = NULL
          /\ \/ pc' = "crashed" /\ fault' = "wild_read" /\ counted > Len(prev)
             \/ pc' = "idle" /\ fault' = fault
      BY <2>7 DEF ReportTimes, bounds, history
    <3>2. CountInv'
      BY <2>c, <2>m, <2>n, <2>o, <2>p, <2>u, <3>1 DEF Failed, Calling
    <3>3. counted > Len(prev) => ~steady \/ failures > 0
      BY <2>c, <2>n, <2>o, <2>s, <3>1
    <3>4. FaultHasCause'
      BY <2>g, <2>s, <3>1, <3>3 DEF FaultHasCause
    <3> QED
      BY <3>2, <3>4
  <2>8. CASE SampleFails
    <3>1. /\ UNCHANGED <<machine, percpu, counted, ncpus, steady, fault>>
          /\ pc = "counted" /\ prev' = NULL /\ pc' \in {"sampled", "idle"}
          /\ failures' \in Nat /\ failures' > 0
      BY <2>8, <2>f DEF SampleFails, history
    <3>2. CountInv'
      BY <2>c, <2>m, <2>n, <2>o, <2>p, <2>u, <3>1 DEF Failed, Calling
    <3> QED
      BY <2>g, <2>s, <3>1, <3>2
  <2>9. CASE TotalsAllocFails
    <3>1. /\ UNCHANGED <<machine, percpu, fn, counted, ncpus, prev, result, steady>>
          /\ pc \in {"counted", "reference"} /\ ~percpu
          /\ failures' > 0 /\ failures' \in Nat
          /\ pc' = "crashed" /\ fault' = "null_deref"
      BY <2>9, <2>f DEF TotalsAllocFails, history, call
    <3>2. CountInv'
      BY <2>c, <2>m, <2>n, <2>o, <2>p, <2>u, <3>1 DEF Failed, Calling
    <3> QED
      BY <3>1, <3>2 DEF FaultHasCause
  <2>20. CASE UnmapTooMuch
    <3>1. /\ UNCHANGED <<machine, percpu, fn, counted, ncpus, prev, result, failures, steady>>
          /\ pc \notin {"idle", "crashed"} /\ pc' = "crashed"
          /\ fault' = "wild_unmap" /\ platform = "osx" /\ percpu
      BY <2>20 DEF UnmapTooMuch, history, call, bounds
    <3>2. CountInv'
      BY <2>c, <2>m, <2>n, <2>o, <2>p, <2>u, <3>1 DEF Failed, Calling
    <3> QED
      BY <2>m, <3>1, <3>2 DEF FaultHasCause
  <2>10. ASSUME NEW f \in {"times", "util"}, Call(f)
         PROVE  CountInv' /\ FaultHasCause'
    <3>1. /\ UNCHANGED <<machine, percpu, counted, prev, fault, steady>>
          /\ pc = "sampled" /\ fn' = f
          /\ pc' = IF prev = NULL THEN "refused" ELSE "reference"
      BY <2>10 DEF Call, history
    <3>2. /\ failures' \in Nat /\ failures' >= failures
          /\ percpu => ncpus' \in {N, Uncounted}
          /\ ~percpu => ncpus' = 1
          /\ ncpus' = Uncounted => failures' > 0
      BY <2>10, <2>k, <2>n, <2>o DEF Call
    <3>3. f = "util" => result' # NULL
      <4>1. ncpus' \in Nat
        BY <2>n, <2>o, <3>2
      <4>2. [i \in 1 .. ncpus' |-> NULL] # NULL
        <5>1. [i \in 1 .. ncpus' |-> NULL] \in Seq(Percentage \cup {NULL})
          BY <4>1
        <5> QED
          BY <5>1, SentinelAssumption
      <4> QED
        BY <2>10, <4>2 DEF Call
    <3>4. Failed' => failures' > 0
      <4>1. prev = NULL => failures > 0
        BY <2>c, <3>1 DEF Failed
      <4> QED
        BY <2>n, <2>u, <3>1, <3>2, <4>1 DEF Failed, Calling
    <3>5. CountInv'
      BY <2>c, <2>m, <2>n, <2>o, <2>p, <2>u, <3>1, <3>2, <3>3, <3>4 DEF Calling
    <3> QED
      BY <2>g, <2>s, <3>1, <3>5
  <2>11. CASE CallAllocFails
    <3>1. /\ UNCHANGED <<machine, percpu, counted, prev, fault, steady>>
          /\ pc = "sampled" /\ pc' \in {"refused", "reference"}
          /\ failures' \in Nat /\ failures' > 0
          /\ percpu => ncpus' \in {N, Uncounted}
          /\ ~percpu => ncpus' = 1
      BY <2>11, <2>f, <2>o DEF CallAllocFails, history
    <3>2. CountInv'
      BY <2>c, <2>m, <2>n, <2>o, <2>p, <2>u, <3>1 DEF Failed, Calling
    <3> QED
      BY <2>g, <2>s, <3>1, <3>2
  <2>12. CASE Reference
    <3>1. /\ UNCHANGED <<machine, percpu, fn, counted, ncpus, prev, result, failures,
                         steady>>
          /\ pc = "reference"
          /\ \/ pc' = "crashed" /\ fault' = "wild_write" /\ Overrun
             \/ pc' = "compute" /\ fault' = fault
      BY <2>12 DEF Reference, bounds
    <3>2. CountInv'
      BY <2>c, <2>m, <2>n, <2>o, <2>p, <2>u, <3>1 DEF Failed, Calling
    <3>3. Overrun => platform = "linux" /\ Cardinality(online) > TableSize
      BY <2>n, <2>o, SizeAssumption DEF Overrun, Entries, N
    <3>4. FaultHasCause'
      BY <2>g, <2>m, <2>s, <3>1, <3>3 DEF FaultHasCause
    <3> QED
      BY <3>2, <3>4
  <2>13. CASE ReferenceFails
    <3>1. /\ UNCHANGED <<machine, percpu, fn, counted, ncpus, prev, result, fault, steady>>
          /\ pc = "reference" /\ pc' = "refused"
          /\ failures' \in Nat /\ failures' > 0
      BY <2>13, <2>f DEF ReferenceFails, Goto, call, history
    <3>2. CountInv'
      BY <2>c, <2>m, <2>n, <2>o, <2>p, <2>u, <3>1 DEF Failed, Calling
    <3> QED
      BY <2>g, <2>s, <3>1, <3>2
  <2>14. CASE Refuse
    <3>1. /\ UNCHANGED <<machine, percpu, fn, counted, ncpus, prev, fault, failures,
                         steady>>
          /\ pc = "refused" /\ pc' = "answered" /\ result' = NULL
      BY <2>14 DEF Refuse, Goto, bounds, history
    <3>2. failures > 0
      BY <2>c, <3>1 DEF Failed
    <3>3. CountInv'
      BY <2>c, <2>m, <2>n, <2>o, <2>p, <2>u, <3>1, <3>2 DEF Failed, Calling
    <3> QED
      BY <2>g, <2>s, <3>1, <3>3
  <2>15. CASE ResultAllocFails
    <3>1. /\ UNCHANGED <<machine, percpu, fn, counted, ncpus, prev, result, fault, steady>>
          /\ pc = "compute" /\ pc' = "refused"
          /\ (ncpus = Uncounted /\ failures' = failures) \/ Fail
      BY <2>15 DEF ResultAllocFails, Goto, call, history
    <3>2. failures' \in Nat /\ failures' > 0
      BY <2>c, <2>f, <2>n, <3>1
    <3>3. CountInv'
      BY <2>c, <2>m, <2>n, <2>o, <2>p, <2>u, <3>1, <3>2 DEF Failed, Calling
    <3> QED
      BY <2>g, <2>s, <3>1, <3>3
  <2>16. CASE ComputeCrashes
    <3>1. /\ UNCHANGED <<machine, percpu, fn, counted, ncpus, prev, result, steady>>
          /\ pc = "compute" /\ pc' = "crashed" /\ fault' = "null_deref"
          /\ \/ Fail
             \/ fn = "util" /\ result = NULL /\ failures' = failures
      BY <2>16 DEF ComputeCrashes, Goto, call, history
    <3>2. failures' \in Nat /\ failures' > 0
      BY <2>c, <2>f, <2>n, <3>1 DEF Calling
    <3>3. CountInv'
      BY <2>c, <2>m, <2>n, <2>o, <2>p, <2>u, <3>1, <3>2 DEF Failed, Calling
    <3> QED
      BY <3>1, <3>2, <3>3 DEF FaultHasCause
  <2>17. CASE Compute
    <3>1. /\ UNCHANGED <<machine, percpu, fn, counted, ncpus, prev, failures, steady>>
          /\ pc = "compute"
          /\ \/ pc' = "crashed" /\ fault' = "wild_read" /\ ncpus > Len(current)
             \/ /\ pc' = "answered" /\ fault' = fault /\ ~(ncpus > Len(current))
                /\ result' =
                     [i \in 1 .. ncpus |->
                        IF fn = "util"
                          THEN calculate_cpu_util_percentage(prev[i], current[i])
                          ELSE calculate_cpu_times_percentage(prev[i], current[i])]
      BY <2>17 DEF Compute, bounds, history
    <3>2. Len(current) = (IF percpu THEN Entries ELSE 1) /\ prev # NULL
      BY <2>s, <3>1 DEF Calling
    <3>3. ncpus > Len(current) => ~steady \/ failures > 0
      BY <2>c, <2>n, <2>o, <3>1, <3>2 DEF Calling
    <3>4. pc' = "answered" => ncpus # Uncounted
      BY <2>o, <3>1, <3>2
    <3>5. Failed' => failures' > 0
      <4>1. pc' = "answered" => result' # NULL
        BY <3>1, Answer
      <4> QED
        BY <3>1, <4>1 DEF Failed, Calling
    <3>6. CountInv'
      BY <2>c, <2>m, <2>n, <2>o, <2>p, <2>u, <3>1, <3>4, <3>5 DEF Calling
    <3>7. FaultHasCause'
      BY <2>g, <2>s, <3>1, <3>3 DEF FaultHasCause
    <3> QED
      BY <3>6, <3>7
  <2>18. CASE Report
    <3>1. /\ UNCHANGED <<machine, percpu, fn, counted, ncpus, failures, steady>>
          /\ pc = "answered" /\ prev' = NULL /\ result' = NULL
          /\ \/ pc' = "idle" /\ fault' = fault
             \/ pc' = "crashed" /\ fault' = "null_deref" /\ result = NULL
             \/ /\ pc' = "crashed" /\ fault' = "wild_read"
                /\ result # NULL /\ counted > Len(result)
      BY <2>18 DEF Report, bounds, history
    <3>2. CountInv'
      BY <2>c, <2>m, <2>n, <2>o, <2>p, <2>u, <3>1 DEF Failed, Calling
    <3>3. result = NULL => failures > 0
      BY <2>c, <3>1 DEF Failed
    <3>4. result # NULL /\ counted > Len(result) => ~steady \/ failures > 0
      BY <2>c, <2>n, <2>o, <2>s, <3>1
    <3>5. FaultHasCause'
      BY <2>g, <2>s, <3>1, <3>3, <3>4 DEF FaultHasCause
    <3> QED
      BY <3>2, <3>5
  <2>19. CASE UNCHANGED vars
    <3>1. UNCHANGED <<machine, pc, call, heap, fault, bounds, history>>
      BY <2>19 DEF vars
    <3> QED
      BY <3>1 DEF CountInv, FaultHasCause, Failed, Entries, call, bounds, machine,
                  history, Uncounted, Calling
  <2> QED
    BY <2>3, <2>4, <2>5, <2>6, <2>7, <2>8, <2>9, <2>10, <2>11, <2>12, <2>13,
       <2>14, <2>15, <2>16, <2>17, <2>18, <2>19, <2>20 DEF Next, library
<1> QED
  BY <1>1, <1>2, TypeCorrect, PTL DEF Spec
-----------------------------------------------------------------------------
Names == {"prev", "current", "result"}

\* A session leaves at most one block and one port for each failure, on Linux no
\* port at all, and never the callee's sample: what is live in a session is its
\* own, and each session that lost a block had failed before it lost it.
THEOREM LeaksCounted == Spec => []LeaksBounded
<1>1. Init => HeapInv
  <2> SUFFICES ASSUME Init PROVE HeapInv
    OBVIOUS
  <2>1. heap = {} /\ pc = "idle" /\ failures = 0
    BY Zenon DEF Init
  <2>2. Ports = {} /\ heap \ Ports = {}
    BY <2>1 DEF Ports
  <2> QED
    BY <2>1, <2>2, FS_EmptySet DEF HeapInv
<1>2. TypeOK /\ TypeOK' /\ Shape /\ HeapInv /\ [Next]_vars => HeapInv'
  <2> SUFFICES ASSUME TypeOK, TypeOK', Shape, HeapInv, [Next]_vars
               PROVE  HeapInv'
    OBVIOUS
  <2> DEFINE Busy(p) == p \notin {"idle", "crashed"}
             Own(h, p) == {b \in h \ p : b[1] = sessions}
  <2>n. /\ failures \in Nat /\ failures' \in Nat /\ sessions \in Nat
        /\ platform \in {"linux", "osx"} /\ fn \in {"times", "util"}
        /\ percpu \in BOOLEAN
    BY DEF TypeOK
  <2>e. /\ \A b \in heap : b[1] \in Nat /\ b[2] \in Names \cup {"port"} /\ b = <<b[1], b[2]>>
        /\ \A b \in heap' : b[1] \in Nat /\ b[2] \in Names \cup {"port"} /\ b = <<b[1], b[2]>>
    <3>1. /\ heap \subseteq Nat \X {"prev", "current", "result", "port"}
          /\ heap' \subseteq Nat \X {"prev", "current", "result", "port"}
      BY DEF TypeOK
    <3> QED
      BY <3>1 DEF Names
  <2>h. /\ IsFiniteSet(heap) /\ IsFiniteSet(Ports) /\ IsFiniteSet(Old)
        /\ Cardinality(Ports) \in Nat /\ Cardinality(Old) \in Nat
        /\ Cardinality(Ports) <= failures
        /\ platform = "linux" => Ports = {}
        /\ \A b \in heap : b[1] <= sessions
    <3>1. /\ IsFiniteSet(heap) /\ Cardinality(Ports) <= failures
          /\ platform = "linux" => Ports = {}
          /\ \A b \in heap : b[1] <= sessions
      BY DEF HeapInv
    <3>2. Ports \subseteq heap /\ Old \subseteq heap
      BY DEF Ports, Old
    <3> QED
      BY <3>1, <3>2, FS_Subset, FS_CardinalityType
  <2>i. pc = "idle" =>
          Cardinality(heap \ Ports) <= failures /\ \A b \in heap : b[2] # "current"
    BY DEF HeapInv
  <2>b. Busy(pc) =>
          /\ Cardinality(Old) + (IF Failed THEN 1 ELSE 0) <= failures
          /\ \A b \in Old : b[2] # "current"
          /\ \A b \in heap \ Ports : b[1] = sessions => b[2] \in Mine
    BY DEF HeapInv
  <2>o. /\ 1 # Uncounted /\ logical_cpu_count # Uncounted /\ Uncounted' = Uncounted
    BY Online, SizeAssumption DEF Uncounted
  <2>B. Blocks({}) = {}
    BY DEF Blocks
  \* A step that frees the blocks N1 of this session and allocates N2
  <2>w. ASSUME NEW N1 \in SUBSET Names, NEW N2 \in SUBSET Names,
               heap' = (heap \ Blocks(N1)) \cup Blocks(N2), sessions' = sessions,
               platform' = platform, failures' >= failures
        PROVE  /\ IsFiniteSet(heap') /\ Ports' = Ports /\ Old' = Old
               /\ Cardinality(Ports') <= failures'
               /\ platform' = "linux" => Ports' = {}
               /\ \A b \in heap' : b[1] <= sessions'
               /\ \A b \in heap' \ Ports' : b[1] = sessions =>
                    b[2] \in N2 \/ (b \in heap \ Ports /\ b[2] \notin N1)
    <3>1. \A b \in Blocks(N2) : b[1] = sessions /\ b[2] \in N2
      BY DEF Blocks
    <3>2. \A b \in Blocks(N1) : b[1] = sessions /\ b[2] \in N1
      BY DEF Blocks
    <3>3. \A b \in heap : b[1] = sessions /\ b[2] \in N1 => b \in Blocks(N1)
      BY <2>e DEF Blocks
    <3>4. IsFiniteSet(Blocks(N2))
      <4>1. IsFiniteSet(Blocks(Names))
        <5>1. Blocks(Names) = ({<<sessions, "prev">>} \cup {<<sessions, "current">>})
                                \cup {<<sessions, "result">>}
          BY DEF Blocks, Names
        <5>2. IsFiniteSet({<<sessions, "prev">>} \cup {<<sessions, "current">>})
          BY FS_Singleton, FS_AddElement, FS_EmptySet
        <5> QED
          BY <5>1, <5>2, FS_AddElement
      <4>2. Blocks(N2) \subseteq Blocks(Names)
        BY DEF Blocks
      <4> QED
        BY <4>1, <4>2, FS_Subset
    <3>5. IsFiniteSet(heap')
      BY <2>h, <2>w, <3>4, FS_Difference, FS_Union, FS_Subset
    <3>6. Ports' = Ports
      BY <2>w, <3>1, <3>2 DEF Ports, Names
    <3>7. Old' = Old
      BY <2>n, <2>w, <3>1, <3>2, <3>6 DEF Old, Ports
    <3>8. \A b \in heap' : b[1] <= sessions'
      BY <2>h, <2>n, <2>w, <3>1
    <3>9. \A b \in heap' \ Ports' : b[1] = sessions =>
            b[2] \in N2 \/ (b \in heap \ Ports /\ b[2] \notin N1)
      BY <2>w, <3>1, <3>3, <3>6
    <3> QED
      BY <2>h, <2>n, <2>w, <3>5, <3>6, <3>7, <3>8, <3>9
  \* A cpu_times that fails
  <2>k. ASSUME KeepPort, sessions' = sessions, platform' = platform,
               failures' = failures + 1
        PROVE  /\ IsFiniteSet(heap') /\ Old' = Old
               /\ Cardinality(Ports') <= failures'
               /\ platform' = "linux" => Ports' = {}
               /\ \A b \in heap' : b[1] <= sessions'
               /\ heap' \ Ports' = heap \ Ports
    <3>1. \/ heap' = heap
          \/ heap' = heap \cup {<<sessions, "port">>} /\ platform = "osx"
      BY <2>k, <2>n DEF KeepPort, Blocks
    <3>2. CASE heap' = heap
      <4>1. Ports' = Ports
        BY <3>2 DEF Ports
      <4> QED
        BY <2>h, <2>k, <2>n, <3>2, <4>1 DEF Old
    <3>3. CASE heap' = heap \cup {<<sessions, "port">>} /\ platform = "osx"
      <4>1. Ports' = Ports \cup {<<sessions, "port">>}
        BY <3>3 DEF Ports
      <4>2. heap' \ Ports' = heap \ Ports
        BY <3>3, <4>1 DEF Ports
      <4>3. Cardinality(Ports') <= Cardinality(Ports) + 1
        <5>1. Cardinality(Ports \cup {<<sessions, "port">>})
                = IF <<sessions, "port">> \in Ports THEN Cardinality(Ports)
                                                    ELSE Cardinality(Ports) + 1
          BY <2>h, FS_AddElement
        <5> QED
          BY <2>h, <4>1, <5>1
      <4>4. IsFiniteSet(heap') /\ Cardinality(Ports') <= failures'
        <5>1. IsFiniteSet(heap')
          BY <2>h, <3>3, FS_AddElement
        <5>2. Ports' \subseteq heap'
          BY DEF Ports
        <5>3. Cardinality(Ports') \in Nat
          BY <5>1, <5>2, FS_Subset, FS_CardinalityType
        <5> QED
          BY <2>h, <2>k, <2>n, <4>3, <5>1, <5>3
      <4>5. \A b \in heap' : b[1] <= sessions'
        BY <2>h, <2>k, <2>n, <3>3
      <4> QED
        BY <2>k, <3>3, <4>2, <4>4, <4>5 DEF Old
    <3> QED
      BY <3>1, <3>2, <3>3
  \* What the end of a session has to show, if all that is left is of earlier ones
  <2>x. ASSUME sessions' = sessions, \A b \in heap' : b[1] <= sessions',
               \A b \in heap' \ Ports' : b[1] # sessions
        PROVE  heap' \ Ports' = Old'
    <3>1. \A b \in heap' \ Ports' : b[1] < sessions'
      BY <2>e, <2>n, <2>x
    <3> QED
      BY <3>1 DEF Old
  <2>y. ASSUME \A b \in heap' \ Ports' : b[2] # "current"
        PROVE  \A b \in heap' : b[2] # "current"
    BY <2>y DEF Ports
  \* HeapInv, part by part
  <2>q. ASSUME IsFiniteSet(heap'), Cardinality(Ports') <= failures',
               platform' = "linux" => Ports' = {},
               \A b \in heap' : b[1] <= sessions',
               pc' = "idle" => Cardinality(heap' \ Ports') <= failures',
               pc' = "idle" => \A b \in heap' : b[2] # "current",
               Busy(pc') => Cardinality(Old') + (IF Failed' THEN 1 ELSE 0) <= failures',
               Busy(pc') => \A b \in Old' : b[2] # "current",
               Busy(pc') => \A b \in heap' \ Ports' : b[1] = sessions' => b[2] \in Mine'
        PROVE  HeapInv'
    BY <2>q, Zenon DEF HeapInv
  <2>v. ASSUME NEW N1 \in SUBSET Names, NEW N2 \in SUBSET Names,
               heap' = (heap \ Blocks(N1)) \cup Blocks(N2), sessions' = sessions,
               platform' = platform, failures' >= failures,
               pc' = "idle" => Cardinality(heap' \ Ports') <= failures',
               pc' = "idle" => \A b \in heap' : b[2] # "current",
               Busy(pc') => Cardinality(Old') + (IF Failed' THEN 1 ELSE 0) <= failures',
               Busy(pc') => \A b \in Old' : b[2] # "current",
               Busy(pc') => \A b \in heap' \ Ports' : b[1] = sessions' => b[2] \in Mine'
        PROVE  HeapInv'
    <3>1. /\ IsFiniteSet(heap') /\ Cardinality(Ports') <= failures'
          /\ platform' = "linux" => Ports' = {}
          /\ \A b \in heap' : b[1] <= sessions'
      BY <2>v, <2>w, Zenon
    <3> QED
      BY <2>q, <2>v, <3>1, Zenon
  <2>z. ASSUME pc' = "crashed", heap' = heap, sessions' = sessions, platform' = platform,
               failures' = failures \/ failures' = failures + 1
        PROVE  HeapInv'
    <3>1. {} \in SUBSET Names /\ heap' = (heap \ Blocks({})) \cup Blocks({})
      BY <2>B, <2>z
    <3>2. failures' >= failures
      BY <2>n, <2>z
    <3>3. ~Busy(pc') /\ pc' # "idle"
      BY <2>z
    <3> QED
      BY <2>v, <2>z, <3>1, <3>2, <3>3, Zenon
  <2>3. ASSUME NEW c \in Cpu, NEW fields, Tick(c, fields)
        PROVE  HeapInv'
    <3>1. UNCHANGED <<platform, pc, call, heap, fault, bounds>>
      BY <2>3 DEF Tick
    <3> QED
      BY <3>1 DEF HeapInv, Ports, Old, Mine, Failed, Calling, Uncounted, call, bounds
  <2>4. ASSUME NEW c \in Cpu, Hotplug(c)
        PROVE  HeapInv'
    <3>1. UNCHANGED <<platform, pc, call, heap, fault, bounds>>
      BY <2>4 DEF Hotplug
    <3> QED
      BY <3>1 DEF HeapInv, Ports, Old, Mine, Failed, Calling, Uncounted, call, bounds
  <2>5. ASSUME NEW p \in BOOLEAN, Begin(p)
        PROVE  HeapInv'
    <3>1. /\ pc = "idle" /\ pc' = "counted" /\ sessions' = sessions + 1
          /\ heap' = heap /\ platform' = platform
          /\ failures' = failures \/ failures' = failures + 1
      BY <2>5 DEF Begin, Goto, Count, Fail, machine
    <3>2. Ports' = Ports
      BY <3>1 DEF Ports
    <3>3. \A b \in heap' : b[1] < sessions'
      BY <2>e, <2>h, <2>n, <3>1
    <3>4. Old' = heap \ Ports
      BY <3>1, <3>2, <3>3 DEF Old
    <3>5. ~Failed'
      BY <3>1 DEF Failed, Calling
    <3>6. Cardinality(heap \ Ports) \in Nat
      BY <2>h, FS_Difference, FS_CardinalityType
    <3>7. /\ Cardinality(Ports') <= failures'
          /\ Cardinality(Old') + (IF Failed' THEN 1 ELSE 0) <= failures'
      BY <2>h, <2>i, <2>n, <3>1, <3>2, <3>4, <3>5, <3>6
    <3>8. /\ \A b \in Old' : b[2] # "current"
          /\ \A b \in heap' \ Ports' : b[1] = sessions' => b[2] \in Mine'
          /\ \A b \in heap' : b[1] <= sessions'
      BY <2>e, <2>i, <2>n, <3>1, <3>3, <3>4
    <3> QED
      BY <2>h, <3>1, <3>2, <3>7, <3>8 DEF HeapInv
  <2>6. CASE Sample
    <3>1. /\ pc = "counted" /\ UNCHANGED <<platform, sessions, failures>>
          /\ \/ pc' = "crashed" /\ heap' = heap
             \/ /\ pc' = "sampled" /\ prev' = cpu_times /\ ~Overrun
                /\ heap' = heap \cup Blocks({"prev"})
      BY <2>6 DEF Sample, machine, bounds
    <3>2. CASE pc' = "crashed"
      BY <2>z, <3>1, <3>2
    <3>3. CASE pc' = "sampled"
      <4>1. heap' = (heap \ Blocks({})) \cup Blocks({"prev"}) /\ {"prev"} \in SUBSET Names
        BY <2>B, <3>1, <3>3 DEF Names
      <4>2. ~Failed' /\ Mine = {} /\ Mine' = {"prev"}
        BY <3>1, <3>3, Sampled DEF Failed, Calling, Mine
      <4>3. \A b \in heap' \ Ports' : b[1] = sessions' => b[2] \in Mine'
        BY <2>b, <2>n, <2>w, <3>1, <4>1, <4>2
      <4>4. Cardinality(Old') + (IF Failed' THEN 1 ELSE 0) <= failures'
        BY <2>b, <2>h, <2>n, <2>w, <3>1, <4>1, <4>2
      <4>5. \A b \in Old' : b[2] # "current"
        BY <2>b, <2>n, <2>w, <3>1, <4>1
      <4> QED
        BY <2>n, <2>v, <3>1, <3>3, <4>1, <4>3, <4>4, <4>5
    <3> QED
      BY <3>1, <3>2, <3>3
  <2>7. CASE ReportTimes
    <3>1. /\ pc = "sampled" /\ UNCHANGED <<platform, sessions, failures>>
          /\ \/ pc' = "crashed" /\ heap' = heap
             \/ pc' = "idle" /\ heap' = heap \ Blocks({"prev"})
      BY <2>7 DEF ReportTimes, machine, bounds
    <3>2. CASE pc' = "crashed"
      BY <2>z, <3>1, <3>2
    <3>3. CASE pc' = "idle"
      <4>1. heap' = (heap \ Blocks({"prev"})) \cup Blocks({}) /\ {"prev"} \in SUBSET Names
        BY <2>B, <3>1, <3>3 DEF Names
      <4>2. Mine = {"prev"}
        BY <3>1 DEF Mine
      <4>3. \A b \in heap' \ Ports' : b[1] # sessions
        BY <2>b, <2>n, <2>w, <3>1, <4>1, <4>2
      <4>4. heap' \ Ports' = Old
        BY <2>n, <2>w, <2>x, <3>1, <4>1, <4>3
      <4>5. Cardinality(Old) <= failures' /\ \A b \in Old : b[2] # "current"
        BY <2>b, <2>h, <2>n, <3>1
      <4> QED
        <5>1. \A b \in heap' : b[2] # "current"
          BY <2>y, <4>4, <4>5
        <5>2. {} \in SUBSET Names /\ ~Busy(pc')
          BY <3>3
        <5>3. /\ sessions' = sessions /\ platform' = platform /\ failures' >= failures
              /\ Cardinality(heap' \ Ports') <= failures'
          BY <2>n, <3>1, <4>4, <4>5
        <5> QED
          BY <2>v, <3>3, <4>1, <5>1, <5>2, <5>3, Zenon
    <3> QED
      BY <3>1, <3>2, <3>3
  <2>8. CASE SampleFails
    <3>1. /\ pc = "counted" /\ UNCHANGED <<platform, sessions>>
          /\ pc' \in {"sampled", "idle"} /\ failures' = failures + 1 /\ KeepPort
      BY <2>8 DEF SampleFails, Fail, machine
    <3>2. Mine = {}
      BY <3>1 DEF Mine
    <3>3. /\ heap' \ Ports' = heap \ Ports /\ Old' = Old
          /\ \A b \in heap' \ Ports' : b[1] # sessions
      BY <2>b, <2>k, <3>1, <3>2
    <3>4. heap' \ Ports' = Old
      BY <2>k, <2>x, <3>1, <3>3
    <3>5. /\ Cardinality(Old') + (IF Failed' THEN 1 ELSE 0) <= failures'
          /\ Cardinality(heap' \ Ports') <= failures'
      BY <2>b, <2>h, <2>n, <3>1, <3>3, <3>4
    <3>6. \A b \in Old : b[2] # "current"
      BY <2>b, <3>1
    <3>7. \A b \in heap' : b[2] # "current"
      BY <2>y, <3>4, <3>6
    <3> QED
      BY <2>k, <3>1, <3>3, <3>5, <3>6, <3>7 DEF HeapInv
  <2>9. CASE TotalsAllocFails
    <3>1. /\ pc' = "crashed" /\ UNCHANGED <<platform, sessions, heap>>
          /\ failures' = failures + 1
      BY <2>9 DEF TotalsAllocFails, Fail, machine
    <3> QED
      BY <2>z, <3>1
  <2>20. CASE UnmapTooMuch
    <3>1. pc' = "crashed" /\ UNCHANGED <<platform, sessions, heap, failures>>
      BY <2>20 DEF UnmapTooMuch, machine, bounds
    <3> QED
      BY <2>z, <3>1
  <2>10. ASSUME NEW f \in {"times", "util"}, Call(f)
         PROVE  HeapInv'
    <3> DEFINE N2 == IF f = "util" THEN {"result"} ELSE {}
    <3>1. /\ pc = "sampled" /\ UNCHANGED <<platform, sessions, prev, percpu>> /\ fn' = f
          /\ pc' = IF prev = NULL THEN "refused" ELSE "reference"
          /\ heap' = (heap \ Blocks({})) \cup Blocks(N2) /\ N2 \in SUBSET Names
      BY <2>10, <2>B DEF Call, machine, Names
    <3>2. \/ failures' = failures /\ ncpus' # Uncounted
          \/ failures' = failures + 1
      BY <2>10, <2>o DEF Call, Count, Fail
    <3>3. Mine = {"prev"} /\ {"prev"} \cup N2 \subseteq Mine'
      BY <3>1 DEF Mine
    <3>4. \A b \in heap' \ Ports' : b[1] = sessions' => b[2] \in Mine'
      BY <2>b, <2>n, <2>w, <3>1, <3>2, <3>3
    <3>5. Failed' => Failed \/ failures' = failures + 1
      BY <2>o, <3>1, <3>2 DEF Failed, Calling
    <3>6. Cardinality(Old') + (IF Failed' THEN 1 ELSE 0) <= failures'
      <4>1. Old' = Old /\ Cardinality(Old) + (IF Failed THEN 1 ELSE 0) <= failures
        BY <2>b, <2>n, <2>w, <3>1, <3>2
      <4> QED
        BY <2>h, <2>n, <3>2, <3>5, <4>1
    <3>7. \A b \in Old' : b[2] # "current"
      BY <2>b, <2>n, <2>w, <3>1, <3>2
    <3> QED
      BY <2>n, <2>v, <3>1, <3>2, <3>4, <3>6, <3>7
  <2>11. CASE CallAllocFails
    <3>1. /\ pc = "sampled" /\ UNCHANGED <<platform, sessions>>
          /\ pc' \in {"refused", "reference"} /\ failures' = failures + 1
          /\ heap' = (heap \ Blocks({})) \cup Blocks({})
      BY <2>11, <2>B DEF CallAllocFails, Fail, machine
    <3>2. Mine = {"prev"} /\ {"prev"} \subseteq Mine'
      BY <3>1 DEF Mine
    <3>3. \A b \in heap' \ Ports' : b[1] = sessions' => b[2] \in Mine'
      BY <2>b, <2>n, <2>w, <3>1, <3>2
    <3>4. Cardinality(Old') + (IF Failed' THEN 1 ELSE 0) <= failures'
      BY <2>b, <2>h, <2>n, <2>w, <3>1
    <3>5. \A b \in Old' : b[2] # "current"
      BY <2>b, <2>n, <2>w, <3>1
    <3> QED
      BY <2>n, <2>v, <3>1, <3>3, <3>4, <3>5
  <2>12. CASE Reference
    <3>1. /\ pc = "reference" /\ UNCHANGED <<platform, sessions, failures, ncpus, fn>>
          /\ \/ pc' = "crashed" /\ heap' = heap
             \/ pc' = "compute" /\ heap' = heap \cup Blocks({"current"})
      BY <2>12 DEF Reference, machine, bounds
    <3>2. CASE pc' = "crashed"
      BY <2>z, <3>1, <3>2
    <3>3. CASE pc' = "compute"
      <4>1. heap' = (heap \ Blocks({})) \cup Blocks({"current"}) /\ {"current"} \in SUBSET Names
        BY <2>B, <3>1, <3>3 DEF Names
      <4>2. Mine \cup {"current"} \subseteq Mine'
        BY <3>1, <3>3 DEF Mine
      <4>3. Failed' => Failed
        BY <2>o, <3>1, <3>3 DEF Failed, Calling
      <4>4. \A b \in heap' \ Ports' : b[1] = sessions' => b[2] \in Mine'
        BY <2>b, <2>n, <2>w, <3>1, <4>1, <4>2
      <4>5. Cardinality(Old') + (IF Failed' THEN 1 ELSE 0) <= failures'
        BY <2>b, <2>h, <2>n, <2>w, <3>1, <4>1, <4>3
      <4>6. \A b \in Old' : b[2] # "current"
        BY <2>b, <2>n, <2>w, <3>1, <4>1
      <4> QED
        BY <2>n, <2>v, <3>1, <3>3, <4>1, <4>4, <4>5, <4>6
    <3> QED
      BY <3>1, <3>2, <3>3
  <2>13. CASE ReferenceFails
    <3>1. /\ pc = "reference" /\ pc' = "refused" /\ UNCHANGED <<platform, sessions, fn>>
          /\ failures' = failures + 1 /\ KeepPort
      BY <2>13 DEF ReferenceFails, Goto, Fail, machine, call
    <3>2. Mine \subseteq Mine'
      BY <3>1 DEF Mine
    <3>3. \A b \in heap' \ Ports' : b[1] = sessions' => b[2] \in Mine'
      BY <2>b, <2>k, <3>1, <3>2
    <3>4. Cardinality(Old') + (IF Failed' THEN 1 ELSE 0) <= failures'
      BY <2>b, <2>h, <2>k, <2>n, <3>1
    <3>5. \A b \in Old' : b[2] # "current"
      BY <2>b, <2>k, <3>1
    <3> QED
      BY <2>k, <3>1, <3>3, <3>4, <3>5 DEF HeapInv
  <2>14. CASE Refuse
    <3>1. /\ pc = "refused" /\ pc' = "answered" /\ UNCHANGED <<platform, sessions, failures, fn>>
          /\ heap' = (heap \ Blocks({"current"})) \cup Blocks({})
          /\ {"current"} \in SUBSET Names
      BY <2>14, <2>B DEF Refuse, Goto, machine, bounds, Names
    <3>2. Mine \ {"current"} \subseteq Mine' /\ Failed
      BY <3>1 DEF Mine, Failed
    <3>3. \A b \in heap' \ Ports' : b[1] = sessions' => b[2] \in Mine'
      BY <2>b, <2>n, <2>w, <3>1, <3>2
    <3>4. Cardinality(Old') + (IF Failed' THEN 1 ELSE 0) <= failures'
      BY <2>b, <2>h, <2>n, <2>w, <3>1, <3>2
    <3>5. \A b \in Old' : b[2] # "current"
      BY <2>b, <2>n, <2>w, <3>1
    <3> QED
      BY <2>n, <2>v, <3>1, <3>3, <3>4, <3>5
  <2>15. CASE ResultAllocFails
    <3>1. /\ pc = "compute" /\ pc' = "refused" /\ UNCHANGED <<platform, sessions, fn>>
          /\ \/ ncpus = Uncounted /\ failures' = failures
             \/ failures' = failures + 1
          /\ heap' = (heap \ Blocks({})) \cup Blocks({})
      BY <2>15, <2>B DEF ResultAllocFails, Goto, Fail, machine, call
    <3>2. Mine = Mine' /\ (failures' = failures => Failed)
      BY <2>n, <3>1 DEF Mine, Failed, Calling
    <3>3. \A b \in heap' \ Ports' : b[1] = sessions' => b[2] \in Mine'
      BY <2>b, <2>n, <2>w, <3>1, <3>2
    <3>4. Cardinality(Old') + (IF Failed' THEN 1 ELSE 0) <= failures'
      <4>1. Old' = Old /\ Cardinality(Old) + (IF Failed THEN 1 ELSE 0) <= failures
        BY <2>b, <2>n, <2>w, <3>1
      <4> QED
        BY <2>h, <2>n, <3>1, <3>2, <4>1
    <3>5. \A b \in Old' : b[2] # "current"
      BY <2>b, <2>n, <2>w, <3>1
    <3> QED
      BY <2>n, <2>v, <3>1, <3>3, <3>4, <3>5
  <2>16. CASE ComputeCrashes
    <3>1. /\ pc' = "crashed" /\ UNCHANGED <<platform, sessions>>
          /\ failures' = failures \/ failures' = failures + 1
          /\ heap' = heap
      BY <2>16 DEF ComputeCrashes, Goto, Fail, machine
    <3> QED
      BY <2>z, <3>1
  <2>17. CASE Compute
    <3>1. /\ pc = "compute" /\ UNCHANGED <<platform, sessions, failures>>
          /\ \/ pc' = "crashed" /\ heap' = heap
             \/ /\ pc' = "answered" /\ ~(ncpus > Len(current))
                /\ heap' = (heap \ Blocks({"current"})) \cup Blocks({"result"})
                /\ result' =
                     [i \in 1 .. ncpus |->
                        IF fn = "util"
                          THEN calculate_cpu_util_percentage(prev[i], current[i])
                          ELSE calculate_cpu_times_percentage(prev[i], current[i])]
      BY <2>17 DEF Compute, machine, bounds
    <3>2. CASE pc' = "crashed"
      BY <2>z, <3>1, <3>2
    <3>3. CASE pc' = "answered"
      <4>1. heap' = (heap \ Blocks({"current"})) \cup Blocks({"result"})
            /\ {"current"} \in SUBSET Names /\ {"result"} \in SUBSET Names
        BY <3>1, <3>3 DEF Names
      <4>2. result' # NULL
        BY <3>1, <3>3, Answer
      <4>3. /\ ~Failed' /\ Mine' = {"prev", "result"}
            /\ Mine \ {"current"} \subseteq {"prev", "result"}
        BY <3>1, <3>3, <4>2 DEF Mine, Failed, Calling
      <4>4. /\ pc = "compute" /\ pc' = "answered"
            /\ UNCHANGED <<platform, sessions, failures>>
        BY <3>1, <3>3
      <4>5. \A b \in heap' \ Ports' : b[1] = sessions' => b[2] \in Mine'
        BY <2>b, <2>n, <2>w, <4>4, <4>1, <4>3
      <4>6. Cardinality(Old') + (IF Failed' THEN 1 ELSE 0) <= failures'
        BY <2>b, <2>h, <2>n, <2>w, <4>4, <4>1, <4>3
      <4>7. \A b \in Old' : b[2] # "current"
        BY <2>b, <2>n, <2>w, <4>4, <4>1
      <4> QED
        BY <2>n, <2>v, <4>4, <4>1, <4>5, <4>6, <4>7
    <3> QED
      BY <3>1, <3>2, <3>3
  <2>18. CASE Report
    <3>1. /\ pc = "answered" /\ UNCHANGED <<platform, sessions, failures>>
          /\ \/ pc' = "crashed" /\ heap' = heap
             \/ pc' = "idle" /\ heap' = heap /\ result = NULL /\ fn = "times"
             \/ pc' = "idle" /\ heap' = heap \ Blocks({"prev", "result"})
      BY <2>18 DEF Report, machine, bounds
    <3>2. CASE pc' = "crashed"
      BY <2>z, <3>1, <3>2
    <3>3. CASE pc' = "idle" /\ heap' = heap /\ result = NULL /\ fn = "times"
      <4>1. heap' = (heap \ Blocks({})) \cup Blocks({})
        BY <2>B, <3>3
      <4>2. Mine = {"prev"} /\ Failed
        BY <3>1, <3>3 DEF Mine, Failed
      <4>3. heap' \ Ports' \subseteq Old \cup {<<sessions, "prev">>}
        <5>1. Ports' = Ports
          BY <3>3 DEF Ports
        <5>2. \A b \in heap \ Ports : b[1] = sessions => b = <<sessions, "prev">>
          BY <2>b, <2>e, <3>1, <4>2
        <5>3. \A b \in heap \ Ports : b[1] < sessions \/ b[1] = sessions
          BY <2>e, <2>h, <2>n
        <5> QED
          BY <3>3, <5>1, <5>2, <5>3 DEF Old
      <4>4. Cardinality(heap' \ Ports') <= failures'
        <5>1. /\ IsFiniteSet(Old \cup {<<sessions, "prev">>})
              /\ Cardinality(Old \cup {<<sessions, "prev">>}) <= Cardinality(Old) + 1
              /\ Cardinality(Old \cup {<<sessions, "prev">>}) \in Nat
          <6>1. /\ IsFiniteSet(Old \cup {<<sessions, "prev">>})
                /\ Cardinality(Old \cup {<<sessions, "prev">>})
                     = IF <<sessions, "prev">> \in Old THEN Cardinality(Old)
                                                       ELSE Cardinality(Old) + 1
            BY <2>h, FS_AddElement
          <6> QED
            BY <2>h, <6>1
        <5>2. /\ Cardinality(heap' \ Ports') <= Cardinality(Old \cup {<<sessions, "prev">>})
              /\ Cardinality(heap' \ Ports') \in Nat
          BY <4>3, <5>1, FS_Subset, FS_CardinalityType
        <5>3. Cardinality(Old) + 1 <= failures
          BY <2>b, <3>1, <4>2
        <5> QED
          BY <2>h, <2>n, <3>1, <5>1, <5>2, <5>3
      <4>5. \A b \in heap' \ Ports' : b[2] # "current"
        BY <2>b, <3>1, <4>3
      <4> QED
        BY <2>n, <2>v, <2>y, <3>1, <3>3, <4>1, <4>4, <4>5
    <3>4. CASE pc' = "idle" /\ heap' = heap \ Blocks({"prev", "result"})
      <4>1. heap' = (heap \ Blocks({"prev", "result"})) \cup Blocks({})
            /\ {"prev", "result"} \in SUBSET Names
        BY <2>B, <3>4 DEF Names
      <4>2. Mine \subseteq {"prev", "result"}
        BY <3>1 DEF Mine
      <4>3. \A b \in heap' \ Ports' : b[1] # sessions
        <5>1. \A b \in heap' \ Ports' : b[1] = sessions =>
                b \in heap \ Ports /\ b[2] \notin {"prev", "result"}
          <6>1. {} \in SUBSET Names
            OBVIOUS
          <6> QED
            BY <2>n, <2>w, <3>1, <4>1, <6>1
        <5>2. \A b \in heap \ Ports : b[1] = sessions => b[2] \in {"prev", "result"}
          BY <2>b, <3>1, <4>2
        <5> QED
          BY <5>1, <5>2
      <4>4. heap' \ Ports' = Old
        BY <2>n, <2>w, <2>x, <3>1, <4>1, <4>3
      <4>5. Cardinality(Old) <= failures' /\ \A b \in Old : b[2] # "current"
        BY <2>b, <2>h, <2>n, <3>1
      <4> QED
        <5>1. \A b \in heap' : b[2] # "current"
          BY <2>y, <4>4, <4>5
        <5>2. {} \in SUBSET Names /\ ~Busy(pc')
          BY <3>4
        <5>3. /\ sessions' = sessions /\ platform' = platform /\ failures' >= failures
              /\ Cardinality(heap' \ Ports') <= failures'
          BY <2>n, <3>1, <4>4, <4>5
        <5> QED
          BY <2>v, <3>4, <4>1, <5>1, <5>2, <5>3, Zenon
    <3> QED
      BY <3>1, <3>2, <3>3, <3>4
  <2>19. CASE UNCHANGED vars
    <3>1. UNCHANGED <<machine, pc, call, heap, fault, bounds, history>>
      BY <2>19 DEF vars
    <3> QED
      BY <3>1 DEF HeapInv, Ports, Old, Mine, Failed, Calling, Uncounted, machine, call,
                  bounds
  <2> QED
    BY <2>3, <2>4, <2>5, <2>6, <2>7, <2>8, <2>9, <2>10, <2>11, <2>12, <2>13,
       <2>14, <2>15, <2>16, <2>17, <2>18, <2>19, <2>20 DEF Next, library
<1>3. TypeOK /\ HeapInv => LeaksBounded
  <2> SUFFICES ASSUME TypeOK, HeapInv PROVE LeaksBounded
    OBVIOUS
  <2> DEFINE Answer0 == pc = "answered" /\ result = NULL
             Rest == heap \ (Ports \cup Blocks({"prev"}))
  <2>1. CASE pc = "idle"
    BY <2>1 DEF HeapInv, LeaksBounded, Ports
  <2>2. CASE Answer0
    <3>1. /\ failures \in Nat /\ sessions \in Nat
          /\ \A b \in heap : b[1] \in Nat /\ b = <<b[1], b[2]>>
      BY DEF TypeOK
    <3>2. /\ IsFiniteSet(heap) /\ Cardinality(Ports) <= failures
          /\ platform = "linux" => Ports = {}
          /\ \A b \in heap : b[1] <= sessions
          /\ Cardinality(Old) + 1 <= failures
          /\ \A b \in Old : b[2] # "current"
          /\ \A b \in heap \ Ports : b[1] = sessions => b[2] \in {"prev", "result"}
      BY <2>2 DEF HeapInv, Failed, Mine
    <3>3. IsFiniteSet(Old) /\ Cardinality(Old) \in Nat
      <4>1. Old \subseteq heap
        BY DEF Old
      <4> QED
        BY <3>2, <4>1, FS_Subset, FS_CardinalityType
    <3>4. Rest \subseteq Old \cup {<<sessions, "result">>}
      BY <3>1, <3>2 DEF Blocks, Old
    <3>5. /\ IsFiniteSet(Old \cup {<<sessions, "result">>})
          /\ Cardinality(Old \cup {<<sessions, "result">>}) <= Cardinality(Old) + 1
      <4>1. /\ IsFiniteSet(Old \cup {<<sessions, "result">>})
            /\ Cardinality(Old \cup {<<sessions, "result">>})
                 = IF <<sessions, "result">> \in Old THEN Cardinality(Old)
                                                      ELSE Cardinality(Old) + 1
        BY <3>3, FS_AddElement
      <4> QED
        BY <3>3, <4>1
    <3>6. Cardinality(Rest) <= failures
      <4>1. /\ Cardinality(Rest) <= Cardinality(Old \cup {<<sessions, "result">>})
            /\ Cardinality(Rest) \in Nat
            /\ Cardinality(Old \cup {<<sessions, "result">>}) \in Nat
        BY <3>4, <3>5, FS_Subset, FS_CardinalityType
      <4> HIDE DEF Rest
      <4> QED
        BY <3>1, <3>2, <3>3, <3>5, <4>1
    <3>7. \A b \in heap : b[2] # "current"
      BY <3>1, <3>2 DEF Old, Ports
    <3> QED
      BY <2>2, <3>2, <3>6, <3>7 DEF LeaksBounded, Ports
  <2>3. CASE ~(pc = "idle" \/ Answer0)
    BY <2>3 DEF LeaksBounded
  <2> QED
    BY <2>1, <2>2, <2>3
<1> QED
  BY <1>1, <1>2, <1>3, TypeCorrect, PTL DEF Spec
-----------------------------------------------------------------------------
\* What Quotients says of the sums is what Share says of the shares.
LEMMA Shares ==
  ASSUME NEW u \in Nat, NEW d \in Nat, NEW g \in Nat, g <= u
  PROVE  /\ (u + g) * (u + d) >= u * (u + d + g)
         /\ \A x \in Nat : x * (u + d) <= x * (u + d + g)
         /\ u + d + g = 0 <=> u + d = 0
         /\ 0 <= u + g /\ u + g <= u + d + g
<1>1. (u + g) * (u + d) = u * (u + d) + (g * u + g * d)
  BY Z3
<1>2. u * (u + d + g) = u * (u + d) + g * u
  BY Z3
<1>3. g * d \in Nat /\ g * u \in Nat /\ u * (u + d) \in Nat
  BY Z3
<1>4. (u + g) * (u + d) >= u * (u + d + g)
  <2> DEFINE a == u * (u + d)
             b == g * u
             c == g * d
  <2>1. a \in Nat /\ b \in Nat /\ c \in Nat
    BY <1>3
  <2> HIDE DEF a, b, c
  <2>2. a + (b + c) >= a + b
    BY <2>1
  <2> QED
    BY <1>1, <1>2, <2>2 DEF a, b, c
<1>5. \A x \in Nat : x * (u + d) <= x * (u + d + g)
  <2> TAKE x \in Nat
  <2>1. x * (u + d + g) = x * (u + d) + x * g /\ x * g \in Nat /\ x * (u + d) \in Nat
    BY Z3
  <2> QED
    BY <2>1
<1> QED
  BY <1>4, <1>5

\* The percentages that both functions compute if t2 is e after t1
LEMMA Percentages ==
  ASSUME NEW t1 \in CpuTimes, NEW t2 \in CpuTimes, NEW e \in CpuTimes,
         e["guest"] <= e["user"], \A f \in Field : t2[f] = t1[f] + e[f]
  PROVE  /\ LET r == calculate_cpu_util_percentage(t1, t2)["busy"]
            IN  Share(r, e["user"], e) /\ r[1] * Ticks(e) >= e["user"] * r[2]
         /\ \A f \in Field :
              LET r == calculate_cpu_times_percentage(t1, t2)[f]
              IN  Share(r, e[f], e) /\ r[1] * Ticks(e) <= e[f] * r[2]
<1> DEFINE u == e["user"]
           d == e["idle"]
           g == e["guest"]
           busy == calculate_cpu_util_percentage(t1, t2)["busy"]
           part(f) == calculate_cpu_times_percentage(t1, t2)[f]
<1>1. u \in Nat /\ d \in Nat /\ g \in Nat /\ g <= u /\ Field = {"user", "idle", "guest"}
  BY DEF CpuTimes, Field
<1>2. /\ busy = <<u + g, u + d + g>>
      /\ \A f \in Field : part(f) = <<e[f], u + d + g>>
  BY Quotients
<1>3. /\ (u + g) * (u + d) >= u * (u + d + g)
      /\ \A x \in Nat : x * (u + d) <= x * (u + d + g)
      /\ u + d + g = 0 <=> u + d = 0
      /\ 0 <= u + g /\ u + g <= u + d + g
  BY <1>1, Shares
<1>4. Ticks(e) = u + d
  BY DEF Ticks
<1>5. g = 0 => u + g = u /\ u + d + g = u + d
  BY <1>1
<1>6. \A f \in Field : e[f] \in Nat /\ e[f] <= u + d + g
  BY <1>1
<1> HIDE DEF u, d, g, busy, part
<1>7. Share(busy, u, e) /\ busy[1] * Ticks(e) >= u * busy[2]
  <2>1. busy[1] = u + g /\ busy[2] = u + d + g
    BY <1>2
  <2>2. e["guest"] = g
    BY DEF g
  <2>3. g = 0 => busy[1] * Ticks(e) = u * busy[2]
    BY <1>4, <1>5, <2>1
  <2>4. Share(busy, u, e)
    BY <1>3, <1>4, <2>1, <2>2, <2>3, Zenon DEF Share
  <2> QED
    BY <1>3, <1>4, <2>1, <2>4
<1>8. ASSUME NEW f \in Field
      PROVE  Share(part(f), e[f], e) /\ part(f)[1] * Ticks(e) <= e[f] * part(f)[2]
  <2>1. part(f)[1] = e[f] /\ part(f)[2] = u + d + g
    BY <1>2
  <2>2. e["guest"] = g
    BY DEF g
  <2>3. g = 0 => part(f)[1] * Ticks(e) = e[f] * part(f)[2]
    BY <1>4, <1>5, <2>1
  <2>4. 0 <= e[f] /\ e[f] <= u + d + g /\ e[f] \in Nat
    BY <1>6
  <2>5. Share(part(f), e[f], e)
    BY <1>3, <1>4, <2>1, <2>2, <2>3, <2>4, Zenon DEF Share
  <2> QED
    BY <1>3, <1>4, <2>1, <2>4, <2>5
<1> QED
  BY <1>7, <1>8 DEF u, busy, part
-----------------------------------------------------------------------------
Fields == {{"user"}, {"idle"}, {"user", "guest"}}

\* The percentages of the totals, and of each CPU that both samples have at its
\* index, are shares of the ticks since the sample, with the guests' ticks
\* counted twice, whatever else came or went: the line of the kernel's table
\* behind such an index has grown by these ticks between the two samples.
THEOREM PercentagesRight == Spec => []PercentageIsShare
<1>1. Init => SampleInv /\ PercentageIsShare
  <2> SUFFICES ASSUME Init PROVE SampleInv /\ PercentageIsShare
    OBVIOUS
  <2>1. pc = "idle" /\ since = [l \in Line |-> Zero]
    BY Zenon DEF Init
  <2>2. \A l \in Line : since[l]["guest"] = 0 /\ since[l]["user"] = 0
    BY <2>1 DEF Zero, Field
  <2> QED
    BY <2>1, <2>2 DEF SampleInv, PercentageIsShare
<1>2. /\ TypeOK /\ Shape /\ CountInv /\ SampleInv /\ PercentageIsShare
      /\ TypeOK' /\ Shape'
      /\ [Next]_vars
      => SampleInv' /\ PercentageIsShare'
  <2> SUFFICES ASSUME TypeOK, Shape, CountInv, SampleInv, PercentageIsShare,
                      TypeOK', Shape', [Next]_vars
               PROVE  SampleInv' /\ PercentageIsShare'
    OBVIOUS
  <2> DEFINE N == Cardinality(online)
             Guests(t) == \A l \in Line : t[l]["guest"] <= t[l]["user"]
             Kept == steady \/ ~percpu
             Line1(i) == pairs[i][1]
  <2>n. /\ percpu \in BOOLEAN /\ steady \in BOOLEAN /\ fn \in {"times", "util"}
        /\ counters \in [Line -> CpuTimes] /\ since \in [Line -> CpuTimes]
        /\ prev # NULL => prev \in Seq(CpuTimes)
        /\ online \in SUBSET Cpu
        /\ pairs \in [Cpu -> (Cpu \cup {0}) \X (Cpu \cup {0})]
        /\ Field = {"user", "idle", "guest"}
    BY DEF TypeOK, Field
  <2>o. /\ N \in Nat /\ N < Uncounted /\ Uncounted \in Nat /\ Uncounted > 1
        /\ N <= NCpus /\ NCpus \in Nat /\ NCpus >= 1
        /\ Entries \in Nat /\ Entries < Uncounted
        /\ counted \in Nat /\ ncpus \in (0 .. NCpus) \cup {Uncounted}
    <3>1. counted \in Counts /\ ncpus \in Counts
      BY DEF TypeOK, Counts
    <3>2. NCpus \in Nat /\ NCpus >= 1
      BY SizeAssumption
    <3> QED
      BY <3>1, <3>2, Online DEF Counts
  <2>i. Indices \subseteq Cpu /\ \A i \in Cpu : i \in Nat /\ i >= 1
    BY <2>o DEF Indices, Cpu
  <2>l. \A i \in Cpu : Line1(i) \in Line
    <3>1. Cpu \cup {0} = Line
      BY <2>o DEF Cpu, Line
    <3> QED
      BY <2>n, <3>1
  <2>g. Guests(since)
    BY DEF SampleInv
  <2>a. pc \in {"sampled", "reference"} /\ prev # NULL =>
          /\ Kept => \A i \in Cpu : Line1(i) = Behind(i)
          /\ \A i \in Indices : (percpu => Line1(i) # 0) =>
               /\ i <= Len(prev)
               /\ \A f \in Field :
                    counters[Line1(i)][f] = prev[i][f] + since[Line1(i)][f]
    BY DEF SampleInv
  <2>b. pc = "compute" =>
          /\ Kept => \A i \in Cpu : pairs[i] = <<Behind(i), Behind(i)>>
          /\ \A i \in Indices : Same(i) =>
               /\ i <= Len(prev) /\ i <= Len(current)
               /\ \A f \in Field : current[i][f] = prev[i][f] + since[Line1(i)][f]
    BY DEF SampleInv
  <2>c. /\ ~percpu /\ pc # "idle" => counted = 1
        /\ ~percpu /\ pc \in Calling => ncpus = 1
        /\ percpu /\ steady =>
             /\ pc \notin {"idle", "crashed"} => counted \in {N, Uncounted}
             /\ pc \in Calling => ncpus \in {N, Uncounted}
    BY DEF CountInv
  \* Whatever is not about a sample or an answer
  <2>p. ASSUME pc' \notin {"sampled", "reference", "compute", "answered"} \/
               (pc' = "sampled" /\ prev' = NULL) \/ (pc' = "answered" /\ result' = NULL),
               UNCHANGED since
        PROVE  SampleInv' /\ PercentageIsShare'
    BY <2>g, <2>p DEF SampleInv, PercentageIsShare
  <2>m. UNCHANGED <<online, percpu>> => Indices' = Indices /\ \A i : Behind(i)' = Behind(i)
    BY DEF Indices, Behind
  <2>q. UNCHANGED <<percpu, pairs>> => \A i : Same(i)' = Same(i)
    BY DEF Same
  \* An answer that has been given
  <2>r. ASSUME pc = "answered", UNCHANGED <<pc, percpu, fn, counted, result, since, pairs>>,
               steady' => steady
        PROVE  PercentageIsShare'
    <3>1. Uncounted' = Uncounted
      BY DEF Uncounted
    <3> QED
      BY <2>q, <2>r, <3>1 DEF PercentageIsShare
  <2>3. ASSUME NEW c \in Cpu, NEW fields \in Fields, Tick(c, fields)
        PROVE  SampleInv' /\ PercentageIsShare'
    <3>1. /\ counters' = Added(counters, c, fields)
          /\ since' = IF pc \in {"sampled", "reference"} THEN Added(since, c, fields) ELSE since
          /\ UNCHANGED <<online, pc, percpu, fn, counted, ncpus, prev, current, result,
                         steady, pairs>>
      BY <2>3 DEF Tick, call
    <3>2. ASSUME NEW t \in [Line -> CpuTimes], NEW l \in Line
          PROVE  /\ \A f \in Field : t[l][f] \in Nat
                 /\ \A f \in Field : Added(t, c, fields)[l][f]
                      = IF l \in {0, c} /\ f \in fields THEN t[l][f] + 1 ELSE t[l][f]
      BY DEF Added, CpuTimes
    <3>3. Guests(since')
      <4>1. ASSUME NEW l \in Line
            PROVE  since'[l]["guest"] <= since'[l]["user"]
        <5>1. /\ since[l]["guest"] \in Nat /\ since[l]["user"] \in Nat
              /\ since[l]["guest"] <= since[l]["user"]
          BY <2>g, <2>n, <3>2
        <5>2. CASE pc \in {"sampled", "reference"}
          <6>1. \A f \in {"guest", "user"} : since'[l][f]
                  = IF l \in {0, c} /\ f \in fields THEN since[l][f] + 1 ELSE since[l][f]
            BY <2>n, <3>1, <3>2, <5>2
          <6>2. "guest" \in fields => "user" \in fields
            BY DEF Fields
          <6> QED
            BY <5>1, <6>1, <6>2
        <5>3. CASE pc \notin {"sampled", "reference"}
          BY <3>1, <5>1, <5>3
        <5> QED
          BY <5>2, <5>3
      <4> QED
        BY <4>1
    <3>4. SampleInv'
      <4>1. CASE pc \in {"sampled", "reference"} /\ prev # NULL
        <5>1. ASSUME NEW i \in Indices, percpu => Line1(i) # 0, NEW f \in Field
              PROVE  counters'[Line1(i)][f] = prev[i][f] + since'[Line1(i)][f]
          <6>1. Line1(i) \in Line
            BY <2>i, <2>l
          <6>2. i \in 1 .. Len(prev) /\ Len(prev) \in Nat /\ prev[i][f] \in Nat
            <7>1. prev \in Seq(CpuTimes) /\ i <= Len(prev) /\ i \in Nat /\ i >= 1
              BY <2>a, <2>i, <2>n, <4>1, <5>1
            <7>2. i \in 1 .. Len(prev) /\ prev[i] \in CpuTimes
              BY <7>1
            <7> QED
              BY <7>1, <7>2 DEF CpuTimes
          <6>3. /\ counters[Line1(i)][f] \in Nat /\ since[Line1(i)][f] \in Nat
                /\ counters[Line1(i)][f] = prev[i][f] + since[Line1(i)][f]
            BY <2>a, <2>n, <3>2, <4>1, <5>1, <6>1
          <6>4. /\ counters'[Line1(i)][f]
                     = IF Line1(i) \in {0, c} /\ f \in fields
                         THEN counters[Line1(i)][f] + 1 ELSE counters[Line1(i)][f]
                /\ since'[Line1(i)][f]
                     = IF Line1(i) \in {0, c} /\ f \in fields
                         THEN since[Line1(i)][f] + 1 ELSE since[Line1(i)][f]
            BY <2>n, <3>1, <3>2, <4>1, <6>1
          <6> QED
            BY <6>2, <6>3, <6>4
        <5> QED
          BY <2>a, <2>m, <3>1, <3>3, <4>1, <5>1 DEF SampleInv
      <4>2. CASE pc = "compute"
        BY <2>b, <2>m, <2>q, <3>1, <3>3, <4>2 DEF SampleInv
      <4>3. CASE ~(pc \in {"sampled", "reference"} /\ prev # NULL) /\ pc # "compute"
        BY <3>1, <3>3, <4>3 DEF SampleInv
      <4> QED
        BY <4>1, <4>2, <4>3
    <3>5. PercentageIsShare'
      <4>1. CASE pc = "answered"
        BY <2>r, <3>1, <4>1
      <4>2. CASE pc # "answered"
        BY <3>1, <4>2 DEF PercentageIsShare
      <4> QED
        BY <4>1, <4>2
    <3> QED
      BY <3>4, <3>5
  <2>4. ASSUME NEW c \in Cpu, Hotplug(c)
        PROVE  SampleInv' /\ PercentageIsShare'
    <3>1. /\ steady' = FALSE
          /\ UNCHANGED <<pc, percpu, fn, counted, ncpus, prev, current, result,
                         since, counters, pairs>>
      BY <2>4 DEF Hotplug, call
    <3>2. Indices' = Indices /\ (~percpu => \A i : Behind(i)' = Behind(i))
      BY <3>1 DEF Indices, Behind
    <3>3. SampleInv'
      <4>1. CASE pc \in {"sampled", "reference"} /\ prev # NULL
        BY <2>a, <2>g, <3>1, <3>2, <4>1 DEF SampleInv
      <4>2. CASE pc = "compute"
        BY <2>b, <2>g, <2>q, <3>1, <3>2, <4>2 DEF SampleInv
      <4>3. CASE ~(pc \in {"sampled", "reference"} /\ prev # NULL) /\ pc # "compute"
        BY <2>g, <3>1, <4>3 DEF SampleInv
      <4> QED
        BY <4>1, <4>2, <4>3
    <3>4. PercentageIsShare'
      <4>1. CASE pc = "answered"
        BY <2>r, <3>1, <4>1
      <4>2. CASE pc # "answered"
        BY <3>1, <4>2 DEF PercentageIsShare
      <4> QED
        BY <4>1, <4>2
    <3> QED
      BY <3>3, <3>4
  <2>5. ASSUME NEW p \in BOOLEAN, Begin(p)
        PROVE  SampleInv' /\ PercentageIsShare'
    BY <2>5, <2>p DEF Begin, Goto
  <2>6. CASE Sample
    <3>1. /\ UNCHANGED <<counters, online, percpu, steady>>
          /\ \/ pc' = "crashed" /\ UNCHANGED since
             \/ /\ pc' = "sampled" /\ prev' = cpu_times /\ ~Overrun
                /\ since' = [l \in Line |-> Zero]
                /\ pairs' = [i \in Cpu |-> <<Behind(i), 0>>]
      BY <2>6 DEF Sample, machine
    <3>2. CASE pc' = "crashed" /\ UNCHANGED since
      BY <2>p, <3>2
    <3>3. CASE pc' = "sampled"
      <4>1. /\ \A i \in Indices : (percpu => Behind(i) # 0) =>
                 i <= Len(prev') /\ prev'[i] = counters[Behind(i)]
            /\ prev' \in Seq(CpuTimes)
        BY <3>1, <3>3, Sampled
      <4>2. \A l \in Line : \A f \in Field : counters[l][f] \in Nat /\ since'[l][f] = 0
        BY <2>n, <3>1, <3>3 DEF CpuTimes, Zero
      <4>3. \A i \in Cpu : pairs'[i][1] = Behind(i) /\ Behind(i) \in Line
        <5>1. pairs' \in [Cpu -> (Cpu \cup {0}) \X (Cpu \cup {0})] /\ Cpu \cup {0} = Line
          BY <2>o DEF TypeOK, Cpu, Line
        <5>2. \A i \in Cpu : pairs'[i] = <<Behind(i), 0>>
          BY <3>1, <3>3
        <5> QED
          BY <5>1, <5>2
      <4>4. ASSUME NEW i \in Indices, percpu => pairs'[i][1] # 0
            PROVE  /\ i <= Len(prev')
                   /\ \A f \in Field : counters[pairs'[i][1]][f]
                                         = prev'[i][f] + since'[pairs'[i][1]][f]
        <5>1. i \in Cpu /\ pairs'[i][1] = Behind(i) /\ Behind(i) \in Line
          BY <2>i, <4>3
        <5>2. i <= Len(prev') /\ prev'[i] = counters[Behind(i)]
          BY <4>1, <4>4, <5>1
        <5>3. \A f \in Field : counters[Behind(i)][f] \in Nat /\ since'[Behind(i)][f] = 0
          BY <4>2, <5>1
        <5> QED
          BY <5>1, <5>2, <5>3
      <4>5. Guests(since')
        BY <3>1, <3>3 DEF Zero, Field
      <4>6. SampleInv'
        BY <2>m, <3>1, <3>3, <4>3, <4>4, <4>5 DEF SampleInv
      <4> QED
        BY <3>3, <4>6 DEF PercentageIsShare
    <3> QED
      BY <3>1, <3>2, <3>3
  <2>7. CASE ReportTimes
    BY <2>7, <2>p DEF ReportTimes, history
  <2>8. CASE SampleFails
    BY <2>8, <2>p DEF SampleFails, history
  <2>9. CASE TotalsAllocFails
    BY <2>9, <2>p DEF TotalsAllocFails, history
  <2>20. CASE UnmapTooMuch
    BY <2>20, <2>p DEF UnmapTooMuch, history
  <2>10. ASSUME NEW f \in {"times", "util"}, Call(f)
         PROVE  SampleInv' /\ PercentageIsShare'
    <3>1. /\ UNCHANGED <<counters, online, percpu, prev, steady, since, pairs>>
          /\ pc = "sampled" /\ pc' = IF prev = NULL THEN "refused" ELSE "reference"
      BY <2>10 DEF Call, machine, history
    <3> QED
      BY <2>a, <2>g, <2>m, <2>p, <3>1 DEF SampleInv, PercentageIsShare
  <2>11. CASE CallAllocFails
    <3>1. /\ UNCHANGED <<counters, online, percpu, prev, steady, since, pairs>>
          /\ pc = "sampled" /\ pc' = IF prev = NULL THEN "refused" ELSE "reference"
      BY <2>11 DEF CallAllocFails, machine, history
    <3> QED
      BY <2>a, <2>g, <2>m, <2>p, <3>1 DEF SampleInv, PercentageIsShare
  <2>12. CASE Reference
    <3>1. /\ UNCHANGED <<counters, online, percpu, prev, steady, since>> /\ pc = "reference"
          /\ \/ pc' = "crashed"
             \/ /\ pc' = "compute" /\ current' = cpu_times /\ ~Overrun
                /\ pairs' = [i \in Cpu |-> <<Line1(i), Behind(i)>>]
      BY <2>12 DEF Reference, machine
    <3>2. CASE pc' = "crashed"
      BY <2>p, <3>1, <3>2
    <3>3. CASE pc' = "compute"
      <4>1. \A i \in Indices : (percpu => Behind(i) # 0) =>
              i <= Len(current') /\ current'[i] = counters[Behind(i)]
        BY <3>1, <3>3, Sampled
      <4>2. prev # NULL
        BY <3>1 DEF Shape, Calling
      <4>3. \A i \in Cpu : pairs'[i] = <<Line1(i), Behind(i)>>
        BY <3>1, <3>3
      <4>4. Kept => \A i \in Cpu : pairs'[i] = <<Behind(i), Behind(i)>>
        BY <2>a, <3>1, <4>2, <4>3
      <4>5. ASSUME NEW i \in Indices, Same(i)'
            PROVE  /\ i <= Len(prev) /\ i <= Len(current')
                   /\ \A f \in Field : current'[i][f] = prev[i][f] + since[pairs'[i][1]][f]
        <5>1. /\ pairs'[i][1] = Line1(i) /\ Line1(i) = Behind(i)
              /\ percpu => Behind(i) # 0
          <6>1. i \in Cpu /\ pairs'[i] = <<Line1(i), Behind(i)>>
            BY <2>i, <4>3
          <6>2. pairs'[i][1] = pairs'[i][2] /\ (percpu => pairs'[i][1] # 0)
            BY <3>1, <4>5 DEF Same
          <6> QED
            BY <6>1, <6>2
        <5> QED
          BY <2>a, <3>1, <4>1, <4>2, <5>1
      <4>6. SampleInv'
        BY <2>g, <2>m, <3>1, <3>3, <4>4, <4>5 DEF SampleInv
      <4> QED
        BY <3>3, <4>6 DEF PercentageIsShare
    <3> QED
      BY <3>1, <3>2, <3>3
  <2>13. CASE ReferenceFails
    BY <2>13, <2>p DEF ReferenceFails, Goto, history
  <2>14. CASE Refuse
    BY <2>14, <2>p DEF Refuse, Goto, history
  <2>15. CASE ResultAllocFails
    BY <2>15, <2>p DEF ResultAllocFails, Goto, history
  <2>16. CASE ComputeCrashes
    BY <2>16, <2>p DEF ComputeCrashes, Goto, history
  <2>17. CASE Compute
    <3>1. /\ UNCHANGED <<online, percpu, fn, counted, ncpus, prev, steady, since, pairs>>
          /\ pc = "compute"
          /\ \/ pc' = "crashed"
             \/ /\ pc' = "answered" /\ ~(ncpus > Len(current))
                /\ result' =
                     [i \in 1 .. ncpus |->
                        IF fn = "util"
                          THEN calculate_cpu_util_percentage(prev[i], current[i])
                          ELSE calculate_cpu_times_percentage(prev[i], current[i])]
      BY <2>17 DEF Compute, machine, history
    <3>2. CASE pc' = "crashed"
      BY <2>p, <3>1, <3>2
    <3>3. CASE pc' = "answered"
      <4>1. /\ ncpus \in 0 .. NCpus
            /\ ~percpu => ncpus = 1
            /\ percpu /\ steady => ncpus = N
            /\ steady /\ counted # Uncounted => ncpus = counted
        <5>1. Len(current) = IF percpu THEN Entries ELSE 1
          BY <3>1 DEF Shape
        <5> HIDE DEF N
        <5> QED
          BY <2>c, <2>n, <2>o, <3>1, <3>3, <5>1 DEF Calling
      <4>2. 1 .. ncpus \subseteq Indices
        BY <2>n, <2>o, <4>1 DEF Indices, Cpu
      <4>3. Len(result') = ncpus
        BY <3>1, <3>3, Answer
      <4>4. ASSUME NEW i \in 1 .. ncpus, steady
            PROVE  Same(i)
        <5>1. pairs[i] = <<Behind(i), Behind(i)>>
          BY <2>b, <2>i, <3>1, <4>2, <4>4
        <5>2. percpu => Behind(i) # 0
          <6>1. percpu => i \in 1 .. N /\ Behind(i) = Nth(online, i)
            BY <2>o, <4>1, <4>4 DEF Behind
          <6>2. percpu => Nth(online, i) \in Cpu
            BY <2>n, <6>1, NthIn
          <6> QED
            BY <2>o, <6>1, <6>2 DEF Cpu
        <5> QED
          BY <5>1, <5>2 DEF Same
      <4>5. ASSUME NEW i \in 1 .. ncpus, Same(i)
            PROVE  LET e == since[Line1(i)]
                   IN  /\ fn = "util" =>
                            LET r == result'[i]["busy"]
                            IN  Share(r, e["user"], e) /\ r[1] * Ticks(e) >= e["user"] * r[2]
                       /\ fn = "times" =>
                            \A f \in Field :
                              LET r == result'[i][f]
                              IN  Share(r, e[f], e) /\ r[1] * Ticks(e) <= e[f] * r[2]
        <5>1. prev[i] \in CpuTimes /\ current[i] \in CpuTimes
          BY <3>1, <3>3, Answer
        <5>2. /\ since[Line1(i)] \in CpuTimes
              /\ since[Line1(i)]["guest"] <= since[Line1(i)]["user"]
          BY <2>g, <2>i, <2>l, <2>n, <4>2
        <5>3. \A f \in Field : current[i][f] = prev[i][f] + since[Line1(i)][f]
          BY <2>b, <3>1, <4>2, <4>5
        <5>4. /\ fn = "util" =>
                   result'[i] = calculate_cpu_util_percentage(prev[i], current[i])
              /\ fn = "times" =>
                   result'[i] = calculate_cpu_times_percentage(prev[i], current[i])
          BY <3>1, <3>3
        <5> HIDE DEF Line1
        <5> QED
          BY <5>1, <5>2, <5>3, <5>4, Percentages, Zenon
      <4>6. PercentageIsShare'
        <5>1. Uncounted' = Uncounted /\ \A i : Same(i)' = Same(i)
          BY <2>q, <3>1 DEF Uncounted
        <5> QED
          BY <3>1, <3>3, <4>1, <4>3, <4>4, <4>5, <5>1 DEF PercentageIsShare
      <4>7. SampleInv'
        BY <2>g, <3>1, <3>3 DEF SampleInv
      <4> QED
        BY <4>6, <4>7
    <3> QED
      BY <3>1, <3>2, <3>3
  <2>18. CASE Report
    <3>1. pc' \in {"idle", "crashed"} /\ UNCHANGED since
      BY <2>18 DEF Report, history
    <3> QED
      BY <2>p, <3>1
  <2>19. CASE UNCHANGED vars
    <3>1. UNCHANGED <<machine, pc, call, heap, fault, bounds, history>>
      BY <2>19 DEF vars
    <3>2. UNCHANGED <<online, counters, pc, percpu, fn, counted, ncpus, prev, current,
                      result, steady, since, pairs>>
      BY <3>1 DEF machine, call, history
    <3>3. SampleInv'
      BY <2>m, <2>q, <3>2 DEF SampleInv
    <3>4. PercentageIsShare'
      <4>1. CASE pc = "answered"
        BY <2>r, <3>2, <4>1
      <4>2. CASE pc # "answered"
        BY <3>2, <4>2 DEF PercentageIsShare
      <4> QED
        BY <4>1, <4>2
    <3> QED
      BY <3>3, <3>4
  <2> QED
    BY <2>3, <2>4, <2>5, <2>6, <2>7, <2>8, <2>9, <2>10, <2>11, <2>12, <2>13,
       <2>14, <2>15, <2>16, <2>17, <2>18, <2>19, <2>20 DEF Next, library, Fields
<1> QED
  BY <1>1, <1>2, TypeCorrect, FaultsExplained, PTL DEF Spec
=============================================================================
