-------------------------- MODULE PhysicalCpuCount --------------------------
(***************************************************************************)
(* physical_cpu_count of pslib_linux.c with int_comp of common.c, as       *)
(* cpu_count(false) calls it.                                              *)
(*                                                                         *)
(* The function counts the different values on the "physical id" lines of  *)
(* /proc/cpuinfo.  It remembers those it has met in ids, an array of longs *)
(* filled with -1, by storing through cid, which never moves, and looks    *)
(* them up with lfind among the first s objects of the size of an int.     *)
(* Here ids is seen as lfind sees it: a long is two ints, low word first,  *)
(* and the high word of an id that is stored is 0.                         *)
(***************************************************************************)
EXTENDS Integers, FiniteSets

CONSTANTS
  Package,    \* the physical ids that the machine may have
  MaxLines,   \* the most lines with one
  s,          \* ints that lfind looks at: 100
  UINT_MAX    \* 2^32 - 1, scaled down for TLC

ASSUME PackageAssumption == Package \subseteq Nat
ASSUME LinesAssumption == MaxLines \in Nat
ASSUME SizeAssumption == s \in Nat /\ s >= 2
ASSUME WidthAssumption == UINT_MAX \in Nat /\ UINT_MAX > MaxLines

VARIABLES
  cpuinfo,   \* the physical id of each line
  lines,     \* how many there are
  pos,       \* lines read
  ids,
  nprocs,
  ret        \* what cpu_count returns, a uint32_t; -1 before it does

vars == <<cpuinfo, lines, pos, ids, nprocs, ret>>

\* Fault: cleared instead of filled with -1
ZeroedIds == [k \in 1 .. s |-> 0]

\* memset(&ids, -1, ...)
NoIds == [k \in 1 .. s |-> -1]

\* Fault: the count starts at one
InitFromOne ==
  /\ lines \in 0 .. MaxLines
  /\ cpuinfo \in [1 .. lines -> Package]
  /\ pos = 0
  /\ ids = NoIds
  /\ nprocs = 1
  /\ ret = -1

Init ==
  /\ lines \in 0 .. MaxLines
  /\ cpuinfo \in [1 .. lines -> Package]
  /\ pos = 0
  /\ ids = NoIds
  /\ nprocs = 0
  /\ ret = -1

\* lfind with int_comp
Found(id) == \E k \in 1 .. s : ids[k] = id

\* Fault: the high word is not cleared
StoreInt(id) == [ids EXCEPT ![1] = id]

\* *cid = id, with cid = ids
Store(id) == [ids EXCEPT ![1] = id, ![2] = 0]

\* One "physical id" line
ReadLine ==
  /\ ret = -1
  /\ pos < lines
  /\ pos' = pos + 1
  /\ LET id == cpuinfo[pos + 1]
     IN  \/ /\ Found(id)
            /\ UNCHANGED <<ids, nprocs>>
         \/ /\ ~Found(id)
            /\ ids' = Store(id)
            /\ nprocs' = nprocs + 1
  /\ UNCHANGED <<cpuinfo, lines, ret>>

Return ==
  /\ ret = -1
  /\ pos = lines
  /\ ret' = nprocs
  /\ UNCHANGED <<cpuinfo, lines, pos, ids, nprocs>>

\* The file cannot be opened or the line buffer not allocated: -1, which the
\* return type of cpu_count turns into the largest count there is
Unavailable ==
  /\ ret = -1
  /\ pos = 0
  /\ ret' = UINT_MAX
  /\ UNCHANGED <<cpuinfo, lines, pos, ids, nprocs>>

Next == ReadLine \/ Return \/ Unavailable

Spec == Init /\ [][Next]_vars
-----------------------------------------------------------------------------
Seen == {cpuinfo[j] : j \in 1 .. pos}
Ascending == \A i, j \in 1 .. pos : i <= j => cpuinfo[i] <= cpuinfo[j]

\* Every variable stays in its range: physical_cpu_count never counts more
\* packages than it has read lines.
TypeOK ==
  /\ lines \in 0 .. MaxLines
  /\ cpuinfo \in [1 .. lines -> Package]
  /\ pos \in 0 .. lines
  /\ ids \in [1 .. s -> Int]
  /\ nprocs \in 0 .. pos
  /\ ret \in {-1, UINT_MAX} \cup 0 .. lines

\* If the packages are numbered along with the CPUs, each is counted once.
AscendingExact == Ascending => nprocs = Cardinality(Seen)

\* Nothing but a package 0 that does not come first is missed.
NoneMissed ==
  /\ nprocs >= Cardinality(Seen \ {0})
  /\ pos > 0 /\ cpuinfo[1] = 0 => nprocs >= Cardinality(Seen)

\* However the lines of two packages alternate, neither is counted twice if
\* one of them is 0: once it has been stored, its high word answers for 0.
PairNotRepeated ==
  Cardinality(Seen \ {0}) <= 1 => nprocs <= Cardinality(Seen)

\* What the count may be off by, in whatever order the packages appear: it is
\* never short of a package other than 0, nor of 0 if that comes first, and is
\* too high only if two packages other than 0 were met.
CountBounds == NoneMissed /\ PairNotRepeated

\* What ids says of the packages seen: it holds one of them, the last one if
\* they ascend, the only one but 0 if there is just one.
IdsInv ==
  /\ IsFiniteSet(Seen)
  /\ nprocs = 0 => pos = 0 /\ ids = NoIds
  /\ nprocs > 0 => /\ ids[1] \in Seen /\ ids[2] = 0
                   /\ \A k \in 3 .. s : ids[k] = -1
  /\ Ascending /\ pos > 0 => ids[1] = cpuinfo[pos]
  /\ Cardinality(Seen \ {0}) <= 1 => \A x \in Seen \ {0} : ids[1] = x

CountInv ==
  TypeOK /\ IdsInv /\ AscendingExact /\ CountBounds

\* cpu_count(false), which tells the number of packages (README.md: "Returns
\* number of physical CPUs"), counts none more than once.
NoneRepeated ==
  ret \in 0 .. lines => ret <= Cardinality({cpuinfo[j] : j \in 1 .. lines})
=============================================================================
