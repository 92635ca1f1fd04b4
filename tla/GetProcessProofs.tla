-------------------------- MODULE GetProcessProofs --------------------------
(***************************************************************************)
(* What GetProcess guarantees for any number of processes that get the     *)
(* pid, lengths of links, sizes of the first buffer, calls and failures.   *)
(***************************************************************************)
EXTENDS GetProcess, TLAPS

\* The place of a state, and of the field read in it, in the order of the code
Place(q) ==
  CASE q = "ppid" -> 1
    [] q = "name" -> 2
    [] q \in {"exe", "lstat"} -> 3
    [] q = "cmdline" -> 4
    [] q = "create_time" -> 5
    [] q = "uids" -> 6
    [] q = "username" -> 7
    [] q = "gids" -> 8
    [] q = "terminal" -> 9
    [] OTHER -> 10

Within == Field \cup {"lstat", "return", "done"}

\* The fields that have been read
Read(f) == pc \in Within /\ Place(f) < Place(pc)

\* One stream at a time, and a buffer only for a link
Streams ==
  /\ state # "gone" => inc > 0
  /\ fp # 0 => platform = "linux" /\ pc \in FileField
  /\ files = IF fp = 0 THEN 0 ELSE 1
  /\ bufsize # 0 => platform = "linux" /\ pc \in LinkField
  /\ pc = "lstat" => platform = "linux"
  /\ pc \in Within => \A f \in Field : ~Read(f) => ret[f] = 0

\* What may be left of a finished or of the current call
Left(b) ==
  IF platform = "linux"
    THEN b[2] \in LinkField /\ (b[1] = calls => failures > 0)
    ELSE /\ b[2] \in {"lost uids", "lost gids", "lost cmdline"}
         /\ b[1] = calls /\ b[2] # "lost cmdline" =>
              ~steady \/ state = "gone" \/ failures > 0

\* The link buffer that is growing
Growing(b) ==
  /\ platform = "linux"
  /\ \/ pc \in LinkField /\ b = Block(pc)
     \/ pc = "lstat" /\ b = Block("exe")

Accounted(b) ==
  /\ b[1] <= calls
  /\ \/ pc = "crashed"
     \/ Left(b)
     \/ /\ pc \in Within
        /\ \/ b \in Owned
           \/ pc # "done" /\ b \in {Block("uids"), Block("gids")}
           \/ Growing(b)

HeapInv ==
  /\ "bad_free" \notin faults
  /\ \A b \in heap : Accounted(b)
  /\ pc \in Within => Owned \subseteq heap
  /\ pc = "lstat" => Block("exe") \in heap

\* The fields of a process that has been the same since the call began
Complete(f) ==
  IF platform = "linux"
    THEN ret[f] = IF state = "gone" \/ (f = "terminal" /\ NoLink)
                                    \/ (f = "exe" /\ NoLink /\ ~Enoent)
                    THEN 0
                    ELSE IF spaced /\ f \in {"name", "create_time"}
                      THEN Misread ELSE inc
    ELSE /\ ret[f] \in {0, inc}
         /\ state = "gone" => ret[f] = 0
         /\ ret[f] = 0 => state = "gone" \/ f = "cmdline"
                            \/ (f = "exe" /\ ~(state = "running" /\ kind = "own"))

Undisturbed ==
  /\ pc # "crashed"
  /\ \A f \in Field : Read(f) => Complete(f)
  /\ fp # 0 => fp = inc /\ state # "gone"
  /\ bufsize # 0 => ~NoLink
  /\ pc = "lstat" => Enoent

SteadyInv == steady /\ failures = 0 /\ pc # "idle" => Undisturbed

\* Where such a call may write
Contained ==
  steady /\ failures = 0 =>
    /\ pc # "crashed"
    /\ platform = "linux" /\ state = "running" /\ kind # "kernel" => faults = {}
    /\ platform = "osx" /\ (state = "gone" \/ kind = "kernel") => faults = {}
    /\ platform = "osx" => faults \subseteq {"underwrite", "overrun"}

\* Nothing is read from an earlier process than something before it, nor from
\* one that is still to come; the ids and the username are never misread.
FieldOrder ==
  /\ fp <= inc
  /\ ret["uids"] # Misread /\ ret["username"] \in {0, ret["uids"]}
  /\ \A f \in Field :
       ret[f] # Misread =>
         /\ ret[f] <= inc
         /\ fp # 0 => ret[f] <= fp
         /\ \A g \in Field : Place(f) < Place(g) /\ ret[g] \in Incarnation =>
              ret[f] <= ret[g]

\* What has been read after a field of process i is of this process as well.
Whole(i) ==
  \A f \in Field, g \in Common :
    Read(g) /\ Place(f) < Place(g) /\ ret[f] = i => ret[g] \in {i, Misread}

Together ==
  failures = 0 =>
    /\ state # "gone" => Whole(inc)
    /\ fp # 0 => Whole(fp)
    /\ \A f, h \in Field, g \in Common :
         /\ Place(f) < Place(g) /\ Place(g) < Place(h)
         /\ ret[f] \in Incarnation /\ ret[f] = ret[h]
         => ret[g] \in {ret[f], Misread}

\* A call in which nothing fails dies in two places only.
Deaths ==
  /\ pc # "crashed" => faults \subseteq {"underwrite", "overrun", "bad_free"}
  /\ failures = 0 /\ pc = "crashed" =>
       /\ ~steady
       /\ \/ "gids" \in faults /\ ret["uids"] # 0 /\ ~Alive(ret["uids"])
          \/ "gids" \notin faults /\ platform = "linux" /\ "atof" \in faults
-----------------------------------------------------------------------------
\* get_process reads its fields one after the other.
LEMMA Order ==
  /\ \A f \in Field : /\ Place(f) \in 1 .. 9
                      /\ After(f) \in (Field \ {"ppid"}) \cup {"return"}
                      /\ Place(After(f)) = Place(f) + 1
  /\ Place("return") = 10 /\ Place("done") = 10 /\ Place("lstat") = 3
  /\ \A f, g \in Field : Place(f) = Place(g) => f = g
<1>1. /\ Place("ppid") = 1 /\ Place("name") = 2 /\ Place("exe") = 3
      /\ Place("cmdline") = 4 /\ Place("create_time") = 5 /\ Place("uids") = 6
      /\ Place("username") = 7 /\ Place("gids") = 8 /\ Place("terminal") = 9
      /\ Place("return") = 10 /\ Place("done") = 10 /\ Place("lstat") = 3
  BY DEF Place
<1>2. /\ After("ppid") = "name" /\ After("name") = "exe"
      /\ After("exe") = "cmdline" /\ After("cmdline") = "create_time"
      /\ After("create_time") = "uids" /\ After("uids") = "username"
      /\ After("username") = "gids" /\ After("gids") = "terminal"
      /\ After("terminal") = "return"
  BY DEF After
<1>3. \A f \in Field : /\ Place(f) \in 1 .. 9
                       /\ After(f) \in (Field \ {"ppid"}) \cup {"return"}
                       /\ Place(After(f)) = Place(f) + 1
  BY <1>1, <1>2 DEF Field
<1>4. \A f, g \in Field : Place(f) = Place(g) => f = g
  BY <1>1 DEF Field
<1> QED
  BY <1>1, <1>3, <1>4

\* A step that reads field f changes this field of ret only, and f is the only
\* field that has been read after it and not before.
LEMMA GotReads ==
  ASSUME NEW f \in Field, NEW v, Got(f, v),
         pc = f \/ (pc = "lstat" /\ f = "exe"),
         DOMAIN ret = Field
  PROVE  /\ pc' \in (Field \ {"ppid"}) \cup {"return"}
         /\ pc' = After(f)
         /\ ~Read(f) /\ Read(f)'
         /\ \A g \in Field \ {f} : Read(g)' <=> Read(g)
         /\ ret'[f] = v
         /\ \A g \in Field \ {f} : ret'[g] = ret[g]
<1>1. /\ pc \in Within /\ Place(pc) = Place(f)
      /\ pc' = After(f) /\ pc' \in (Field \ {"ppid"}) \cup {"return"}
      /\ pc' \in Within /\ Place(pc') = Place(f) + 1
  <2>1. pc \in Within
    BY DEF Within
  <2>2. Place(pc) = Place(f)
    <3>1. CASE pc = f
      BY <3>1
    <3>2. CASE pc = "lstat" /\ f = "exe"
      BY <3>2 DEF Place
    <3> QED
      BY <3>1, <3>2
  <2>3. /\ pc' = After(f)
        /\ After(f) \in (Field \ {"ppid"}) \cup {"return"}
        /\ Place(After(f)) = Place(f) + 1
    BY Order DEF Got
  <2>4. pc' \in Within
    BY <2>3 DEF Within
  <2> QED
    BY <2>1, <2>2, <2>3, <2>4
<1>2. \A g \in Field : Place(g) \in Int /\ (Place(g) = Place(f) => g = f)
  BY Order
<1>3. /\ \A g \in Field : Read(g) <=> Place(g) < Place(f)
      /\ \A g \in Field : Read(g)' <=> Place(g) < Place(f) + 1
  <2>1. \A g \in Field : Read(g) <=> Place(g) < Place(f)
    BY <1>1 DEF Read
  <2>2. \A g \in Field : Read(g)' <=> Place(g) < Place(pc')
    BY <1>1 DEF Read
  <2> QED
    BY <2>1, <2>2, <1>1
<1>4. ret' = [ret EXCEPT ![f] = v]
  BY DEF Got
<1> QED
  BY <1>1, <1>2, <1>3, <1>4
-----------------------------------------------------------------------------
Value == (0 .. MaxIncarnations) \cup {Misread}
Faults == {"retval", "uids", "gids", "terminal", "atof", "underwrite", "overrun",
           "bad_free"}
BlockName == Field \cup {"process", "lost uids", "lost gids", "lost cmdline"}

\* Every variable of get_process stays in its range, and one stream is open
\* while a field is being read from a file and none otherwise, for any number
\* of processes, calls and failures.
THEOREM TypeCorrect == Spec => [](TypeOK /\ Streams)
<1>1. Init => TypeOK /\ Streams
  <2> SUFFICES ASSUME Init PROVE TypeOK /\ Streams
    OBVIOUS
  <2>1. ret \in [Field -> (0 .. MaxIncarnations) \cup {Misread}]
    BY IncarnationAssumption DEF Init, Nothing
  <2>2. link \in (0 .. PathMax) \X (0 .. PathMax)
    BY LinkAssumption DEF Init
  <2>3. /\ inc \in 0 .. MaxIncarnations /\ fp \in 0 .. MaxIncarnations
        /\ linklen \in 0 .. PathMax
    BY LinkAssumption, IncarnationAssumption DEF Init
  <2>4. /\ platform \in {"linux", "osx"}
        /\ state \in {"running", "zombie", "gone"}
        /\ kind \in {"own", "other", "kernel"}
        /\ spaced \in BOOLEAN /\ steady \in BOOLEAN
        /\ pc \in Field \cup {"idle", "lstat", "return", "done", "crashed"}
        /\ files \in Nat /\ bufsize \in Nat /\ calls \in Nat /\ failures \in Nat
    BY DEF Init
  <2>5. heap = {} /\ faults = {}
    BY DEF Init
  <2>6. TypeOK
    BY <2>1, <2>2, <2>3, <2>4, <2>5, Zenon DEF TypeOK
  <2>7. Streams
    BY DEF Init, Streams, Within, Field
  <2> QED
    BY <2>6, <2>7
<1>2. TypeOK /\ Streams /\ [Next]_vars => TypeOK' /\ Streams'
  <2> SUFFICES ASSUME TypeOK, Streams, [Next]_vars
               PROVE  TypeOK' /\ Streams'
    OBVIOUS
  <2> USE LinkAssumption, IncarnationAssumption
  <2>n. /\ inc \in 0 .. MaxIncarnations /\ fp \in 0 .. MaxIncarnations
        /\ linklen \in 0 .. PathMax /\ spaced \in BOOLEAN /\ steady \in BOOLEAN
        /\ state \in {"running", "zombie", "gone"}
        /\ kind \in {"own", "other", "kernel"}
        /\ files \in Nat /\ bufsize \in Nat /\ calls \in Nat /\ failures \in Nat
    BY DEF TypeOK
  <2>0. /\ DOMAIN ret = Field /\ ret \in [Field -> Value]
        /\ inc \in Value /\ fp \in Value /\ 0 \in Value /\ Misread \in Value
    <3>1. ret \in [Field -> Value]
      BY DEF TypeOK, Value
    <3>2. inc \in Value /\ fp \in Value /\ 0 \in Value
      BY <2>n DEF Value
    <3> QED
      BY <3>1, <3>2 DEF Value
  <2>1. /\ \A n \in BlockName : heap \cup {Block(n)} \subseteq Nat \X BlockName
        /\ \A S : heap \ S \subseteq Nat \X BlockName
        /\ heap \subseteq Nat \X BlockName
    <3>1. calls \in Nat /\ heap \subseteq Nat \X BlockName
      BY DEF TypeOK, BlockName
    <3> QED
      BY <3>1 DEF Block
  <2>2. ASSUME NEW f \in Field, NEW v \in Value, Got(f, v),
               pc = f \/ (pc = "lstat" /\ f = "exe")
        PROVE  /\ pc' \in (Field \ {"ppid"}) \cup {"return"}
               /\ ret' \in [Field -> Value]
               /\ \A g \in Field : ~Read(g)' => ret'[g] = 0
    <3>1. pc \in Within
      BY <2>2 DEF Within
    <3> QED
      <4>1. ret' \in [Field -> Value]
        BY <2>0, <2>2 DEF Got
      <4>2. /\ pc' \in (Field \ {"ppid"}) \cup {"return"}
            /\ Read(f)'
            /\ \A g \in Field \ {f} : (Read(g)' <=> Read(g)) /\ ret'[g] = ret[g]
        BY <2>0, <2>2, GotReads
      <4>3. \A g \in Field : ~Read(g) => ret[g] = 0
        BY <3>1 DEF Streams
      <4> QED
        BY <4>1, <4>2, <4>3
  <2>3. CASE system
    <3>1. /\ UNCHANGED code
          /\ inc' \in 0 .. MaxIncarnations
          /\ state' \in {"running", "zombie", "gone"}
          /\ state' # "gone" => inc' > 0
          /\ kind' \in {"own", "other", "kernel"}
          /\ linklen' \in 0 .. PathMax /\ spaced' \in BOOLEAN
          /\ steady' \in BOOLEAN
      <4>1. CASE \E k \in {"own", "other", "kernel"}, n \in {0} \cup Links, s \in BOOLEAN :
                   Spawn(k, n, s)
        <5> PICK k \in {"own", "other", "kernel"}, n \in {0} \cup Links, s \in BOOLEAN :
                   Spawn(k, n, s)
          BY <4>1
        <5>1. /\ inc' = inc + 1 /\ inc < MaxIncarnations /\ state' = "running"
              /\ kind' = k /\ linklen' = n /\ spaced' = s /\ steady' = FALSE
              /\ UNCHANGED code
          BY DEF Spawn
        <5>2. n \in 0 .. PathMax
          BY DEF Links
        <5>3. inc' \in 0 .. MaxIncarnations /\ inc' > 0
          BY <2>n, <5>1
        <5> QED
          BY <5>1, <5>2, <5>3
      <4>2. CASE \E n \in Links : Relink(n)
        BY <2>n, <4>2 DEF Relink, Streams, Links
      <4>3. CASE Exit \/ Reap
        <5>1. 0 \in 0 .. PathMax
          OBVIOUS
        <5> QED
          BY <2>n, <4>3, <5>1 DEF Exit, Reap, Streams
      <4> QED
        BY <2>3, <4>1, <4>2, <4>3 DEF system
    <3>2. TypeOK'
      BY <3>1 DEF TypeOK, code
    <3>3. Streams'
      BY <3>1 DEF Streams, Read, code
    <3> QED
      BY <3>2, <3>3
  <2>h. /\ {} \subseteq Field /\ FileField \subseteq Field /\ LinkField \subseteq Field
        /\ KinfoField \subseteq Field /\ Field \subseteq BlockName
        /\ "process" \in BlockName
        /\ FileField \cap LinkField = {}
    BY DEF FileField, LinkField, KinfoField, Field, BlockName
  <2>k. /\ link \in (0 .. PathMax) \X (0 .. PathMax)
        /\ faults \subseteq Faults
        /\ pc \in Field => pc \in Within
    BY DEF TypeOK, Faults, Within
  <2>s. /\ fp # 0 => platform = "linux" /\ pc \in FileField
        /\ files = IF fp = 0 THEN 0 ELSE 1
        /\ bufsize # 0 => platform = "linux" /\ pc \in LinkField
        /\ pc = "lstat" => platform = "linux"
        /\ state # "gone" => inc > 0
    BY DEF Streams
  \* A step that leaves the machine alone
  <2>t. ASSUME UNCHANGED process, steady' \in BOOLEAN, calls' \in Nat, failures' \in Nat,
               pc' \in Field \cup {"idle", "lstat", "return", "done", "crashed"},
               ret' \in [Field -> Value], bufsize' \in Nat,
               heap' \subseteq Nat \X BlockName,
               link' \in (0 .. PathMax) \X (0 .. PathMax),
               fp' \in 0 .. MaxIncarnations, files' \in Nat,
               faults' \subseteq Faults
        PROVE  TypeOK'
    <3>2. /\ platform' = platform /\ inc' = inc /\ state' = state /\ kind' = kind
          /\ linklen' = linklen /\ spaced' = spaced
      BY <2>t DEF process
    <3> QED
      BY <2>t, <3>2, Zenon DEF TypeOK, Value, BlockName, Misread, Faults
  \* A step that reads a field and leaves the machine alone
  <2>g. ASSUME NEW f \in Field, NEW v \in Value, Got(f, v),
               pc = f \/ (pc = "lstat" /\ f = "exe"),
               UNCHANGED process, UNCHANGED calls, failures' \in Nat,
               UNCHANGED steady, bufsize' = 0, heap' \subseteq Nat \X BlockName,
               link' \in (0 .. PathMax) \X (0 .. PathMax),
               fp' = 0, files' = 0,
               faults' \subseteq Faults
        PROVE  TypeOK' /\ Streams'
    <3>1. /\ pc' \in (Field \ {"ppid"}) \cup {"return"}
          /\ ret' \in [Field -> Value]
          /\ \A g \in Field : ~Read(g)' => ret'[g] = 0
      BY <2>g, <2>2
    <3>2. /\ pc' \in Field \cup {"idle", "lstat", "return", "done", "crashed"}
          /\ pc' # "lstat"
      BY <3>1 DEF Field
    <3>3. TypeOK'
      BY <2>g, <2>t, <2>n, <3>1, <3>2
    <3>4. Streams'
      BY <2>g, <3>1, <3>2 DEF Streams, process
    <3> QED
      BY <3>3, <3>4
  \* A step that dies
  <2>c. ASSUME NEW x \in {"retval", "uids", "gids", "terminal", "atof"}, Crash(x),
               UNCHANGED process, UNCHANGED calls, failures' \in Nat,
               UNCHANGED steady, bufsize' = 0, heap' \subseteq Nat \X BlockName,
               link' \in (0 .. PathMax) \X (0 .. PathMax),
               fp' = 0, files' = 0
        PROVE  TypeOK' /\ Streams'
    <3>1. /\ pc' = "crashed" /\ ret' = ret
          /\ faults' \subseteq Faults
      BY <2>c, <2>k DEF Crash, Faults
    <3>2. TypeOK'
      BY <2>c, <2>t, <2>n, <2>0, <3>1
    <3>3. Streams'
      BY <2>c, <3>1, <2>s DEF Streams, process, Within, Field
    <3> QED
      BY <3>2, <3>3
  <2>4. CASE Call
    <3>1. /\ ret' \in [Field -> Value] /\ \A g \in Field : ret'[g] = 0
      BY <2>4, <2>0 DEF Call, Nothing
    <3>2. heap' \subseteq Nat \X BlockName
      BY <2>4, <2>1, <2>h, <2>n DEF Call
    <3>3. /\ UNCHANGED <<process, fp, files, bufsize, link>>
          /\ pc = "idle" /\ pc' \in {"ppid", "crashed"}
          /\ steady' = TRUE /\ calls' \in Nat /\ failures' \in Nat
          /\ faults' \subseteq {"retval"}
      BY <2>4, <2>n DEF Call, Fail
    <3>4. pc' \in Field \cup {"crashed"} /\ pc' # "lstat" /\ fp = 0 /\ bufsize = 0
      BY <3>3, <2>s DEF Field, FileField, LinkField
    <3>5. TypeOK'
      BY <2>t, <2>k, <2>n, <3>1, <3>2, <3>3, <3>4 DEF Faults
    <3>6. Streams'
      BY <2>s, <3>1, <3>3, <3>4 DEF Streams, process
    <3> QED
      BY <3>5, <3>6
  <2>5. ASSUME NEW f \in FileField, OpenFile(f)
        PROVE  TypeOK' /\ Streams'
    <3>1. /\ UNCHANGED <<process, pc, ret, faults, bufsize, calls, failures,
                         steady, link, heap>>
          /\ fp' = inc /\ files' = 1 /\ pc = f /\ inc > 0 /\ platform = "linux"
      BY <2>5, <2>n, <2>s DEF OpenFile
    <3>2. TypeOK'
      BY <2>t, <2>k, <2>n, <2>h, <2>0, <2>1, <3>1
    <3>3. \A g \in Field : Read(g)' = Read(g)
      BY <3>1 DEF Read
    <3> QED
      BY <2>5, <3>1, <3>2, <3>3 DEF Streams, process
  <2>6. ASSUME NEW f \in FileField, OpenFails(f)
        PROVE  TypeOK' /\ Streams'
    <3>0. /\ UNCHANGED <<process, fp, files, bufsize, link, heap, calls, steady>>
          /\ pc = f /\ fp = 0 /\ failures' \in Nat /\ bufsize = 0 /\ files = 0
      BY <2>6, <2>h, <2>n, <2>s DEF OpenFails, Fail
    <3>1. CASE Got(f, 0) /\ UNCHANGED faults
      BY <3>0, <3>1, <2>0, <2>1, <2>g, <2>h, <2>k
    <3>2. CASE Crash("gids")
      BY <3>0, <3>2, <2>1, <2>c, <2>k
    <3> QED
      BY <2>6, <3>1, <3>2 DEF OpenFails, GidsMissing
  <2>7. ASSUME NEW f \in FileField, ReadFile(f)
        PROVE  TypeOK' /\ Streams'
    <3>1. /\ UNCHANGED <<process, bufsize, link, faults, calls, failures, steady>>
          /\ pc = f /\ fp # 0 /\ fp' = 0 /\ files' = 0 /\ bufsize = 0
      BY <2>7, <2>h, <2>n, <2>s DEF ReadFile, Close
    <3>2. heap' \subseteq Nat \X BlockName
      BY <2>7, <2>1, <2>h DEF ReadFile
    <3>3. PICK v \in Value : Got(f, v)
      BY <2>7, <2>0 DEF ReadFile, Parsed
    <3> QED
      BY <2>g, <2>h, <2>k, <2>n, <3>1, <3>2, <3>3
  <2>8. ASSUME NEW f \in FileField, ReadFails(f)
        PROVE  TypeOK' /\ Streams'
    <3>1. /\ UNCHANGED <<process, bufsize, link, heap, calls, steady>>
          /\ pc = f /\ fp # 0 /\ fp' = 0 /\ files' = 0 /\ bufsize = 0
          /\ failures' \in Nat
      BY <2>8, <2>h, <2>n, <2>s DEF ReadFails, Close, Fail
    <3>2. (\E x \in {"gids", "atof"} : Crash(x)) \/ (Got(f, 0) /\ UNCHANGED faults)
      BY <2>8 DEF ReadFails, GidsMissing
    <3> QED
      BY <2>0, <2>1, <2>c, <2>g, <2>h, <2>k, <3>1, <3>2
  <2>9. CASE ReadCmdline
    <3>1. /\ UNCHANGED <<process, bufsize, link, calls, failures, steady>>
          /\ pc = "cmdline" /\ fp # 0 /\ fp' = 0 /\ files' = 0 /\ bufsize = 0
          /\ Got("cmdline", fp)
          /\ faults' \subseteq faults \cup {"underwrite"}
      BY <2>9, <2>n, <2>s DEF ReadCmdline, Close, clean_cmdline, LinkField
    <3>2. heap' \subseteq Nat \X BlockName /\ "cmdline" \in Field
      BY <2>9, <2>1 DEF ReadCmdline, BlockName, Field
    <3>3. faults' \subseteq Faults
      BY <2>k, <3>1 DEF Faults
    <3> QED
      BY <2>0, <2>g, <2>k, <2>n, <3>1, <3>2, <3>3
  <2>10. CASE Username
    <3>1. /\ UNCHANGED <<process, fp, files, bufsize, link, faults, calls, steady>>
          /\ pc = "username" /\ fp = 0 /\ files = 0 /\ bufsize = 0
          /\ Got("username", ret["uids"]) \/ Got("username", 0)
          /\ failures' \in Nat
      BY <2>10, <2>n, <2>s DEF Username, Fail, FileField, LinkField
    <3>2. heap' \subseteq Nat \X BlockName /\ "username" \in Field /\ "uids" \in Field
      BY <2>10, <2>1 DEF Username, BlockName, Field
    <3> QED
      BY <2>0, <2>g, <2>k, <3>1, <3>2
  <2>f. \A f \in LinkField : pc = f => fp = 0 /\ files = 0 /\ f \in Field /\ f # "lstat"
    BY <2>h, <2>s DEF Field
  <2>11. ASSUME NEW f \in LinkField, ReadLink(f)
        PROVE  TypeOK' /\ Streams'
    <3> DEFINE size == NextSize
               n == IF linklen < size - 1 THEN linklen ELSE size - 1
    <3>1. size \in Nat /\ size > 1 /\ n \in 0 .. PathMax
      BY <2>n DEF NextSize
    <3>2. /\ UNCHANGED <<process, fp, files, faults, calls, failures, steady>>
          /\ pc = f /\ platform = "linux"
          /\ \/ bufsize' = size /\ UNCHANGED <<pc, ret, link>>
             \/ bufsize' = 0 /\ link' = <<n, linklen>> /\ Got(f, inc)
      BY <2>11 DEF ReadLink
    <3>3. heap' \subseteq Nat \X BlockName
      BY <2>1, <2>11, <2>h DEF ReadLink
    <3> HIDE DEF size, n
    <3>4. CASE bufsize' = size /\ UNCHANGED <<pc, ret, link>>
      <4>1. TypeOK'
        BY <2>0, <2>f, <2>k, <2>n, <2>t, <3>1, <3>2, <3>3, <3>4
      <4>2. \A g \in Field : Read(g)' = Read(g)
        BY <3>4 DEF Read
      <4> QED
        BY <2>f, <3>2, <3>4, <4>1, <4>2 DEF Streams, process
    <3>5. CASE bufsize' = 0 /\ link' = <<n, linklen>> /\ Got(f, inc)
      <4>1. link' \in (0 .. PathMax) \X (0 .. PathMax)
        BY <2>n, <3>1, <3>5
      <4> QED
        BY <2>0, <2>f, <2>g, <2>k, <2>n, <3>2, <3>3, <3>5, <4>1
    <3> QED
      BY <3>2, <3>4, <3>5
  <2>12. ASSUME NEW f \in LinkField, ReadLinkFails(f) \/ LinkAllocFails(f)
        PROVE  TypeOK' /\ Streams'
    <3>1. /\ UNCHANGED <<process, fp, files, link, faults, calls, steady>>
          /\ pc = f /\ bufsize' = 0 /\ Got(f, 0) /\ failures' \in Nat
      BY <2>12, <2>n DEF ReadLinkFails, LinkAllocFails, Fail
    <3>2. heap' \subseteq Nat \X BlockName
      BY <2>1, <2>12, <2>h DEF ReadLinkFails, LinkAllocFails
    <3> QED
      BY <2>0, <2>f, <2>g, <2>k, <3>1, <3>2
  <2>13. CASE MaybeNoExe
    <3>1. /\ UNCHANGED <<process, fp, files, bufsize, ret, link, faults, calls,
                         failures, steady>>
          /\ pc = "exe" /\ pc' = "lstat" /\ bufsize = 0 /\ platform = "linux"
      BY <2>13 DEF MaybeNoExe
    <3>2. heap' \subseteq Nat \X BlockName /\ "exe" \in LinkField
      BY <2>1, <2>13 DEF MaybeNoExe, BlockName, LinkField, Field
    <3>3. TypeOK'
      BY <2>0, <2>f, <2>k, <2>n, <2>t, <3>1, <3>2
    <3>4. \A g \in Field : ~Read(g)' => ~Read(g)
      <4>1. Place("exe") = 3 /\ Place("lstat") = 3 /\ {"exe", "lstat"} \subseteq Within
        BY DEF Place, Within, Field
      <4> QED
        BY <3>1, <4>1 DEF Read
    <3> QED
      BY <2>f, <2>k, <3>1, <3>2, <3>3, <3>4 DEF Streams, process
  <2>14. CASE Lstat
    <3>1. /\ UNCHANGED <<process, fp, files, bufsize, link, faults, calls,
                         failures, steady>>
          /\ pc = "lstat" /\ fp = 0 /\ files = 0 /\ bufsize = 0 /\ "exe" \in Field
          /\ Got("exe", 0) \/ Got("exe", inc)
      BY <2>14, <2>s DEF Lstat, FileField, LinkField, Field
    <3>2. heap' \subseteq Nat \X BlockName
      BY <2>1, <2>14 DEF Lstat
    <3> QED
      BY <2>0, <2>g, <2>k, <2>n, <3>1, <3>2
  <2>o. platform = "osx" => fp = 0 /\ files = 0
    BY <2>s
  <2>15. ASSUME NEW f \in KinfoField, Kinfo(f)
         PROVE  TypeOK' /\ Streams'
    <3>1. /\ UNCHANGED <<process, fp, files, bufsize, link, calls, failures, steady>>
          /\ pc = f /\ fp = 0 /\ files = 0 /\ bufsize = 0
          /\ Got(f, 0) \/ Got(f, inc)
      BY <2>15, <2>s DEF Kinfo
    <3>2. heap' \subseteq Nat \X BlockName
      BY <2>1, <2>15, <2>h DEF Kinfo
    <3>3. faults' \subseteq Faults
      BY <2>15, <2>k DEF Kinfo, Faults
    <3> QED
      BY <2>0, <2>g, <2>h, <2>k, <2>n, <3>1, <3>2, <3>3
  <2>16. ASSUME NEW f \in KinfoField, KinfoFails(f)
         PROVE  TypeOK' /\ Streams'
    <3>1. /\ UNCHANGED <<process, fp, files, bufsize, link, calls, steady>>
          /\ pc = f /\ fp = 0 /\ files = 0 /\ bufsize = 0 /\ failures' \in Nat
      BY <2>16, <2>n, <2>s DEF KinfoFails, Fail
    <3>2. heap' \subseteq Nat \X BlockName
      <4>1. f \in {"uids", "gids"} => heap' = heap \cup {Lost(f)}
        BY <2>16 DEF KinfoFails
      <4>2. /\ Lost("uids") = Block("lost uids") /\ Lost("gids") = Block("lost gids")
            /\ {"lost uids", "lost gids"} \subseteq BlockName
        BY DEF Lost, BlockName
      <4>3. f \notin {"uids", "gids"} => heap' = heap
        BY <2>16 DEF KinfoFails
      <4> QED
        BY <2>1, <4>1, <4>2, <4>3
    <3>3. Crash("gids") \/ (Got(f, 0) /\ UNCHANGED faults)
      BY <2>16 DEF KinfoFails, GidsMissing
    <3> QED
      BY <2>0, <2>c, <2>g, <2>h, <2>k, <3>1, <3>2, <3>3
  <2>17. ASSUME NEW f \in {"uids", "gids", "terminal"}, KinfoAllocFails(f)
         PROVE  TypeOK' /\ Streams'
    <3>1. /\ UNCHANGED <<process, fp, files, bufsize, link, heap, calls, steady>>
          /\ fp = 0 /\ files = 0 /\ bufsize = 0 /\ failures' \in Nat /\ Crash(f)
      BY <2>17, <2>n, <2>s DEF KinfoAllocFails, Fail
    <3> QED
      BY <2>1, <2>c, <2>k, <3>1
  <2>18. CASE PidPath \/ PidPathFails
    <3>1. /\ UNCHANGED <<process, fp, files, bufsize, link, faults, calls, steady>>
          /\ pc = "exe" /\ fp = 0 /\ files = 0 /\ bufsize = 0 /\ failures' \in Nat
          /\ Got("exe", 0) \/ Got("exe", inc)
      BY <2>18, <2>n, <2>s DEF PidPath, PidPathFails, Fail
    <3>2. heap' \subseteq Nat \X BlockName /\ "exe" \in Field
      BY <2>1, <2>18 DEF PidPath, PidPathFails, BlockName, Field
    <3> QED
      BY <2>0, <2>g, <2>k, <3>1, <3>2
  <2>19. ASSUME NEW args, Arguments(args)
         PROVE  TypeOK' /\ Streams'
    <3>1. /\ UNCHANGED <<process, fp, files, bufsize, link, calls, failures, steady>>
          /\ pc = "cmdline" /\ fp = 0 /\ files = 0 /\ bufsize = 0
          /\ Got("cmdline", 0) \/ Got("cmdline", inc)
      BY <2>19, <2>s DEF Arguments
    <3>2. heap' \subseteq Nat \X BlockName /\ "cmdline" \in Field
      <4>1. Lost("cmdline") = Block("lost cmdline")
        BY DEF Lost
      <4>2. heap' \in {heap, heap \cup {Block("lost cmdline")},
                       heap \cup {Block("cmdline")}}
        BY <2>19, <4>1 DEF Arguments
      <4> QED
        BY <2>1, <4>2 DEF BlockName, Field
    <3>3. faults' \subseteq faults \cup {"underwrite", "overrun"}
      BY <2>19 DEF Arguments
    <3>4. faults' \subseteq Faults
      BY <2>k, <3>3 DEF Faults
    <3> QED
      BY <2>0, <2>g, <2>k, <2>n, <3>1, <3>2, <3>4
  <2>20. CASE ArgumentsFail
    <3>1. /\ UNCHANGED <<process, fp, files, bufsize, link, heap, faults, calls, steady>>
          /\ pc = "cmdline" /\ fp = 0 /\ files = 0 /\ bufsize = 0 /\ failures' \in Nat
          /\ Got("cmdline", 0) /\ "cmdline" \in Field
      BY <2>20, <2>n, <2>s DEF ArgumentsFail, Fail, Field
    <3> QED
      BY <2>0, <2>1, <2>g, <2>k, <3>1
  <2>21. CASE Return \/ free_process
    <3>1. /\ UNCHANGED <<process, fp, files, bufsize, calls, failures, steady>>
          /\ pc \in {"return", "done"} /\ pc' \in {"done", "idle"}
          /\ pc' = "done" => pc = "return" /\ ret' = ret
          /\ ret' \in {ret, Nothing} /\ link' \in {link, <<0, 0>>}
          /\ fp = 0 /\ files = 0 /\ bufsize = 0
          /\ faults' \subseteq faults \cup {"bad_free"}
      BY <2>21, <2>s DEF Return, free_process, FileField, LinkField
    <3>8. /\ Nothing \in [Field -> Value]
          /\ <<0, 0>> \in (0 .. PathMax) \X (0 .. PathMax)
      BY <2>0 DEF Nothing
    <3>2. heap' \subseteq Nat \X BlockName
      BY <2>1, <2>21 DEF Return, free_process
    <3>3. TypeOK'
      BY <2>0, <2>k, <2>n, <2>t, <3>1, <3>2, <3>8 DEF Faults
    <3>4. pc' \in Within => \A g \in Field : ~Read(g)' => ~Read(g)
      <4>1. /\ {"return", "done"} \subseteq Within /\ "idle" \notin Within
            /\ Place("return") = Place("done")
        BY DEF Place, Within, Field
      <4> QED
        BY <3>1, <4>1 DEF Read
    <3>5. pc \in Within
      BY <3>1 DEF Within
    <3>6. pc' \in Within => \A g \in Field : ~Read(g)' => ret'[g] = 0
      <4>1. pc \in Within => \A g \in Field : ~Read(g) => ret[g] = 0
        BY DEF Streams
      <4>2. pc' \in Within => ret' = ret
        BY <3>1 DEF Within, Field
      <4> QED
        BY <3>4, <3>5, <4>1, <4>2
    <3>7. Streams'
      <4>1. /\ UNCHANGED <<state, inc, platform, fp, files, bufsize>>
            /\ pc' # "lstat" /\ fp = 0 /\ bufsize = 0
        BY <3>1 DEF process
      <4> QED
        BY <3>6, <4>1 DEF Streams
    <3> QED
      BY <3>3, <3>7
  <2>23. CASE UNCHANGED vars
    <3>1. TypeOK'
      BY <2>23 DEF vars, process, TypeOK
    <3>2. \A g \in Field : Read(g)' = Read(g)
      BY <2>23 DEF vars, Read
    <3>3. Streams'
      BY <2>23, <3>2 DEF vars, process, Streams
    <3> QED
      BY <3>1, <3>3
  <2> QED
    BY <2>3, <2>4, <2>5, <2>6, <2>7, <2>8, <2>9, <2>10, <2>11, <2>12, <2>13,
       <2>14, <2>15, <2>16, <2>17, <2>18, <2>19, <2>20, <2>21, <2>23
       DEF Next, get_process, osx
<1> QED
  BY <1>1, <1>2, PTL DEF Spec
-----------------------------------------------------------------------------
\* What belongs to the structure after a step that reads field f
LEMMA GotOwned ==
  ASSUME TypeOK, Streams, NEW f \in Field, NEW v, Got(f, v),
         pc = f \/ (pc = "lstat" /\ f = "exe"),
         UNCHANGED calls
  PROVE  /\ Block(f) \notin Owned
         /\ Owned' = Owned \cup (IF f \in Pointer /\ v # 0 THEN {Block(f)} ELSE {})
         /\ \A g : Block(g)' = Block(g)
<1>1. DOMAIN ret = Field
  BY DEF TypeOK
<1>2. /\ ret'[f] = v /\ ~Read(f)
      /\ \A g \in Field \ {f} : ret'[g] = ret[g]
  BY <1>1, GotReads
<1>3. pc \in Within
  BY DEF Within, Field
<1>4. ret[f] = 0
  BY <1>2, <1>3 DEF Streams
<1>5. /\ \A g : Block(g)' = Block(g)
      /\ \A g, h : Block(g) = Block(h) => g = h
  BY DEF Block
<1>6. Pointer \subseteq Field /\ "process" \notin Field
  BY DEF Pointer, Field
<1>7. Block(f) \notin Owned
  BY <1>4, <1>5, <1>6 DEF Owned
<1>8. Owned' = {Block("process")} \cup {Block(g) : g \in {h \in Pointer : ret'[h] # 0}}
  BY <1>5 DEF Owned
<1>9. {h \in Pointer : ret'[h] # 0}
        = {h \in Pointer : ret[h] # 0} \cup (IF f \in Pointer /\ v # 0 THEN {f} ELSE {})
  BY <1>2, <1>4, <1>6
<1>10. Owned' = Owned \cup (IF f \in Pointer /\ v # 0 THEN {Block(f)} ELSE {})
  BY <1>8, <1>9 DEF Owned
<1> QED
  BY <1>5, <1>7, <1>10

\* Every stream is closed, free_process frees only what is live, and what
\* outlives it is a link buffer lost on Linux, or lost ids or arguments on
\* OS X, for any number of calls.
THEOREM NothingKept == Spec => []AllReleased
<1>1. Init => HeapInv
  BY DEF Init, HeapInv, Within, Field
<1>2. TypeOK /\ Streams /\ TypeOK' /\ HeapInv /\ [Next]_vars => HeapInv'
  <2> SUFFICES ASSUME TypeOK, Streams, TypeOK', HeapInv, [Next]_vars
               PROVE  HeapInv'
    OBVIOUS
  <2>n. /\ calls \in Nat /\ failures \in Nat /\ platform \in {"linux", "osx"}
        /\ "bad_free" \notin faults
        /\ DOMAIN ret = Field
    BY DEF TypeOK, HeapInv
  <2>h. /\ FileField \subseteq Field /\ LinkField \subseteq Field
        /\ KinfoField \subseteq Field
        /\ FileField \cap LinkField = {}
        /\ \A f \in Field : f # "lstat" /\ f \in Within
        /\ "lstat" \in Within /\ "exe" \in LinkField
    BY DEF FileField, LinkField, KinfoField, Field, Within
  <2>a. ASSUME UNCHANGED process, UNCHANGED <<steady, calls>>,
               failures' \in Nat, failures' >= failures
        PROVE  \A b : Left(b) => Left(b)'
    <3>1. failures > 0 => failures' > 0
      BY <2>a, <2>n
    <3> QED
      BY <2>a, <3>1 DEF Left, process
  \* A step that reads a field, and allocates or frees no other block
  <2>g. ASSUME NEW f \in Field, NEW v, Got(f, v),
               pc = f \/ (pc = "lstat" /\ f = "exe"),
               UNCHANGED process, UNCHANGED <<steady, calls>>,
               failures' \in Nat, failures' >= failures,
               "bad_free" \notin faults',
               f \in Pointer /\ v # 0 => Block(f) \in heap',
               heap \ {Block(f)} \subseteq heap',
               \A b \in heap' : \/ b \in heap
                                \/ /\ b[1] = calls
                                   /\ \/ Left(b)'
                                      \/ b \in Owned'
                                      \/ b \in {Block("uids"), Block("gids")},
               \A b \in heap' : platform = "linux" /\ f \in LinkField /\ b = Block(f)
                                => b \in Owned' \/ Left(b)'
        PROVE  HeapInv'
    <3>1. /\ Block(f) \notin Owned
          /\ Owned' = Owned \cup (IF f \in Pointer /\ v # 0 THEN {Block(f)} ELSE {})
          /\ \A g : Block(g)' = Block(g)
      BY <2>g, GotOwned
    <3>2. pc' \in (Field \ {"ppid"}) \cup {"return"}
      BY <2>g, <2>n, GotReads
    <3>3. pc' \in Within /\ pc' # "done" /\ pc' # "lstat" /\ pc \in Within
      BY <2>g, <3>2 DEF Field, Within
    <3>4. Owned \subseteq heap
      BY <3>3 DEF HeapInv
    <3>5. Owned' \subseteq heap'
      BY <2>g, <3>1, <3>4
    <3>6. ASSUME NEW b \in heap' PROVE Accounted(b)'
      <4>1. CASE b \notin heap
        <5>1. b[1] <= calls /\ (Left(b)' \/ b \in Owned' \/ b \in {Block("uids"), Block("gids")})
          BY <2>g, <2>n, <4>1
        <5> QED
          BY <2>g, <3>1, <3>3, <5>1 DEF Accounted
      <4>2. CASE b \in heap
        <5>1. Accounted(b)
          BY <4>2 DEF HeapInv
        <5>2. CASE Left(b)
          BY <2>a, <2>g, <5>1, <5>2 DEF Accounted
        <5>3. CASE b \in Owned \/ b \in {Block("uids"), Block("gids")}
          BY <2>g, <3>1, <3>3, <5>1, <5>3 DEF Accounted
        <5>4. CASE Growing(b)
          <6>1. b = Block(f) /\ platform = "linux" /\ f \in LinkField
            BY <2>g, <2>h, <5>4 DEF Growing
          <6> QED
            BY <2>g, <3>3, <5>1, <6>1 DEF Accounted
        <5> QED
          BY <3>3, <5>1, <5>2, <5>3, <5>4 DEF Accounted, Within, Field
      <4> QED
        BY <4>1, <4>2
    <3> QED
      BY <2>g, <3>3, <3>5, <3>6 DEF HeapInv
  <2>3. CASE system
    <3>1. UNCHANGED code
      BY <2>3 DEF system, Spawn, Relink, Exit, Reap
    <3>2. \A b : Left(b) => Left(b)'
      <4>1. CASE steady' = FALSE
        BY <3>1, <4>1 DEF Left, code
      <4>2. CASE UNCHANGED <<state, steady>>
        BY <3>1, <4>2 DEF Left, code
      <4> QED
        BY <2>3, <4>1, <4>2 DEF system, Spawn, Relink, Exit, Reap
    <3>3. /\ Owned' = Owned /\ \A b : Growing(b)' = Growing(b)
          /\ \A g : Block(g)' = Block(g)
      BY <3>1 DEF code, Owned, Growing, Block
    <3>4. \A b : Accounted(b) => Accounted(b)'
      BY <3>1, <3>2, <3>3 DEF Accounted, code
    <3> QED
      BY <3>1, <3>3, <3>4 DEF HeapInv, code
  <2>4. CASE Call
    <3>1. /\ pc = "idle" /\ calls' = calls + 1
          /\ UNCHANGED process /\ pc' \in {"ppid", "crashed"}
          /\ "bad_free" \notin faults'
          /\ ret' = Nothing
          /\ heap' = heap \/ heap' = heap \cup {<<calls', "process">>}
          /\ pc' = "ppid" => <<calls', "process">> \in heap'
      BY <2>4, <2>n DEF Call
    <3>2. Owned' = {<<calls', "process">>}
      BY <3>1 DEF Owned, Block, Nothing, Pointer, Field
    <3>3. ASSUME NEW b \in heap PROVE Accounted(b)'
      <4>1. b[1] <= calls /\ Left(b)
        BY <3>1 DEF HeapInv, Accounted, Within, Field
      <4>2. b[1] \in Nat
        BY DEF TypeOK
      <4>3. Left(b)'
        <5>1. b[1] # calls'
          BY <2>n, <3>1, <4>1, <4>2
        <5> QED
          BY <3>1, <4>1, <5>1 DEF Left, process
      <4> QED
        BY <2>n, <3>1, <4>1, <4>2, <4>3 DEF Accounted
    <3>4. pc' = "ppid" => "ppid" \in Within /\ pc' # "lstat"
      BY DEF Within, Field
    <3>5. pc' # "lstat" /\ (pc' \in Within => pc' = "ppid")
      BY <3>1 DEF Within, Field
    <3>6. ASSUME NEW b \in heap' PROVE Accounted(b)'
      <4>1. CASE b \in heap
        BY <3>3, <4>1
      <4>2. CASE b = <<calls', "process">>
        BY <2>n, <3>1, <3>2, <3>4, <4>2 DEF Accounted
      <4> QED
        BY <3>1, <4>1, <4>2
    <3> QED
      BY <3>1, <3>2, <3>5, <3>6 DEF HeapInv
  <2>5. ASSUME NEW f \in FileField, OpenFile(f)
        PROVE  HeapInv'
    BY <2>5 DEF OpenFile, process, HeapInv, Accounted, Left, Growing, Owned, Block
  \* A step that dies, with the same blocks on the heap
  <2>c. ASSUME NEW x \in {"gids", "atof", "uids", "terminal"}, Crash(x),
               UNCHANGED <<process, calls, steady>>,
               \A b \in heap' : b \in heap \/ b[1] = calls
        PROVE  HeapInv'
    BY <2>c, <2>n DEF Crash, HeapInv, Accounted, Within, Field
  <2>6. ASSUME NEW f \in FileField, OpenFails(f)
        PROVE  HeapInv'
    <3>1. /\ UNCHANGED <<process, heap, calls, steady>> /\ pc = f
          /\ failures' \in Nat /\ failures' >= failures
          /\ Crash("gids") \/ (Got(f, 0) /\ UNCHANGED faults)
      BY <2>6, <2>n DEF OpenFails, Fail, GidsMissing
    <3> QED
      BY <2>c, <2>g, <2>h, <2>n, <3>1
  <2>7. ASSUME NEW f \in FileField, ReadFile(f)
        PROVE  HeapInv'
    <3>1. /\ UNCHANGED <<process, calls, failures, steady, faults>> /\ pc = f
          /\ heap' = IF f \in {"name", "uids", "gids"} THEN heap \cup {Block(f)} ELSE heap
          /\ fp # 0 /\ f # "cmdline"
      BY <2>7 DEF ReadFile
    <3>2. PICK v : /\ Got(f, v)
                   /\ v = IF f = "gids" /\ ret["uids"] = 0 THEN 0 ELSE Parsed(f)
      BY <2>7 DEF ReadFile
    <3>3. f = "name" => f \in Pointer /\ v # 0
      BY <2>n, <3>1, <3>2, IncarnationAssumption DEF Parsed, Misread, Pointer
    <3>4. f \in Pointer => f = "name"
      BY <3>1 DEF Pointer, FileField
    <3>5. Owned' = Owned \cup (IF f \in Pointer /\ v # 0 THEN {Block(f)} ELSE {})
      BY <2>h, <3>1, <3>2, GotOwned
    <3>6. \A b \in heap' : b \in heap \/ /\ b = Block(f) /\ b[1] = calls
                                         /\ b \in Owned' \/ f \in {"uids", "gids"}
      BY <3>1, <3>3, <3>5 DEF Block
    <3> QED
      BY <2>g, <2>h, <2>n, <3>1, <3>2, <3>3, <3>4, <3>6
  <2>8. ASSUME NEW f \in FileField, ReadFails(f)
        PROVE  HeapInv'
    <3>1. /\ UNCHANGED <<process, heap, calls, steady>> /\ pc = f
          /\ failures' \in Nat /\ failures' >= failures
          /\ (\E x \in {"gids", "atof"} : Crash(x)) \/ (Got(f, 0) /\ UNCHANGED faults)
      BY <2>8, <2>n DEF ReadFails, Fail, GidsMissing
    <3> QED
      BY <2>c, <2>g, <2>h, <2>n, <3>1
  \* The fields that are neither ids nor come out of a growing buffer
  <2>v. ASSUME NEW f \in Pointer \ {"terminal"}, NEW v, Got(f, v), pc = f,
               UNCHANGED process, UNCHANGED <<steady, calls>>,
               failures' \in Nat, failures' >= failures, "bad_free" \notin faults',
               f = "exe" => platform = "osx",
               heap' = IF v # 0 THEN heap \cup {Block(f)} ELSE heap
        PROVE  HeapInv'
    <3>1. f \in Field /\ ~(platform = "linux" /\ f \in LinkField)
      BY <2>v DEF Pointer, LinkField, Field
    <3>2. Owned' = Owned \cup (IF v # 0 THEN {Block(f)} ELSE {})
      BY <2>v, <3>1, GotOwned
    <3>3. \A b \in heap' : b \in heap \/ (b[1] = calls /\ b \in Owned')
      BY <2>v, <3>2 DEF Block
    <3>4. /\ f \in Pointer /\ v # 0 => Block(f) \in heap'
          /\ heap \ {Block(f)} \subseteq heap'
      BY <2>v
    <3> QED
      BY <2>g, <2>v, <3>1, <3>3, <3>4
  <2>9. CASE ReadCmdline
    <3>1. "cmdline" \in Pointer \ {"terminal"} /\ pc = "cmdline"
      BY <2>9 DEF ReadCmdline, Pointer
    <3>2. /\ UNCHANGED process /\ UNCHANGED <<steady, calls, failures>>
          /\ "bad_free" \notin faults' /\ Got("cmdline", fp) /\ fp # 0
          /\ heap' = heap \cup {Block("cmdline")}
      BY <2>9, <2>n DEF ReadCmdline, clean_cmdline
    <3> QED
      BY <2>n, <2>v, <3>1, <3>2
  <2>10. CASE Username
    <3>1. "username" \in Pointer \ {"terminal"} /\ pc = "username"
      BY <2>10 DEF Username, Pointer
    <3>2. /\ UNCHANGED process /\ UNCHANGED <<steady, calls, faults>>
          /\ failures' \in Nat /\ failures' >= failures
      BY <2>10, <2>n DEF Username, Fail
    <3>3. \E v : /\ Got("username", v)
                 /\ heap' = IF v # 0 THEN heap \cup {Block("username")} ELSE heap
      BY <2>10 DEF Username
    <3> QED
      BY <2>n, <2>v, <3>1, <3>2, <3>3
  <2>l. LinkField \subseteq Pointer
    BY DEF LinkField, Pointer
  <2>11. ASSUME NEW f \in LinkField, ReadLink(f)
        PROVE  HeapInv'
    <3>1. /\ UNCHANGED <<process, faults, calls, failures, steady>>
          /\ pc = f /\ platform = "linux" /\ inc # 0
          /\ heap' = heap \cup {Block(f)}
          /\ Got(f, inc) \/ UNCHANGED <<pc, ret>>
      BY <2>11 DEF ReadLink, NoLink, Enoent, Streams
    <3>2. CASE Got(f, inc)
      <4>1. Owned' = Owned \cup {Block(f)}
        BY <2>h, <2>l, <3>1, <3>2, GotOwned
      <4>2. \A b \in heap' : /\ b \in heap \/ (b[1] = calls /\ b \in Owned')
                             /\ b = Block(f) => b \in Owned'
        BY <3>1, <4>1 DEF Block
      <4> QED
        BY <2>g, <2>h, <2>n, <3>1, <3>2, <4>2
    <3>3. CASE UNCHANGED <<pc, ret>>
      <4>1. /\ Owned' = Owned /\ \A b : Accounted(b) => Accounted(b)'
            /\ \A g : Block(g)' = Block(g)
        BY <3>1, <3>3 DEF process, Accounted, Left, Growing, Owned, Block
      <4>2. Block(f)[1] = calls
        BY DEF Block
      <4>3. \A b : b = Block(f) => Accounted(b)'
        BY <2>h, <2>n, <3>1, <3>3, <4>1, <4>2 DEF Accounted, Growing, process
      <4> QED
        BY <2>h, <3>1, <3>3, <4>1, <4>3 DEF HeapInv
    <3> QED
      BY <3>1, <3>2, <3>3
  <2>12. ASSUME NEW f \in LinkField, ReadLinkFails(f) \/ LinkAllocFails(f)
        PROVE  HeapInv'
    <3>1. /\ UNCHANGED <<process, faults, calls, steady>>
          /\ pc = f /\ platform = "linux" /\ Got(f, 0)
          /\ failures' \in Nat /\ failures' >= failures
      BY <2>12, <2>n DEF ReadLinkFails, LinkAllocFails, Fail
    <3>2. \A b \in heap' : b = Block(f) => Left(b)'
      <4>1. CASE ReadLinkFails(f)
        BY <4>1 DEF ReadLinkFails
      <4>2. CASE LinkAllocFails(f)
        BY <2>n, <4>2 DEF LinkAllocFails, Fail, Left, process, Block
      <4> QED
        BY <2>12, <4>1, <4>2
    <3>3. heap \ {Block(f)} \subseteq heap' /\ heap' \subseteq heap
      BY <2>12 DEF ReadLinkFails, LinkAllocFails
    <3> QED
      BY <2>g, <2>h, <2>n, <3>1, <3>2, <3>3
  <2>13. CASE MaybeNoExe
    <3>1. /\ UNCHANGED <<process, faults, calls, failures, steady, ret>>
          /\ pc = "exe" /\ pc' = "lstat" /\ platform = "linux"
          /\ heap' = heap \cup {Block("exe")}
      BY <2>13 DEF MaybeNoExe
    <3>2. /\ Owned' = Owned /\ \A g : Block(g)' = Block(g)
          /\ \A b : Left(b)' = Left(b)
          /\ \A b : Growing(b) => Growing(b)'
      BY <3>1 DEF process, Left, Growing, Owned, Block
    <3>3. Block("exe")[1] = calls /\ "exe" \in Within
      BY DEF Block, Within, Field
    <3>4. \A b : b = Block("exe") => Accounted(b)'
      BY <2>h, <2>n, <3>1, <3>2, <3>3 DEF Accounted, Growing, process
    <3>5. \A b \in heap : Accounted(b)'
      BY <2>h, <3>1, <3>2 DEF HeapInv, Accounted
    <3> QED
      BY <2>h, <3>1, <3>2, <3>3, <3>4, <3>5 DEF HeapInv
  <2>14. CASE Lstat
    <3>1. /\ UNCHANGED <<process, faults, calls, failures, steady>>
          /\ pc = "lstat" /\ Block("exe") \in heap
          /\ IF state = "gone" THEN Got("exe", 0) /\ heap' = heap \ {Block("exe")}
                               ELSE Got("exe", inc) /\ heap' = heap
          /\ state # "gone" => inc # 0
          /\ "exe" \in Field /\ "exe" \in LinkField
      BY <2>14, <2>h DEF Lstat, HeapInv, Streams
    <3>2. CASE state = "gone"
      BY <2>g, <2>n, <3>1, <3>2
    <3>3. CASE state # "gone"
      <4>1. Owned' = Owned \cup {Block("exe")}
        BY <2>l, <3>1, <3>3, GotOwned
      <4>2. \A b \in heap' : b = Block("exe") => b \in Owned'
        BY <4>1
      <4> QED
        BY <2>g, <2>n, <3>1, <3>3, <4>2
    <3> QED
      BY <3>2, <3>3
  <2>15. ASSUME NEW f \in KinfoField, Kinfo(f)
         PROVE  HeapInv'
    <3>1. /\ UNCHANGED <<process, calls, failures, steady>>
          /\ pc = f /\ platform = "osx" /\ inc # 0
          /\ heap' = IF f \in {"ppid", "create_time"} THEN heap ELSE heap \cup {Block(f)}
          /\ "bad_free" \notin faults'
      BY <2>15, <2>n DEF Kinfo, Streams
    <3>2. PICK v : Got(f, v) /\ (f # "gids" => v = inc)
      BY <2>15 DEF Kinfo
    <3>3. Owned' = Owned \cup (IF f \in Pointer /\ v # 0 THEN {Block(f)} ELSE {})
      BY <2>h, <3>1, <3>2, GotOwned
    <3>4. /\ {"ppid", "create_time", "gids"} \cap Pointer = {}
          /\ f \in Pointer \cup {"ppid", "create_time", "uids", "gids"}
      BY DEF Pointer, KinfoField
    <3>5. /\ \A b \in heap' : b \in heap \/ /\ b = Block(f) /\ b[1] = calls
                                            /\ b \in Owned' \/ f \in {"uids", "gids"}
          /\ f \in Pointer /\ v # 0 => Block(f) \in heap'
      BY <3>1, <3>2, <3>3, <3>4 DEF Block
    <3> QED
      BY <2>g, <2>h, <2>n, <3>1, <3>2, <3>5
  <2>16. ASSUME NEW f \in KinfoField, KinfoFails(f)
         PROVE  HeapInv'
    <3>1. /\ UNCHANGED <<process, calls, steady>> /\ pc = f /\ platform = "osx"
          /\ failures' \in Nat /\ failures' >= failures
          /\ state = "gone" \/ failures' > 0
          /\ Crash("gids") \/ (Got(f, 0) /\ UNCHANGED faults)
          /\ heap' = IF f \in {"uids", "gids"} THEN heap \cup {Lost(f)} ELSE heap
      BY <2>16, <2>n DEF KinfoFails, Fail, GidsMissing
    <3>2. \A b \in heap' : b \in heap \/ (b[1] = calls /\ Left(b)')
      <4>1. Lost("uids") = <<calls, "lost uids">> /\ Lost("gids") = <<calls, "lost gids">>
        BY DEF Lost, Block
      <4>2. ASSUME NEW b \in heap', b \notin heap
            PROVE  b[1] = calls /\ b[2] \in {"lost uids", "lost gids"}
        <5>1. b \in {Lost("uids"), Lost("gids")}
          BY <3>1, <4>2
        <5>2. /\ <<calls, "lost uids">>[1] = calls /\ <<calls, "lost uids">>[2] = "lost uids"
              /\ <<calls, "lost gids">>[1] = calls /\ <<calls, "lost gids">>[2] = "lost gids"
          OBVIOUS
        <5> QED
          BY <4>1, <5>1, <5>2
      <4>3. platform' = "osx" /\ (state' = "gone" \/ failures' > 0)
        BY <3>1 DEF process
      <4> QED
        BY <4>2, <4>3 DEF Left
    <3> QED
      BY <2>c, <2>g, <2>h, <2>n, <3>1, <3>2
  <2>17. ASSUME NEW f \in {"uids", "gids", "terminal"}, KinfoAllocFails(f)
         PROVE  HeapInv'
    BY <2>17, <2>c, <2>n DEF KinfoAllocFails, Fail
  <2>18. CASE PidPath \/ PidPathFails
    <3>1. /\ UNCHANGED process /\ UNCHANGED <<steady, calls, faults>>
          /\ failures' \in Nat /\ failures' >= failures
          /\ pc = "exe" /\ platform = "osx"
          /\ "exe" \in Pointer \ {"terminal"}
      BY <2>18, <2>n DEF PidPath, PidPathFails, Fail, Pointer
    <3>2. \E v : /\ Got("exe", v)
                 /\ heap' = IF v # 0 THEN heap \cup {Block("exe")} ELSE heap
      BY <2>18 DEF PidPath, PidPathFails, Streams
    <3> QED
      BY <2>n, <2>v, <3>1, <3>2
  <2>19. ASSUME NEW args, Arguments(args)
         PROVE  HeapInv'
    <3>1. /\ UNCHANGED process /\ UNCHANGED <<steady, calls, failures>>
          /\ pc = "cmdline" /\ platform = "osx" /\ state = "running"
          /\ faults' \subseteq faults \cup {"underwrite", "overrun"}
      BY <2>19 DEF Arguments
    <3>5. /\ "bad_free" \notin faults' /\ inc # 0
          /\ "cmdline" \in Pointer \ {"terminal"} /\ "cmdline" \in Field
          /\ "cmdline" \notin LinkField
      BY <2>n, <3>1 DEF Pointer, Field, LinkField, Streams
    <3>2. CASE args \in {"no strings", "pid 0"}
      <4>1. Got("cmdline", 0) /\ heap' = heap \cup {<<calls, "lost cmdline">>}
        BY <2>19, <3>2 DEF Arguments, Lost, Block
      <4>2. \A b \in heap' : b \in heap \/ (b[1] = calls /\ Left(b)')
        <5>1. /\ <<calls, "lost cmdline">>[1] = calls
              /\ <<calls, "lost cmdline">>[2] = "lost cmdline"
          OBVIOUS
        <5>2. \A b : b[2] = "lost cmdline" => Left(b)'
          BY <3>1 DEF Left, process
        <5> QED
          BY <4>1, <5>1, <5>2
      <4>3. heap \ {Block("cmdline")} \subseteq heap' /\ Got("cmdline", 0)
        BY <4>1
      <4>4. failures' \in Nat /\ failures' >= failures
        BY <2>n, <3>1
      <4> QED
        BY <2>g, <3>1, <3>5, <4>2, <4>3, <4>4
    <3>3. CASE args = "too long"
      <4>1. Got("cmdline", 0) /\ heap' = heap
        BY <2>19, <3>3 DEF Arguments
      <4> QED
        BY <2>n, <2>v, <3>1, <3>5, <4>1
    <3>4. CASE args \notin {"no strings", "pid 0", "too long"}
      <4>1. Got("cmdline", inc) /\ heap' = heap \cup {Block("cmdline")}
        BY <2>19, <3>4 DEF Arguments
      <4> QED
        BY <2>n, <2>v, <3>1, <3>5, <4>1
    <3> QED
      BY <3>2, <3>3, <3>4
  <2>20. CASE ArgumentsFail
    <3>1. /\ UNCHANGED <<process, heap, faults, calls, steady>>
          /\ pc = "cmdline" /\ failures' \in Nat /\ failures' >= failures
          /\ Got("cmdline", 0) /\ "cmdline" \in Pointer \ {"terminal"}
      BY <2>20, <2>n DEF ArgumentsFail, Fail, Pointer
    <3> QED
      BY <2>n, <2>v, <3>1
  <2>21. CASE Return
    <3>1. /\ UNCHANGED <<process, ret, faults, calls, failures, steady>>
          /\ pc = "return" /\ pc' = "done"
          /\ heap' = heap \ {Block("uids"), Block("gids")}
      BY <2>21 DEF Return
    <3>2. {"return", "done"} \subseteq Within /\ "return" \notin LinkField
      BY DEF Within, LinkField
    <3>3. /\ Owned' = Owned /\ \A b : Left(b)' = Left(b)
          /\ \A b : ~Growing(b)
          /\ \A g : Block(g)' = Block(g)
      BY <3>1, <3>2 DEF process, Owned, Left, Growing, Block
    <3>4. Block("uids") \notin Owned /\ Block("gids") \notin Owned
      BY DEF Owned, Pointer, Block
    <3>5. \A b \in heap' : Accounted(b)'
      BY <3>1, <3>2, <3>3 DEF HeapInv, Accounted
    <3> QED
      BY <3>1, <3>2, <3>3, <3>4, <3>5 DEF HeapInv
  <2>22. CASE free_process
    <3>1. /\ UNCHANGED <<process, calls, failures, steady>>
          /\ pc = "done" /\ pc' = "idle"
          /\ heap' = heap \ Owned
      BY <2>22 DEF free_process
    <3>2. "done" \in Within /\ "idle" \notin Within /\ "done" \notin LinkField
      BY DEF Within, LinkField, Field
    <3>3. "bad_free" \notin faults'
      BY <2>22, <2>n, <3>1, <3>2 DEF free_process, HeapInv
    <3>4. /\ \A b : Left(b)' = Left(b)
          /\ \A b : ~Growing(b)
      BY <3>1, <3>2 DEF process, Left, Growing
    <3>5. \A b \in heap' : Accounted(b)'
      BY <3>1, <3>2, <3>4 DEF HeapInv, Accounted
    <3> QED
      BY <3>1, <3>2, <3>3, <3>5 DEF HeapInv
  <2>23. CASE UNCHANGED vars
    BY <2>23 DEF vars, process, HeapInv, Accounted, Left, Growing, Owned, Block
  <2> QED
    BY <2>3, <2>4, <2>5, <2>6, <2>7, <2>8, <2>9, <2>10, <2>11, <2>12, <2>13,
       <2>14, <2>15, <2>16, <2>17, <2>18, <2>19, <2>20, <2>21, <2>22, <2>23
       DEF Next, get_process, osx
<1>3. TypeOK /\ Streams /\ HeapInv => AllReleased
  <2> SUFFICES ASSUME TypeOK, Streams, HeapInv PROVE AllReleased
    OBVIOUS
  <2>1. pc \in {"idle", "done", "return", "lstat"} \cup LinkField => files = 0
    BY DEF Streams, LinkField, FileField
  <2>2. ASSUME pc = "idle", NEW b \in heap PROVE Left(b)
    BY <2>2 DEF HeapInv, Accounted, Within, Field
  <2> QED
    BY <2>1, <2>2 DEF AllReleased, HeapInv, Left
<1> QED
  BY <1>1, <1>2, <1>3, TypeCorrect, PTL DEF Spec
-----------------------------------------------------------------------------
\* No link is ever cut off, whatever it grows to between two readlinks, for
\* every size of the first buffer.
THEOREM LinksWhole == Spec => []LinksComplete
<1>1. Init => LinksComplete
  BY DEF Init, LinksComplete
<1>2. TypeOK /\ LinksComplete /\ [Next]_vars => LinksComplete'
  <2> SUFFICES ASSUME TypeOK, LinksComplete, [Next]_vars PROVE LinksComplete'
    OBVIOUS
  <2>1. ASSUME NEW f \in LinkField, ReadLink(f) PROVE LinksComplete'
    <3> DEFINE size == NextSize
               n == IF linklen < size - 1 THEN linklen ELSE size - 1
    <3>1. linklen \in Nat /\ size \in Nat
      <4>1. linklen \in 0 .. PathMax /\ bufsize \in Nat
        BY DEF TypeOK
      <4> QED
        BY <4>1, LinkAssumption DEF NextSize
    <3>2. link' = link \/ (link' = <<n, linklen>> /\ n # size - 1)
      BY <2>1 DEF ReadLink, Full
    <3>3. n # size - 1 => n = linklen
      BY <3>1
    <3> QED
      BY <3>2, <3>3 DEF LinksComplete
  <2>2. CASE link' \in {link, <<0, 0>>}
    BY <2>2 DEF LinksComplete
  <2> QED
    BY <2>1, <2>2
       DEF Next, get_process, osx, system, vars, Call, OpenFile, OpenFails, ReadFile,
           ReadFails, ReadCmdline, Username, ReadLinkFails, LinkAllocFails, MaybeNoExe,
           Lstat, Kinfo, KinfoFails, KinfoAllocFails, PidPath, PidPathFails, Arguments,
           ArgumentsFail, Return, free_process, Spawn, Relink, Exit, Reap, code
<1> QED
  BY <1>1, <1>2, TypeCorrect, PTL DEF Spec

\* A call in which nothing fails, on a process that stays what it is, comes back,
\* writes outside of its buffers only where Contained says so, and returns all
\* that may be read of the process, for any number of calls and processes before
\* it, whatever failed in those.
THEOREM SteadyCalls == Spec => [](Contained /\ CompleteIfSteady)
<1>1. Init => SteadyInv /\ Contained
  BY DEF Init, SteadyInv, Contained
<1>2. /\ TypeOK /\ Streams /\ AllReleased' /\ TypeOK'
      /\ SteadyInv /\ Contained /\ [Next]_vars
      => SteadyInv' /\ Contained'
  <2> SUFFICES ASSUME TypeOK, Streams, AllReleased', TypeOK',
                      SteadyInv, Contained, [Next]_vars,
                      steady', failures' = 0
               PROVE  /\ pc' # "idle" => Undisturbed'
                      /\ Contained'
    BY DEF SteadyInv, Contained
  <2>n. /\ failures \in Nat /\ platform \in {"linux", "osx"}
        /\ DOMAIN ret = Field
        /\ "bad_free" \notin faults'
        /\ ~Fail
    <3>1. /\ failures \in Nat /\ platform \in {"linux", "osx"} /\ DOMAIN ret = Field
      BY DEF TypeOK
    <3>2. "bad_free" \notin faults'
      BY DEF AllReleased
    <3>3. ~Fail
      BY <3>1 DEF Fail
    <3> QED
      BY <3>1, <3>2, <3>3
  <2>h. /\ FileField \subseteq Field /\ LinkField \subseteq Field
        /\ KinfoField \subseteq Field
        /\ FileField \cap LinkField = {}
        /\ \A f \in Field : f # "lstat" /\ f # "idle" /\ f \in Within
        /\ "lstat" \in Within /\ "exe" \in LinkField /\ "terminal" \in LinkField
    BY DEF FileField, LinkField, KinfoField, Field, Within
  <2>s. /\ fp # 0 => platform = "linux" /\ pc \in FileField
        /\ bufsize # 0 => platform = "linux" /\ pc \in LinkField
        /\ pc = "lstat" => platform = "linux"
        /\ state # "gone" => inc > 0
    BY DEF Streams
  \* A step that reads a field of this process
  <2>g. ASSUME NEW f \in Field, NEW v, Got(f, v),
               pc = f \/ (pc = "lstat" /\ f = "exe"),
               UNCHANGED process, Undisturbed, fp' = 0, bufsize' = 0,
               ret'[f] = v => Complete(f)'
        PROVE  pc' # "idle" => Undisturbed'
    <3>1. /\ pc' \in (Field \ {"ppid"}) \cup {"return"}
          /\ \A g \in Field \ {f} : Read(g)' <=> Read(g)
          /\ ret'[f] = v
          /\ \A g \in Field \ {f} : ret'[g] = ret[g]
      BY <2>g, <2>n, GotReads
    <3>2. pc' # "crashed" /\ pc' # "lstat"
      BY <3>1 DEF Field
    <3>3. ASSUME NEW g \in Field, Read(g)' PROVE Complete(g)'
      <4>1. CASE g = f
        BY <2>g, <3>1, <4>1
      <4>2. CASE g # f
        <5>1. ret'[g] = ret[g] /\ Complete(g)
          BY <2>g, <3>1, <3>3, <4>2 DEF Undisturbed
        <5> QED
          BY <2>g, <5>1 DEF Complete, NoLink, Enoent, process
      <4> QED
        BY <4>1, <4>2
    <3> QED
      BY <2>g, <3>2, <3>3 DEF Undisturbed
  <2>f. UNCHANGED process /\ UNCHANGED <<steady, failures, faults>> /\ pc' # "crashed"
          => Contained'
    BY DEF Contained, process
  \* In the call, if it has been undisturbed until now
  <2>u. steady /\ failures = 0 /\ pc # "idle" =>
          /\ Undisturbed
          /\ pc # "crashed"
          /\ fp # 0 => Alive(fp) /\ fp = inc
          /\ pc = "gids" => (ret["uids"] = 0 <=> state = "gone")
    <3> SUFFICES ASSUME steady, failures = 0, pc # "idle"
                 PROVE  /\ Undisturbed
                        /\ pc # "crashed"
                        /\ fp # 0 => Alive(fp) /\ fp = inc
                        /\ pc = "gids" => (ret["uids"] = 0 <=> state = "gone")
      OBVIOUS
    <3>1. Undisturbed
      BY DEF SteadyInv
    <3>2. ASSUME pc = "gids" PROVE ret["uids"] = 0 <=> state = "gone"
      <4>1. "gids" \in Within /\ "uids" \in Field /\ Place("uids") < Place("gids")
        BY DEF Within, Field, Place
      <4>2. Complete("uids")
        BY <3>1, <3>2, <4>1 DEF Undisturbed, Read
      <4>3. state # "gone" => inc # 0
        BY <2>s
      <4> QED
        BY <4>2, <4>3 DEF Complete
    <3> QED
      BY <3>1, <3>2 DEF Undisturbed, Alive
  <2>3. CASE system
    <3>1. UNCHANGED <<inc, state, kind, spaced, steady, code>>
      BY <2>3 DEF system, Spawn, Relink, Exit, Reap
    <3>2. /\ \A f \in Field : Complete(f)' = Complete(f) /\ Read(f)' = Read(f)
          /\ NoLink' = NoLink /\ Enoent' = Enoent
      BY <3>1 DEF Complete, Read, NoLink, Enoent, code
    <3>3. pc' # "idle" => Undisturbed'
      BY <2>u, <3>1, <3>2 DEF Undisturbed, code
    <3> QED
      BY <3>1, <3>3 DEF Contained, code
  <2>4. CASE Call
    <3>1. /\ pc = "idle" /\ pc' = "ppid" /\ faults' = {} /\ UNCHANGED <<fp, bufsize>>
      BY <2>4, <2>n DEF Call
    <3>2. fp' = 0 /\ bufsize' = 0
      BY <2>s, <3>1 DEF FileField, LinkField
    <3>3. \A f \in Field : ~Read(f)'
      <4>1. Place("ppid") = 1
        BY DEF Place
      <4> QED
        BY <3>1, <4>1, Order DEF Read
    <3> QED
      BY <3>1, <3>2, <3>3 DEF Undisturbed, Contained
  <2>5. ASSUME NEW f \in FileField, OpenFile(f) \/ OpenFails(f)
        PROVE  (pc' # "idle" => Undisturbed') /\ Contained'
    <3>0. f \in Field /\ f # "lstat" /\ f # "idle" /\ f \notin LinkField
      BY <2>5, <2>h
    <3>1. /\ UNCHANGED process /\ UNCHANGED <<steady, failures, bufsize>>
          /\ pc = f /\ fp = 0 /\ platform = "linux"
      BY <2>5, <2>n DEF OpenFile, OpenFails
    <3>2. steady /\ failures = 0 /\ bufsize = 0
      BY <2>n, <2>s, <3>0, <3>1
    <3>3. CASE OpenFile(f)
      <4>1. /\ UNCHANGED <<pc, ret, faults>> /\ fp' = inc /\ state # "gone"
        BY <3>3 DEF OpenFile
      <4>2. \A g \in Field : Read(g)' = Read(g) /\ Complete(g)' = Complete(g)
        BY <3>1, <4>1 DEF Read, Complete, NoLink, Enoent, process
      <4> QED
        BY <2>f, <2>u, <3>0, <3>1, <3>2, <4>1, <4>2 DEF Undisturbed, process
    <3>4. CASE OpenFails(f)
      <4>1. state = "gone" /\ fp' = fp
        BY <2>n, <3>4 DEF OpenFails
      <4>2. f = "gids" => ret["uids"] = 0
        BY <2>u, <3>0, <3>1, <3>2, <4>1
      <4>3. Got(f, 0) /\ UNCHANGED faults
        BY <3>4, <4>2 DEF OpenFails, GidsMissing
      <4>4. ret'[f] = 0 => Complete(f)'
        BY <3>1, <4>1 DEF Complete, process
      <4>5. pc' # "idle" => Undisturbed'
        BY <2>g, <2>u, <3>0, <3>1, <3>2, <4>1, <4>3, <4>4
      <4>6. pc' # "crashed"
        BY <2>n, <3>0, <3>1, <4>3, GotReads DEF Field
      <4> QED
        BY <2>f, <3>1, <4>3, <4>5, <4>6
    <3> QED
      BY <2>5, <3>3, <3>4
  <2>7. ASSUME NEW f \in FileField, ReadFile(f) \/ ReadFails(f)
        PROVE  (pc' # "idle" => Undisturbed') /\ Contained'
    <3>0. f \in Field /\ f # "lstat" /\ f # "idle" /\ f \notin LinkField
      BY <2>7, <2>h
    <3>1. /\ UNCHANGED process /\ UNCHANGED <<steady, failures, bufsize>>
          /\ pc = f /\ fp # 0 /\ platform = "linux" /\ fp' = 0
      BY <2>7, <2>n, <2>s DEF ReadFile, ReadFails, Close
    <3>2. steady /\ failures = 0 /\ bufsize = 0 /\ bufsize' = 0
      BY <2>n, <2>s, <3>0, <3>1
    <3>3. Alive(fp) /\ fp = inc /\ state # "gone"
      BY <2>u, <3>0, <3>1, <3>2 DEF Alive
    <3>4. /\ ReadFile(f) /\ UNCHANGED faults
          /\ f = "gids" => ret["uids"] # 0
      BY <2>7, <2>n, <2>u, <3>0, <3>1, <3>2, <3>3 DEF ReadFile, ReadFails
    <3>5. Got(f, Parsed(f))
      BY <3>4 DEF ReadFile
    <3>6. ret'[f] = Parsed(f) => Complete(f)'
      BY <3>0, <3>1, <3>3 DEF Complete, Parsed, process, LinkField
    <3>7. pc' # "idle" => Undisturbed'
      BY <2>g, <2>u, <3>0, <3>1, <3>2, <3>5, <3>6
    <3>8. pc' # "crashed"
      BY <2>n, <3>0, <3>1, <3>5, GotReads DEF Field
    <3> QED
      BY <2>f, <3>1, <3>4, <3>7, <3>8
  <2>9. CASE ReadCmdline
    <3>1. /\ UNCHANGED process /\ UNCHANGED <<steady, failures, bufsize>>
          /\ pc = "cmdline" /\ fp # 0 /\ platform = "linux" /\ fp' = 0
          /\ Got("cmdline", fp) /\ "cmdline" \in Field
      BY <2>9, <2>s DEF ReadCmdline, Close, Field
    <3>2. steady /\ failures = 0 /\ bufsize = 0 /\ bufsize' = 0
      BY <2>n, <2>s, <3>1 DEF LinkField
    <3>3. Alive(fp) /\ fp = inc /\ state # "gone"
      BY <2>u, <3>1, <3>2 DEF Alive
    <3>4. ret'["cmdline"] = fp => Complete("cmdline")'
      BY <3>1, <3>3 DEF Complete, process
    <3>5. pc' # "idle" => Undisturbed'
      BY <2>g, <2>u, <3>1, <3>2, <3>4
    <3>6. pc' # "crashed"
      BY <2>n, <3>1, GotReads DEF Field
    <3>7. state = "running" /\ kind # "kernel" => UNCHANGED faults
      BY <2>9, <3>3 DEF ReadCmdline, clean_cmdline
    <3> QED
      BY <3>1, <3>2, <3>5, <3>6, <3>7 DEF Contained, process
  <2>10. CASE Username
    <3>1. /\ UNCHANGED process /\ UNCHANGED <<steady, failures, bufsize, faults, fp>>
          /\ pc = "username" /\ Got("username", ret["uids"]) /\ "username" \in Field
      BY <2>10, <2>n DEF Username, Field
    <3>2. steady /\ failures = 0 /\ bufsize' = 0 /\ fp' = 0
      BY <2>n, <2>s, <3>1 DEF LinkField, FileField
    <3>3. Complete("uids")
      <4>1. "username" \in Within /\ "uids" \in Field /\ Place("uids") < Place("username")
        BY DEF Within, Field, Place
      <4> QED
        BY <2>u, <3>1, <3>2, <4>1 DEF Undisturbed, Read
    <3>4. ret'["username"] = ret["uids"] => Complete("username")'
      BY <3>1, <3>3 DEF Complete, process
    <3>5. pc' # "idle" => Undisturbed'
      BY <2>g, <2>u, <3>1, <3>2, <3>4
    <3>6. pc' # "crashed"
      BY <2>n, <3>1, GotReads DEF Field
    <3> QED
      BY <2>f, <3>1, <3>5, <3>6
  <2>11. ASSUME NEW f \in LinkField,
                ReadLink(f) \/ ReadLinkFails(f) \/ LinkAllocFails(f)
        PROVE  (pc' # "idle" => Undisturbed') /\ Contained'
    <3>0. f \in Field /\ f # "lstat" /\ f # "idle" /\ f \notin FileField
      BY <2>11, <2>h
    <3>1. /\ UNCHANGED process /\ UNCHANGED <<steady, failures, faults, fp>>
          /\ pc = f /\ platform = "linux"
      BY <2>11, <2>n DEF ReadLink, ReadLinkFails, LinkAllocFails
    <3>2. steady /\ failures = 0 /\ fp' = 0 /\ Undisturbed
      BY <2>n, <2>s, <2>u, <3>0, <3>1
    <3>3. CASE ReadLink(f) /\ UNCHANGED <<pc, ret>>
      <4>1. \A g \in Field : Read(g)' = Read(g) /\ Complete(g)' = Complete(g)
        BY <3>1, <3>3 DEF Read, Complete, NoLink, Enoent, process
      <4>2. ~NoLink' /\ pc' = pc /\ pc' # "lstat" /\ pc' # "crashed"
        BY <3>0, <3>1, <3>2, <3>3 DEF ReadLink, NoLink, Enoent, process, Undisturbed
      <4> QED
        BY <2>f, <3>1, <3>2, <4>1, <4>2 DEF Undisturbed
    <3>4. ASSUME NEW v, Got(f, v), bufsize' = 0, ret'[f] = v => Complete(f)'
          PROVE  (pc' # "idle" => Undisturbed') /\ Contained'
      <4>1. pc' # "idle" => Undisturbed'
        BY <2>g, <3>0, <3>1, <3>2, <3>4
      <4>2. pc' # "crashed"
        BY <2>n, <3>0, <3>1, <3>4, GotReads DEF Field
      <4> QED
        BY <2>f, <3>1, <4>1, <4>2
    <3>5. CASE ReadLink(f) /\ ~UNCHANGED <<pc, ret>>
      <4>1. Got(f, inc) /\ bufsize' = 0 /\ ~NoLink
        BY <3>5 DEF ReadLink
      <4>2. ret'[f] = inc => Complete(f)'
        BY <3>1, <4>1 DEF Complete, NoLink, Enoent, process, LinkField
      <4> QED
        BY <3>4, <4>1, <4>2
    <3>6. CASE ReadLinkFails(f)
      <4>1. Got(f, 0) /\ bufsize' = 0 /\ NoLink /\ ~(f = "exe" /\ Enoent)
        BY <3>2, <3>6 DEF ReadLinkFails, Undisturbed
      <4>2. ret'[f] = 0 => Complete(f)'
        BY <3>1, <4>1 DEF Complete, NoLink, Enoent, process, LinkField
      <4> QED
        BY <3>4, <4>1, <4>2
    <3>7. ~LinkAllocFails(f)
      BY <2>n DEF LinkAllocFails
    <3> QED
      BY <2>11, <3>3, <3>5, <3>6, <3>7
  <2>13. CASE MaybeNoExe
    <3>1. /\ UNCHANGED process /\ UNCHANGED <<steady, failures, faults, fp, bufsize, ret>>
          /\ pc = "exe" /\ pc' = "lstat" /\ Enoent
      BY <2>13 DEF MaybeNoExe
    <3>2. fp' = 0 /\ bufsize' = 0 /\ Undisturbed /\ Enoent'
      BY <2>13, <2>s, <2>n, <2>u, <3>1
         DEF MaybeNoExe, FileField, Enoent, process
    <3>3. \A g \in Field : Read(g)' => Read(g)
      <4>1. Place("exe") = 3 /\ Place("lstat") = 3 /\ {"exe", "lstat"} \subseteq Within
        BY DEF Place, Within, Field
      <4> QED
        BY <3>1, <4>1 DEF Read
    <3>4. \A g \in Field : Complete(g)' = Complete(g)
      BY <3>1 DEF Complete, NoLink, Enoent, process
    <3> QED
      BY <2>f, <3>1, <3>2, <3>3, <3>4 DEF Undisturbed
  <2>14. CASE Lstat
    <3>1. /\ UNCHANGED process /\ UNCHANGED <<steady, failures, faults, fp, bufsize>>
          /\ pc = "lstat" /\ Got("exe", IF state = "gone" THEN 0 ELSE inc)
          /\ "exe" \in Field
      BY <2>14 DEF Lstat, Field
    <3>2. fp' = 0 /\ bufsize' = 0 /\ Undisturbed /\ Enoent /\ platform = "linux"
      BY <2>s, <2>n, <2>u, <3>1 DEF FileField, LinkField, Undisturbed
    <3>3. ret'["exe"] = (IF state = "gone" THEN 0 ELSE inc) => Complete("exe")'
      BY <3>1, <3>2 DEF Complete, NoLink, Enoent, process
    <3>4. pc' # "idle" => Undisturbed'
      BY <2>g, <3>1, <3>2, <3>3
    <3>5. pc' # "crashed"
      BY <2>n, <3>1, GotReads DEF Field
    <3> QED
      BY <2>f, <3>1, <3>4, <3>5
  \* A step of OS X that reads a field
  <2>o. ASSUME platform = "osx", NEW f \in Field, NEW v, Got(f, v), pc = f,
               UNCHANGED process, UNCHANGED <<steady, failures, fp, bufsize>>,
               v \in {0, inc}, state = "gone" => v = 0,
               v = 0 => state = "gone" \/ f = "cmdline"
                          \/ (f = "exe" /\ ~(state = "running" /\ kind = "own")),
               faults' \subseteq faults \cup {"underwrite", "overrun"},
               state = "gone" \/ kind = "kernel" => UNCHANGED faults
        PROVE  (pc' # "idle" => Undisturbed') /\ Contained'
    <3>1. /\ fp' = 0 /\ bufsize' = 0 /\ f # "idle" /\ f # "lstat"
          /\ steady /\ failures = 0
      BY <2>h, <2>n, <2>o, <2>s
    <3>2. ret'[f] = v => Complete(f)'
      BY <2>o DEF Complete, process
    <3>3. pc' # "idle" => Undisturbed'
      BY <2>g, <2>o, <2>u, <3>1, <3>2
    <3>4. pc' # "crashed"
      BY <2>n, <2>o, GotReads DEF Field
    <3>5. faults \subseteq {"underwrite", "overrun"}
      BY <2>o, <3>1 DEF Contained
    <3> QED
      BY <2>o, <3>1, <3>3, <3>4, <3>5 DEF Contained, process
  <2>15. ASSUME NEW f \in KinfoField, Kinfo(f)
         PROVE  (pc' # "idle" => Undisturbed') /\ Contained'
    <3>1. /\ UNCHANGED process /\ UNCHANGED <<steady, failures, fp, bufsize>>
          /\ platform = "osx" /\ pc = f /\ f \in Field /\ f # "idle"
          /\ state # "gone" /\ inc > 0
          /\ faults' \subseteq faults \cup {"underwrite", "overrun"}
          /\ kind = "kernel" => UNCHANGED faults
      BY <2>15, <2>h, <2>s DEF Kinfo
    <3>2. f = "gids" => ret["uids"] # 0
      BY <2>n, <2>u, <3>1
    <3>3. Got(f, inc)
      BY <2>15, <3>2 DEF Kinfo
    <3>4. inc # 0
      BY <3>1
    <3> QED
      BY <2>o, <3>1, <3>3, <3>4
  <2>16. ASSUME NEW f \in KinfoField, KinfoFails(f)
         PROVE  (pc' # "idle" => Undisturbed') /\ Contained'
    <3>1. /\ UNCHANGED process /\ UNCHANGED <<steady, failures, fp, bufsize>>
          /\ platform = "osx" /\ pc = f /\ f \in Field /\ f # "idle"
          /\ state = "gone"
      BY <2>16, <2>h, <2>n DEF KinfoFails
    <3>2. f = "gids" => ret["uids"] = 0
      BY <2>n, <2>u, <3>1
    <3>3. Got(f, 0) /\ UNCHANGED faults
      BY <2>16, <3>2 DEF KinfoFails, GidsMissing
    <3> QED
      BY <2>o, <3>1, <3>3
  <2>17. \A f : ~KinfoAllocFails(f)
    BY <2>n DEF KinfoAllocFails
  <2>18. CASE PidPath \/ PidPathFails
    <3>1. /\ UNCHANGED process /\ UNCHANGED <<steady, failures, fp, bufsize, faults>>
          /\ platform = "osx" /\ pc = "exe" /\ "exe" \in Field
      BY <2>18, <2>n DEF PidPath, PidPathFails, Field
    <3>2. CASE PidPath
      <4>1. state = "running" /\ Got("exe", inc)
        BY <3>2 DEF PidPath
      <4>2. inc # 0
        BY <2>s, <4>1
      <4> QED
        BY <2>o, <3>1, <4>1, <4>2
    <3>3. CASE PidPathFails
      <4>1. ~(state = "running" /\ kind = "own") /\ Got("exe", 0)
        BY <2>n, <3>3 DEF PidPathFails
      <4> QED
        BY <2>o, <3>1, <4>1
    <3> QED
      BY <2>18, <3>2, <3>3
  <2>19. ASSUME NEW args, Arguments(args)
         PROVE  (pc' # "idle" => Undisturbed') /\ Contained'
    <3>1. /\ UNCHANGED process /\ UNCHANGED <<steady, failures, fp, bufsize>>
          /\ platform = "osx" /\ pc = "cmdline" /\ "cmdline" \in Field
          /\ state = "running"
          /\ Got("cmdline", 0) \/ Got("cmdline", inc)
      BY <2>19 DEF Arguments, Field
    <3>2. /\ faults' \subseteq faults \cup {"underwrite", "overrun"}
          /\ kind = "kernel" => UNCHANGED faults
      BY <2>19 DEF Arguments
    <3> QED
      BY <2>o, <3>1, <3>2
  <2>20. CASE ArgumentsFail
    <3>1. /\ UNCHANGED process /\ UNCHANGED <<steady, failures, fp, bufsize, faults>>
          /\ platform = "osx" /\ pc = "cmdline" /\ "cmdline" \in Field
          /\ Got("cmdline", 0)
      BY <2>20, <2>n DEF ArgumentsFail, Field
    <3> QED
      BY <2>o, <3>1
  <2>21. CASE Return
    <3>1. /\ UNCHANGED process /\ UNCHANGED <<steady, failures, fp, bufsize, faults, ret>>
          /\ pc = "return" /\ pc' = "done"
      BY <2>21 DEF Return
    <3>2. \A g \in Field : Read(g)' => Read(g)
      <4>1. Place("return") = 10 /\ Place("done") = 10 /\ "return" \in Within
        BY DEF Place, Within
      <4> QED
        BY <3>1, <4>1 DEF Read
    <3>3. \A g \in Field : Complete(g)' = Complete(g)
      BY <3>1 DEF Complete, NoLink, Enoent, process
    <3>4. Undisturbed /\ fp = 0 /\ bufsize = 0
      BY <2>n, <2>s, <2>u, <3>1 DEF FileField, LinkField
    <3> QED
      BY <2>f, <3>1, <3>2, <3>3, <3>4 DEF Undisturbed
  <2>22. CASE free_process
    <3>1. /\ UNCHANGED process /\ UNCHANGED <<steady, failures>> /\ pc' = "idle"
          /\ faults' \in {faults, faults \cup {"bad_free"}}
      BY <2>22 DEF free_process
    <3>2. UNCHANGED faults
      BY <2>n, <3>1
    <3> QED
      BY <2>f, <3>1, <3>2
  <2>23. CASE UNCHANGED vars
    <3>1. /\ UNCHANGED process
          /\ UNCHANGED <<steady, failures, fp, bufsize, faults, ret, pc>>
      BY <2>23 DEF vars
    <3>2. /\ \A g \in Field : Read(g)' = Read(g) /\ Complete(g)' = Complete(g)
          /\ NoLink' = NoLink /\ Enoent' = Enoent
      BY <3>1 DEF Read, Complete, NoLink, Enoent, process
    <3>3. pc' # "idle" => Undisturbed'
      BY <2>u, <3>1, <3>2 DEF Undisturbed, process
    <3> QED
      BY <3>1, <3>3 DEF Contained, process
  <2> QED
    BY <2>3, <2>4, <2>5, <2>7, <2>9, <2>10, <2>11, <2>13, <2>14, <2>15, <2>16,
       <2>17, <2>18, <2>19, <2>20, <2>21, <2>22, <2>23 DEF Next, get_process, osx
<1>3. SteadyInv /\ TypeOK => CompleteIfSteady
  <2> SUFFICES ASSUME SteadyInv, pc = "done", steady, failures = 0, NEW f \in Field
               PROVE  Complete(f)
    BY DEF CompleteIfSteady, Complete
  <2>1. "done" \in Within /\ Place(f) \in 1 .. 9 /\ Place("done") = 10
    BY Order DEF Within
  <2>2. Read(f)
    BY <2>1 DEF Read
  <2> QED
    BY <2>2 DEF SteadyInv, Undisturbed
<1> QED
  BY <1>1, <1>2, <1>3, TypeCorrect, NothingKept, PTL DEF Spec
-----------------------------------------------------------------------------
(* What a step may do, as far as the order of the fields is concerned.     *)

\* Where the value of a field comes from
Source(f, v) ==
  \/ f # "username" /\ v = inc /\ state # "gone"
  \/ f # "username" /\ v = fp /\ fp # 0
  \/ f \in {"name", "create_time"} /\ v = Misread
  \/ f = "username" /\ v = ret["uids"]
  \/ f = "gids" /\ v = 0 /\ ret["uids"] = 0
  \/ /\ v = 0
     /\ f \in Common => state = "gone" \/ (fp # 0 /\ ~Alive(fp)) \/ failures' > 0

Reads(f, v) ==
  /\ pc = f \/ (pc = "lstat" /\ f = "exe")
  /\ Got(f, v) /\ Source(f, v)
  /\ fp' = 0
  /\ failures' \in Nat /\ (failures' = 0 => failures = 0)
  /\ faults' \subseteq faults \cup {"underwrite", "overrun"}
  /\ UNCHANGED <<process, steady>>

Dies(x) ==
  /\ pc \in Field
  /\ Crash(x)
  /\ fp' = 0
  /\ failures' \in Nat
  /\ failures' = 0 =>
       /\ failures = 0
       /\ \/ /\ x = "gids" /\ ret["uids"] # 0
             /\ state = "gone" \/ (fp # 0 /\ ~Alive(fp))
          \/ x = "atof" /\ platform = "linux"
  /\ UNCHANGED <<process, steady>>

Moves ==
  /\ fp' = fp \/ (fp' = inc /\ state # "gone")
  /\ pc # "crashed" /\ pc' # "crashed"
  /\ \A g \in Field : Read(g)' => Read(g)
  /\ UNCHANGED <<process, ret, faults, failures, steady>>

\* Every step of get_process is a call, the end of one, or one of these three.
LEMMA Kinds ==
  ASSUME TypeOK, Streams, get_process
  PROVE  \/ Call \/ free_process \/ Moves
         \/ \E f \in Field : \E v : Reads(f, v)
         \/ \E x \in {"gids", "atof", "uids", "terminal"} : Dies(x)
<1>n. /\ failures \in Nat /\ platform \in {"linux", "osx"}
      /\ Fail => failures' \in Nat /\ failures' > 0
  <2>1. failures \in Nat /\ platform \in {"linux", "osx"}
    BY DEF TypeOK
  <2> QED
    BY <2>1 DEF Fail
<1>h. /\ FileField \subseteq Field /\ LinkField \subseteq Field
      /\ KinfoField \subseteq Field
      /\ "cmdline" \in Field /\ "exe" \in Field /\ "username" \in Field
      /\ "exe" \notin Common /\ "cmdline" \notin Common /\ "terminal" \notin Common
      /\ "username" \notin FileField /\ "username" \notin LinkField
      /\ "username" \notin KinfoField
      /\ FileField \cap LinkField = {} /\ LinkField \cap Common = {}
      /\ "crashed" \notin Field
  BY DEF FileField, LinkField, KinfoField, Field, Common
<1>s. /\ fp # 0 => platform = "linux" /\ pc \in FileField
      /\ platform = "osx" => fp = 0
  BY <1>n DEF Streams
<1>1. ASSUME NEW f \in FileField, OpenFile(f) PROVE Moves
  <2>1. /\ UNCHANGED <<process, pc, ret, faults, failures, steady>>
        /\ fp' = inc /\ state # "gone" /\ pc = f
    BY <1>1 DEF OpenFile
  <2>2. \A g \in Field : Read(g)' = Read(g)
    BY <2>1 DEF Read
  <2> QED
    BY <1>h, <2>1, <2>2 DEF Moves
<1>2. ASSUME NEW f \in FileField, OpenFails(f)
      PROVE  Reads(f, 0) \/ Dies("gids")
  <2>1. /\ UNCHANGED <<process, fp, steady>> /\ pc = f /\ fp = 0 /\ failures' \in Nat
        /\ failures' = 0 => failures = 0 /\ state = "gone"
        /\ IF f = "gids" THEN GidsMissing ELSE (Got(f, 0) /\ UNCHANGED faults)
    BY <1>2, <1>n DEF OpenFails
  <2>2. Source(f, 0)
    BY <1>n, <2>1 DEF Source
  <2>3. CASE Got(f, 0) /\ UNCHANGED faults
    BY <2>1, <2>2, <2>3 DEF Reads
  <2>4. CASE Crash("gids") /\ ret["uids"] # 0
    BY <1>h, <2>1, <2>4 DEF Dies
  <2> QED
    BY <2>1, <2>3, <2>4 DEF GidsMissing
<1>3. ASSUME NEW f \in FileField, ReadFile(f)
      PROVE  \E v : Reads(f, v)
  <2>1. /\ UNCHANGED <<process, faults, failures, steady>> /\ pc = f /\ fp # 0 /\ fp' = 0
        /\ Got(f, IF f = "gids" /\ ret["uids"] = 0 THEN 0 ELSE Parsed(f))
    BY <1>3 DEF ReadFile, Close
  <2>2. Source(f, IF f = "gids" /\ ret["uids"] = 0 THEN 0 ELSE Parsed(f))
    BY <1>h, <2>1 DEF Source, Parsed
  <2> QED
    BY <1>n, <2>1, <2>2 DEF Reads
<1>4. ASSUME NEW f \in FileField, ReadFails(f)
      PROVE  Reads(f, 0) \/ Dies("gids") \/ Dies("atof")
  <2>1. /\ UNCHANGED <<process, steady>> /\ pc = f /\ fp # 0 /\ fp' = 0 /\ failures' \in Nat
        /\ failures' = 0 => failures = 0 /\ ~Alive(fp)
        /\ platform = "linux"
    BY <1>4, <1>n, <1>s DEF ReadFails, Close
  <2>2. Source(f, 0)
    BY <1>n, <2>1 DEF Source
  <2>3. CASE Got(f, 0) /\ UNCHANGED faults
    BY <2>1, <2>2, <2>3 DEF Reads
  <2>4. CASE Crash("gids") /\ ret["uids"] # 0
    BY <1>h, <2>1, <2>4 DEF Dies
  <2>5. CASE Crash("atof")
    BY <1>h, <2>1, <2>5 DEF Dies
  <2> QED
    BY <1>4, <2>3, <2>4, <2>5 DEF ReadFails, GidsMissing
<1>5. CASE ReadCmdline
  <2>1. /\ UNCHANGED <<process, failures, steady>> /\ pc = "cmdline" /\ fp # 0 /\ fp' = 0
        /\ Got("cmdline", fp) /\ faults' \subseteq faults \cup {"underwrite"}
    BY <1>5 DEF ReadCmdline, Close, clean_cmdline
  <2>2. Source("cmdline", fp)
    BY <2>1 DEF Source
  <2>3. Reads("cmdline", fp)
    BY <1>n, <2>1, <2>2 DEF Reads
  <2> QED
    BY <1>h, <2>3
<1>6. CASE Username
  <2>1. /\ UNCHANGED <<process, fp, faults, steady>> /\ pc = "username" /\ fp = 0
        /\ \/ Got("username", ret["uids"]) /\ failures' = failures
           \/ Got("username", 0) /\ Fail
    BY <1>6, <1>h, <1>s DEF Username
  <2>2. Source("username", ret["uids"]) /\ (Fail => Source("username", 0))
    BY <1>n DEF Source
  <2>3. CASE Got("username", ret["uids"]) /\ failures' = failures
    <3>1. Reads("username", ret["uids"])
      BY <1>n, <2>1, <2>2, <2>3 DEF Reads
    <3> QED
      BY <1>h, <3>1
  <2>4. CASE Got("username", 0) /\ Fail
    <3>1. Reads("username", 0)
      BY <1>n, <2>1, <2>2, <2>4 DEF Reads
    <3> QED
      BY <1>h, <3>1
  <2> QED
    BY <2>1, <2>3, <2>4
<1>7. ASSUME NEW f \in LinkField, ReadLink(f)
      PROVE  Moves \/ Reads(f, inc)
  <2>1. /\ UNCHANGED <<process, fp, faults, failures, steady>> /\ pc = f /\ fp = 0
        /\ state # "gone" /\ f # "username"
        /\ UNCHANGED <<pc, ret>> \/ Got(f, inc)
    BY <1>7, <1>h, <1>s DEF ReadLink, NoLink, Enoent
  <2>2. CASE UNCHANGED <<pc, ret>>
    <3>1. \A g \in Field : Read(g)' = Read(g)
      BY <2>2 DEF Read
    <3> QED
      BY <1>h, <2>1, <2>2, <3>1 DEF Moves
  <2>3. CASE Got(f, inc)
    <3>1. Source(f, inc)
      BY <2>1 DEF Source
    <3> QED
      BY <1>n, <2>1, <2>3, <3>1 DEF Reads
  <2> QED
    BY <2>1, <2>2, <2>3
<1>8. ASSUME NEW f \in LinkField, ReadLinkFails(f) \/ LinkAllocFails(f)
      PROVE  Reads(f, 0)
  <2>1. /\ UNCHANGED <<process, fp, faults, steady>> /\ pc = f /\ fp = 0
        /\ Got(f, 0) /\ (failures' = failures \/ Fail)
    BY <1>8, <1>h, <1>s DEF ReadLinkFails, LinkAllocFails
  <2>2. Source(f, 0)
    BY <1>h DEF Source
  <2> QED
    BY <1>n, <2>1, <2>2 DEF Reads
<1>9. ASSUME MaybeNoExe PROVE Moves
  <2>1. /\ UNCHANGED <<process, fp, ret, faults, failures, steady>>
        /\ pc = "exe" /\ pc' = "lstat"
    BY <1>9 DEF MaybeNoExe
  <2>2. Place("exe") = 3 /\ Place("lstat") = 3 /\ {"exe", "lstat"} \subseteq Within
    BY DEF Place, Within, Field
  <2>3. \A g \in Field : Read(g)' => Read(g)
    BY <2>1, <2>2 DEF Read
  <2> QED
    BY <2>1, <2>3 DEF Moves
<1>10. CASE Lstat
  <2>1. /\ UNCHANGED <<process, fp, faults, failures, steady>> /\ pc = "lstat"
        /\ Got("exe", IF state = "gone" THEN 0 ELSE inc) /\ fp = 0
    BY <1>10, <1>s DEF Lstat, FileField
  <2>2. Source("exe", IF state = "gone" THEN 0 ELSE inc)
    BY <1>h DEF Source
  <2>3. Reads("exe", IF state = "gone" THEN 0 ELSE inc)
    BY <1>n, <2>1, <2>2 DEF Reads
  <2> QED
    BY <1>h, <2>3
<1>11. ASSUME NEW f \in KinfoField, Kinfo(f)
       PROVE  \E v : Reads(f, v)
  <2>1. /\ UNCHANGED <<process, fp, failures, steady>> /\ pc = f /\ fp = 0
        /\ state # "gone" /\ f # "username"
        /\ Got(f, IF f = "gids" /\ ret["uids"] = 0 THEN 0 ELSE inc)
        /\ faults' \subseteq faults \cup {"overrun"}
    BY <1>11, <1>h, <1>s DEF Kinfo
  <2>2. Source(f, IF f = "gids" /\ ret["uids"] = 0 THEN 0 ELSE inc)
    BY <2>1 DEF Source
  <2> QED
    BY <1>n, <2>1, <2>2 DEF Reads
<1>12. ASSUME NEW f \in KinfoField, KinfoFails(f)
       PROVE  Reads(f, 0) \/ Dies("gids")
  <2>1. /\ UNCHANGED <<process, fp, steady>> /\ pc = f /\ fp = 0 /\ failures' \in Nat
        /\ failures' = 0 => failures = 0 /\ state = "gone"
        /\ IF f = "gids" THEN GidsMissing ELSE (Got(f, 0) /\ UNCHANGED faults)
    BY <1>12, <1>n, <1>s DEF KinfoFails
  <2>2. Source(f, 0)
    BY <1>n, <2>1 DEF Source
  <2>3. CASE Got(f, 0) /\ UNCHANGED faults
    BY <2>1, <2>2, <2>3 DEF Reads
  <2>4. CASE Crash("gids") /\ ret["uids"] # 0
    BY <1>h, <2>1, <2>4 DEF Dies
  <2> QED
    BY <2>1, <2>3, <2>4 DEF GidsMissing
<1>13. ASSUME NEW f \in {"uids", "gids", "terminal"}, KinfoAllocFails(f)
       PROVE  Dies(f)
  <2>1. /\ UNCHANGED <<process, fp, steady>> /\ pc = f /\ fp = 0 /\ Crash(f)
        /\ failures' \in Nat /\ failures' > 0 /\ f \in Field
    BY <1>13, <1>n, <1>s DEF KinfoAllocFails, Field
  <2> QED
    BY <2>1 DEF Dies
<1>14. CASE PidPath \/ PidPathFails
  <2>1. /\ UNCHANGED <<process, fp, faults, steady>> /\ pc = "exe" /\ fp = 0
        /\ failures' = failures \/ Fail
        /\ (state = "running" /\ Got("exe", inc)) \/ Got("exe", 0)
    BY <1>14, <1>s DEF PidPath, PidPathFails
  <2>2. Source("exe", 0) /\ (state = "running" => Source("exe", inc))
    BY <1>h DEF Source
  <2>3. \E v : Reads("exe", v)
    BY <1>n, <2>1, <2>2 DEF Reads
  <2> QED
    BY <1>h, <2>3
<1>15. ASSUME NEW args, Arguments(args)
       PROVE  \E v : Reads("cmdline", v)
  <2>1. /\ UNCHANGED <<process, fp, failures, steady>> /\ pc = "cmdline" /\ fp = 0
        /\ state = "running"
        /\ Got("cmdline", IF args \in {"no strings", "too long", "pid 0"} THEN 0 ELSE inc)
        /\ faults' \subseteq faults \cup {"underwrite", "overrun"}
    BY <1>15, <1>s DEF Arguments
  <2>2. Source("cmdline", IF args \in {"no strings", "too long", "pid 0"} THEN 0 ELSE inc)
    BY <1>h, <2>1 DEF Source
  <2> QED
    BY <1>n, <2>1, <2>2 DEF Reads
<1>16. CASE ArgumentsFail
  <2>1. /\ UNCHANGED <<process, fp, faults, steady>> /\ pc = "cmdline" /\ fp = 0
        /\ failures' = failures \/ Fail
        /\ Got("cmdline", 0)
    BY <1>16, <1>s DEF ArgumentsFail
  <2>2. Source("cmdline", 0)
    BY <1>h DEF Source
  <2>3. Reads("cmdline", 0)
    BY <1>n, <2>1, <2>2 DEF Reads
  <2> QED
    BY <1>h, <2>3
<1>17. ASSUME Return PROVE Moves
  <2>1. /\ UNCHANGED <<process, fp, ret, faults, failures, steady>>
        /\ pc = "return" /\ pc' = "done"
    BY <1>17 DEF Return
  <2>2. Place("return") = 10 /\ Place("done") = 10 /\ "return" \in Within
    BY DEF Place, Within
  <2>3. \A g \in Field : Read(g)' => Read(g)
    BY <2>1, <2>2 DEF Read
  <2> QED
    BY <2>1, <2>3 DEF Moves
<1> QED
  BY <1>h, <1>1, <1>2, <1>3, <1>4, <1>5, <1>6, <1>7, <1>8, <1>9, <1>10, <1>11, <1>12,
     <1>13, <1>14, <1>15, <1>16, <1>17 DEF get_process, osx
-----------------------------------------------------------------------------
LEMMA Positions ==
  /\ \A f \in Field : Position(f) = Place(f)
  /\ {"uids", "username", "gids"} \subseteq Field /\ "uids" \in Common
  /\ Common \subseteq Field
  /\ Place("uids") = 6 /\ Place("username") = 7 /\ Place("gids") = 8
<1>1. \A f \in Field : Position(f) = Place(f)
  BY DEF Position, Place, Field
<1>2. /\ {"uids", "username", "gids"} \subseteq Field /\ "uids" \in Common
      /\ Common \subseteq Field
  BY DEF Field, Common
<1>3. Place("uids") = 6 /\ Place("username") = 7 /\ Place("gids") = 8
  BY DEF Place
<1> QED
  BY <1>1, <1>2, <1>3

\* The fields come in the order of the processes, and as long as nothing fails in
\* the call, all that every process has and that is read between two fields of
\* one process, or after a field of the present one, is of this process.
THEOREM Assembled == Spec => [](FieldOrder /\ Together)
<1>1. Init => FieldOrder /\ Together
  <2> SUFFICES ASSUME Init PROVE FieldOrder /\ Together
    OBVIOUS
  <2>1. /\ fp = 0 /\ inc = 0 /\ state = "gone" /\ Misread # 0
        /\ "uids" \in Field /\ "username" \in Field
        /\ \A f \in Field : ret[f] = 0
    BY IncarnationAssumption DEF Init, Nothing, Field, Misread
  <2>2. 0 \notin Incarnation
    BY DEF Incarnation
  <2> QED
    BY <2>1, <2>2 DEF FieldOrder, Together
<1>2. TypeOK /\ Streams /\ FieldOrder /\ Together /\ [Next]_vars
        => FieldOrder' /\ Together'
  <2> SUFFICES ASSUME TypeOK, Streams, FieldOrder, Together, [Next]_vars
               PROVE  FieldOrder' /\ Together'
    OBVIOUS
  <2>n. /\ inc \in 0 .. MaxIncarnations /\ fp \in 0 .. MaxIncarnations
        /\ DOMAIN ret = Field
        /\ \A f \in Field : ret[f] \in 0 .. MaxIncarnations \/ ret[f] = Misread
        /\ MaxIncarnations \in Nat
        /\ Misread = MaxIncarnations + 1 /\ Incarnation = 1 .. MaxIncarnations
    BY IncarnationAssumption DEF TypeOK, Misread, Incarnation
  <2>i. /\ inc # Misread /\ fp # Misread /\ Misread # 0
        /\ Misread \notin Incarnation /\ 0 \notin Incarnation
        /\ \A f \in Field : ret[f] \in Int
        /\ \A f \in Field : ret[f] \in Incarnation <=> ret[f] # 0 /\ ret[f] # Misread
    BY <2>n
  <2>p. /\ \A f \in Field : Place(f) \in 1 .. 9
        /\ \A f, g \in Field : Place(f) = Place(g) => f = g
    BY Order
  <2>3. CASE system
    <3>1. /\ UNCHANGED code
          /\ \/ inc' = inc + 1 /\ inc < MaxIncarnations
             \/ inc' = inc /\ (state' # "gone" => state # "gone")
      BY <2>3 DEF system, Spawn, Relink, Exit, Reap
    <3>2. \A i : Whole(i)' <=> Whole(i)
      BY <3>1 DEF code, Whole, Read
    <3>3. FieldOrder'
      BY <2>i, <2>n, <3>1 DEF FieldOrder, code
    <3>4. inc' = inc + 1 => Whole(inc')
      BY <2>i, <2>n, <3>1 DEF FieldOrder, Whole
    <3>5. Together'
      BY <3>1, <3>2, <3>4 DEF Together, code
    <3> QED
      BY <3>3, <3>5
  <2>4. CASE Call \/ free_process
    <3>1. /\ UNCHANGED <<process, fp>> /\ fp = 0
          /\ pc' \in {"ppid", "crashed", "idle"}
          /\ "uids" \in Field /\ "username" \in Field
          /\ \A f \in Field : ret'[f] = 0
      BY <2>4 DEF Call, free_process, Streams, FileField, Nothing, Field
    <3>2. \A g \in Field : ~Read(g)'
      <4>1. Place("ppid") = 1 /\ "crashed" \notin Within /\ "idle" \notin Within
        BY DEF Place, Within, Field
      <4> QED
        BY <2>p, <3>1, <4>1 DEF Read
    <3>3. FieldOrder'
      BY <2>i, <2>n, <3>1 DEF FieldOrder, process
    <3>4. \A i : Whole(i)'
      BY <3>2, Positions DEF Whole
    <3>5. Together'
      BY <2>i, <3>1, <3>4 DEF Together
    <3> QED
      BY <3>3, <3>5
  <2>5. CASE Moves
    <3>1. \A i : Whole(i) => Whole(i)'
      BY <2>5, Positions DEF Moves, Whole
    <3>2. FieldOrder'
      BY <2>5, <2>n DEF Moves, FieldOrder, process
    <3>3. Together'
      BY <2>5, <3>1 DEF Moves, Together, process
    <3> QED
      BY <3>2, <3>3
  <2>6. ASSUME NEW x, Dies(x) PROVE FieldOrder' /\ Together'
    <3>1. /\ UNCHANGED <<ret, process>> /\ pc' = "crashed" /\ fp' = 0
          /\ failures' = 0 => failures = 0
      BY <2>6 DEF Dies, Crash
    <3>2. \A i : Whole(i)'
      BY <3>1 DEF Whole, Read, Within, Field
    <3>3. FieldOrder'
      BY <2>n, <3>1 DEF FieldOrder, process
    <3>4. Together'
      BY <3>1, <3>2 DEF Together
    <3> QED
      BY <3>3, <3>4
  <2>7. ASSUME NEW f \in Field, NEW v, Reads(f, v) PROVE FieldOrder' /\ Together'
    <3>1. /\ Read(f)' /\ ret'[f] = v /\ fp' = 0
          /\ \A g \in Field \ {f} : (Read(g)' <=> Read(g)) /\ ret'[g] = ret[g]
          /\ UNCHANGED process
          /\ Source(f, v)
          /\ failures' = 0 => failures = 0
      BY <2>7, <2>n, GotReads DEF Reads
    \* Fields before f have been read, fields after it have not
    <3>2. /\ \A g \in Field : Place(g) < Place(f) => Read(g) /\ ret'[g] = ret[g]
          /\ \A g \in Field : Place(g) > Place(f) => ~Read(g)' /\ ret'[g] = 0
          /\ \A g \in Field : ~(Place(g) < Place(f)) => ret[g] = 0
      <4>1. pc \in Within /\ Place(pc) = Place(f)
        <5>1. CASE pc = f
          BY <5>1 DEF Within
        <5>2. CASE pc = "lstat" /\ f = "exe"
          BY <5>2 DEF Place, Within
        <5> QED
          BY <2>7, <5>1, <5>2 DEF Reads
      <4>2. \A g \in Field : (Read(g) <=> Place(g) < Place(f)) /\ (~Read(g) => ret[g] = 0)
        BY <4>1 DEF Read, Streams
      <4> QED
        BY <2>p, <3>1, <4>2
    <3>3. \/ v = Misread /\ f # "uids"
          \/ v \in 0 .. inc
      BY <2>i, <2>n, <3>1, Positions DEF Source, FieldOrder
    <3>4. v # Misread /\ v # 0 => \A g \in Field : ret[g] # Misread => ret[g] <= v
      <4> SUFFICES ASSUME v # Misread, v # 0, NEW g \in Field, ret[g] # Misread
                   PROVE  ret[g] <= v
        OBVIOUS
      <4>1. ret[g] <= inc /\ (fp # 0 => ret[g] <= fp)
        BY DEF FieldOrder
      <4>2. CASE f = "username" /\ v = ret["uids"]
        <5>1. CASE Place(g) < 6
          BY <2>i, <4>2, <5>1, Positions DEF FieldOrder
        <5>2. CASE g = "uids"
          BY <2>i, <4>2, <5>2
        <5>3. CASE Place(g) > 6
          <6>1. ret[g] = 0
            BY <2>p, <3>2, <4>2, <5>3, Positions
          <6> QED
            BY <2>n, <4>2, <6>1, Positions
        <5> QED
          BY <2>p, <5>1, <5>2, <5>3, Positions
      <4> QED
        BY <3>1, <4>1, <4>2 DEF Source
    <3>5. ret'["uids"] # Misread /\ ret'["username"] \in {0, ret'["uids"]}
      <4>1. CASE f = "uids"
        BY <2>i, <2>n, <3>1, <3>2, <3>3, <4>1, Positions
      <4>2. CASE f = "username"
        BY <3>1, <4>2, Positions DEF Source, FieldOrder
      <4>3. CASE f \notin {"uids", "username"}
        BY <3>1, <4>3, Positions DEF FieldOrder
      <4> QED
        BY <4>1, <4>2, <4>3
    <3>6. ASSUME NEW g \in Field, ret'[g] # Misread
          PROVE  ret'[g] <= inc
      BY <2>n, <3>1, <3>3, <3>6 DEF FieldOrder
    <3>7. ASSUME NEW g \in Field, NEW h \in Field, Place(g) < Place(h),
                 ret'[g] # Misread, ret'[h] \in Incarnation
          PROVE  ret'[g] <= ret'[h]
      <4>1. CASE h = f
        BY <2>i, <3>1, <3>2, <3>4, <3>7, <4>1
      <4>2. CASE h # f
        <5>1. Place(h) < Place(f)
          BY <2>i, <2>p, <3>2, <3>7, <4>2
        <5>2. Place(g) < Place(f)
          BY <2>p, <3>7, <5>1
        <5> QED
          BY <3>2, <3>7, <5>1, <5>2 DEF FieldOrder
      <4> QED
        BY <4>1, <4>2
    <3>8. FieldOrder'
      BY <2>n, <3>1, <3>5, <3>6, <3>7 DEF FieldOrder, process
    <3>9. ASSUME failures' = 0, state # "gone" PROVE Whole(inc)'
      <4> SUFFICES ASSUME NEW e \in Field, NEW g \in Common, Read(g)',
                          Place(e) < Place(g), ret'[e] = inc
                   PROVE  ret'[g] \in {inc, Misread}
        BY <3>1 DEF Whole, process
      <4>0. /\ g \in Field /\ Whole(inc) /\ inc # 0
            /\ Place(g) < Place(f) \/ g = f
        BY <2>p, <3>1, <3>2, <3>9, Positions DEF Together, Streams
      <4>1. Place(e) < Place(f) /\ ret[e] = inc /\ ret'[e] = ret[e]
        BY <2>p, <3>2, <4>0
      <4>2. CASE g # f
        BY <3>2, <4>0, <4>1, <4>2 DEF Whole
      <4>3. CASE g = f
        <5>1. fp # 0 => fp = inc
          BY <2>i, <2>n, <4>1 DEF FieldOrder
        <5>2. ~(fp # 0 /\ ~Alive(fp))
          BY <3>9, <5>1 DEF Alive
        <5>3. Place(f) > 6 => ret["uids"] = inc
          <6> SUFFICES ASSUME Place(f) > 6 PROVE ret["uids"] = inc
            OBVIOUS
          <6>1. CASE Place(e) < 6
            BY <3>2, <4>0, <4>1, <6>1, Positions DEF Whole, FieldOrder
          <6>2. CASE e = "uids"
            BY <4>1, <6>2
          <6>3. CASE e = "username"
            BY <4>0, <4>1, <6>3 DEF FieldOrder
          <6>4. Place(e) < 6 \/ e = "uids" \/ e = "username" \/ Place(e) > 7
            BY <2>p, Positions
          <6>5. CASE Place(e) > 7
            \* Then f would have to be the terminal
            <7>1. Place(f) > 8
              BY <2>p, <4>1, <6>5
            <7>2. f = "terminal" /\ "terminal" \notin Common
              BY <7>1 DEF Place, Field, Common
            <7> QED
              BY <4>3, <7>2
          <6> QED
            BY <6>1, <6>2, <6>3, <6>4, <6>5
        <5>4. CASE v = 0 /\ f = "gids"
          BY <2>i, <3>1, <3>9, <4>0, <4>3, <5>2, <5>3, <5>4, Positions DEF Source
        <5>5. CASE f = "username" /\ v = ret["uids"]
          BY <3>1, <4>3, <5>3, <5>5, Positions
        <5>6. v \in {inc, Misread} \/ (v = 0 /\ f = "gids")
                \/ (f = "username" /\ v = ret["uids"])
          BY <3>1, <3>9, <4>3, <5>1, <5>2 DEF Source
        <5> QED
          BY <3>1, <4>3, <5>4, <5>5, <5>6
      <4> QED
        BY <4>2, <4>3
    <3>10. ASSUME failures' = 0, NEW e \in Field, NEW h \in Field, NEW g \in Common,
                  Place(e) < Place(g), Place(g) < Place(h),
                  ret'[e] \in Incarnation, ret'[e] = ret'[h]
           PROVE  ret'[g] \in {ret'[e], Misread}
      <4>0. g \in Field /\ (Place(h) < Place(f) \/ h = f) /\ failures = 0
        BY <2>i, <2>p, <3>1, <3>2, <3>10, Positions
      <4>1. /\ Place(e) < Place(f) /\ Place(g) < Place(f)
            /\ Read(g) /\ ret'[e] = ret[e] /\ ret'[g] = ret[g]
        BY <2>p, <3>2, <3>10, <4>0
      <4>2. CASE h # f
        BY <3>1, <3>10, <4>0, <4>1, <4>2 DEF Together
      <4>3. CASE h = f
        <5>1. v = ret[e] /\ v # Misread /\ v # 0
          BY <2>i, <3>1, <3>10, <4>1, <4>3
        <5>2. CASE v = inc /\ state # "gone"
          BY <3>10, <4>0, <4>1, <5>1, <5>2 DEF Together, Whole
        <5>3. CASE v = fp /\ fp # 0
          BY <3>10, <4>0, <4>1, <5>1, <5>3 DEF Together, Whole
        <5>4. CASE f = "username" /\ v = ret["uids"]
          <6>1. CASE g = "uids"
            BY <4>1, <5>1, <5>4, <6>1
          <6>2. CASE g # "uids"
            <7>1. Place(g) \in 1 .. 9 /\ Place(g) < 7 /\ Place(g) # 6
              BY <2>p, <4>0, <4>1, <5>4, <6>2, Positions
            <7>2. /\ Place(e) < Place(g) /\ Place(g) < Place("uids")
                  /\ ret[e] \in Incarnation /\ ret[e] = ret["uids"] /\ "uids" \in Field
              BY <3>10, <4>1, <5>1, <5>4, <7>1, Positions
            <7>3. ret[g] \in {ret[e], Misread}
              BY <4>0, <7>2 DEF Together
            <7> QED
              BY <4>1, <7>3
          <6> QED
            BY <6>1, <6>2
        <5> QED
          BY <3>1, <5>1, <5>2, <5>3, <5>4 DEF Source
      <4> QED
        BY <4>2, <4>3
    <3>11. Together'
      BY <3>1, <3>9, <3>10 DEF Together, process
    <3> QED
      BY <3>8, <3>11
  <2>8. CASE UNCHANGED vars
    <3>1. \A i : Whole(i)' <=> Whole(i)
      BY <2>8 DEF vars, Whole, Read
    <3> QED
      BY <2>8, <3>1 DEF vars, process, FieldOrder, Together
  <2> QED
    BY <2>3, <2>4, <2>5, <2>6, <2>7, <2>8, Kinds DEF Next
<1> QED
  BY <1>1, <1>2, TypeCorrect, PTL DEF Spec

\* Whatever processes come and go during a call, get_process returns their fields
\* in order, and if nothing fails those between two fields of one process are of
\* this process.
THEOREM InOrder == Spec => []FieldsInOrder
<1>1. FieldOrder /\ Together => FieldsInOrder
  <2> SUFFICES ASSUME FieldOrder, Together,
                      NEW f \in Field, NEW h \in Field, Place(f) < Place(h),
                      ret[f] \in Incarnation, ret[h] \in Incarnation
               PROVE  /\ ret[f] <= ret[h]
                      /\ failures = 0 /\ ret[f] = ret[h] =>
                           \A g \in Common : Place(f) < Place(g) /\ Place(g) < Place(h) =>
                             ret[g] \in {ret[f], Misread}
    BY Positions DEF FieldsInOrder
  <2>1. ret[f] # Misread
    BY IncarnationAssumption DEF Incarnation, Misread
  <2> QED
    BY <2>1 DEF FieldOrder, Together
<1> QED
  BY <1>1, Assembled, PTL

\* A call in which nothing fails dies only if the process goes between its uids
\* and its gids or, on Linux, while its stat file is open, whatever happened in
\* the calls before it and however many processes have the pid in its course.
THEOREM RacesKill == Spec => []CrashNeedsRace
<1>1. Init => Deaths
  BY DEF Init, Deaths
<1>2. TypeOK /\ Streams /\ FieldOrder /\ Contained' /\ Deaths /\ [Next]_vars => Deaths'
  <2> SUFFICES ASSUME TypeOK, Streams, FieldOrder, Contained', Deaths, [Next]_vars
               PROVE  Deaths'
    OBVIOUS
  <2>n. /\ inc \in Int /\ fp \in Int /\ ret["uids"] \in Int /\ DOMAIN ret = Field
        /\ ret["uids"] <= inc /\ (fp # 0 => fp <= inc /\ ret["uids"] <= fp)
    <3>1. /\ inc \in Int /\ fp \in Int /\ ret["uids"] \in Int /\ DOMAIN ret = Field
      <4>1. "uids" \in Field /\ MaxIncarnations \in Nat
        BY IncarnationAssumption DEF Field
      <4>2. /\ inc \in 0 .. MaxIncarnations /\ fp \in 0 .. MaxIncarnations
            /\ ret \in [Field -> (0 .. MaxIncarnations) \cup {MaxIncarnations + 1}]
        BY DEF TypeOK, Misread
      <4>3. ret["uids"] \in (0 .. MaxIncarnations) \cup {MaxIncarnations + 1}
        BY <4>1, <4>2
      <4> QED
        BY <4>1, <4>2, <4>3
    <3>2. "uids" \in Field
      BY DEF Field
    <3> QED
      BY <3>1, <3>2 DEF FieldOrder
  <2>1. CASE system
    <3>1. /\ UNCHANGED code
          /\ steady' => steady
          /\ inc' = inc + 1 \/ (inc' = inc /\ (state' # "gone" => state # "gone"))
      BY <2>1 DEF system, Spawn, Relink, Exit, Reap
    <3>2. ~Alive(ret["uids"]) => ~Alive(ret["uids"])'
      BY <2>n, <3>1 DEF Alive, code
    <3> QED
      BY <3>1, <3>2 DEF Deaths, code
  <2>2. CASE Call
    <3>1. \/ pc' = "ppid" /\ faults' = {}
          \/ pc' = "crashed" /\ failures' = 1
      BY <2>2 DEF Call
    <3> QED
      BY <3>1 DEF Deaths
  <2>3. CASE free_process
    BY <2>3 DEF free_process, Deaths
  <2>4. CASE Moves
    BY <2>4 DEF Moves, Deaths
  <2>5. ASSUME NEW f \in Field, NEW v, Reads(f, v) PROVE Deaths'
    <3>1. pc # "crashed" /\ pc' # "crashed"
      BY <2>5, <2>n, GotReads DEF Reads, Field
    <3> QED
      BY <2>5, <3>1 DEF Reads, Deaths
  <2>6. ASSUME NEW x \in {"gids", "atof", "uids", "terminal"}, Dies(x) PROVE Deaths'
    <3>1. /\ UNCHANGED <<ret, process>> /\ pc' = "crashed" /\ pc # "crashed"
          /\ faults' = faults \cup {x}
          /\ faults \subseteq {"underwrite", "overrun", "bad_free"}
      BY <2>6 DEF Dies, Crash, Field, Deaths
    <3>2. ASSUME failures' = 0
          PROVE  /\ ~steady'
                 /\ \/ "gids" \in faults' /\ ret["uids"] # 0 /\ ~Alive(ret["uids"])
                    \/ "gids" \notin faults' /\ platform = "linux" /\ "atof" \in faults'
      <4>1. ~steady'
        BY <3>1, <3>2 DEF Contained
      <4>2. CASE /\ x = "gids" /\ ret["uids"] # 0
                 /\ state = "gone" \/ (fp # 0 /\ ~Alive(fp))
        BY <2>n, <3>1, <4>1, <4>2 DEF Alive
      <4>3. CASE x = "atof" /\ platform = "linux"
        BY <3>1, <4>1, <4>3
      <4> QED
        BY <2>6, <3>2, <4>2, <4>3 DEF Dies
    <3>3. Alive(ret["uids"])' = Alive(ret["uids"])
      BY <3>1 DEF Alive, process
    <3> QED
      BY <3>1, <3>2, <3>3 DEF Deaths, process
  <2>7. CASE UNCHANGED vars
    BY <2>7 DEF vars, process, Deaths, Alive
  <2> QED
    BY <2>1, <2>2, <2>3, <2>4, <2>5, <2>6, <2>7, Kinds DEF Next
<1>3. Deaths /\ Contained => CrashNeedsRace
  BY DEF Deaths, Contained, CrashNeedsRace
<1> QED
  BY <1>1, <1>2, <1>3, TypeCorrect, Assembled, SteadyCalls, PTL DEF Spec
=============================================================================
