------------------------------ MODULE GetUsers ------------------------------
(***************************************************************************)
(* get_users and free_users_info of pslib_linux.c and pslib_osx.c, where   *)
(* getutxent and endutxent take the place of getutent and endutent.        *)
(*                                                                         *)
(* utmp is the login table of the system: one record per terminal line,    *)
(* which other programs overwrite at any time as users come and go.        *)
(* get_users reads it through getutent, whose position in the file belongs *)
(* to the C library and outlives the call: only endutent rewinds it.       *)
(*                                                                         *)
(* A caller calls get_users, receives a list or NULL, releases the list    *)
(* with free_users_info and may call again, MaxCalls times in all.  At     *)
(* most MaxChanges records are overwritten and at most MaxFailures         *)
(* allocations fail.                                                       *)
(*                                                                         *)
(* Heap blocks are triples <<call, kind, n>>: "info" is the UsersInfo,     *)
(* "users" the array (n counts its moves), and "username", "tty" and       *)
(* "hostname" the strings of entry n.                                      *)
(***************************************************************************)
EXTENDS Naturals, Sequences, GrowArray

CONSTANTS
  NRecords,         \* records in the utmp file
  User,             \* who may be logged in on a line
  Nobody,           \* the record's ut_type is not USER_PROCESS
  NULL,
  InitialCapacity,  \* nusers at entry: 100 in the code
  MaxCalls, MaxChanges, MaxFailures

ASSUME CapacityAssumption == InitialCapacity \in Nat \ {0}
ASSUME RecordAssumption == NRecords \in Nat
ASSUME SentinelAssumption ==
  Nobody \notin User /\ NULL \notin Seq((1 .. NRecords) \X User)
ASSUME BoundAssumption == /\ MaxCalls \in Nat
                          /\ MaxChanges \in Nat
                          /\ MaxFailures \in Nat

VARIABLES
  utmp,      \* utmp[i]: the user on line i, or Nobody
  filepos,   \* records getutent has consumed since the file was rewound
  pc,        \* where get_users is, "idle" while the caller runs
  vec,       \* the users array, its capacity and the cursor u
  entries,   \* the entries stored so far: <<line, user>>
  answer,    \* what the last call returned
  heap,      \* live heap blocks
  fault,     \* "none", or the first kind of memory error
  calls, changes, failures,
  before,    \* history: heap when the current call was made
  seen       \* history: seen[i] is what record i held during the call

vars == <<utmp, filepos, pc, vec, entries, answer, heap, fault,
          calls, changes, failures, before, seen>>

Record == 1 .. NRecords
Content == User \cup {Nobody}
Fields == <<"username", "tty", "hostname">>
Kind == {"info", "users", "username", "tty", "hostname"}
Block == Nat \X Kind \X Nat
Running == {"alloc", "scan", "grow"}

Strings(n, k) == {<<calls, Fields[j], n>> : j \in 1 .. k}

\* Fault: the array itself is not freed
OwnedWithoutArray ==
  {<<calls, "info", 0>>} \cup UNION {Strings(n, 3) : n \in 0 .. vec.len - 1}

\* Fault: hostnames are not freed
OwnedWithoutHostname ==
  {<<calls, "info", 0>>, vec.blk}
    \cup UNION {Strings(n, 2) : n \in 0 .. vec.len - 1}

\* The blocks free_users_info releases: nitems entries, the array, the info
Owned ==
  {<<calls, "info", 0>>, vec.blk}
    \cup UNION {Strings(n, 3) : n \in 0 .. vec.len - 1}

free_users_info(h) ==
  /\ heap' = h \ Owned
  /\ fault' = IF Owned \subseteq h THEN fault ELSE "bad_free"

Fail == failures < MaxFailures /\ failures' = failures + 1
-----------------------------------------------------------------------------
Init ==
  /\ utmp \in [Record -> Content]
  /\ filepos = 0
  /\ pc = "idle"
  /\ vec = NewArray(<<0, "users", 0>>, InitialCapacity)
  /\ entries = <<>>
  /\ answer = NULL
  /\ heap = {}
  /\ fault = "none"
  /\ calls = 0 /\ changes = 0 /\ failures = 0
  /\ before = {}
  /\ seen = [i \in Record |-> {}]

\* Another program logs a user in or out on line i
Overwrite(i, v) ==
  /\ pc # "crashed"
  /\ changes < MaxChanges
  /\ changes' = changes + 1
  /\ utmp[i] # v
  /\ utmp' = [utmp EXCEPT ![i] = v]
  /\ seen' = IF pc \in Running THEN [seen EXCEPT ![i] = @ \cup {v}] ELSE seen
  /\ UNCHANGED <<filepos, pc, vec, entries, answer, heap, fault,
                 calls, failures, before>>

Call ==
  /\ pc = "idle"
  /\ calls < MaxCalls
  /\ calls' = calls + 1
  /\ pc' = "alloc"
  /\ before' = heap
  /\ seen' = [i \in Record |-> {utmp[i]}]
  /\ UNCHANGED <<utmp, filepos, vec, entries, answer, heap, fault,
                 changes, failures>>

\* Both callocs succeed; ret->nitems = 0, ret->users = users
Allocate ==
  /\ pc = "alloc"
  /\ pc' = "scan"
  /\ vec' = NewArray(<<calls, "users", 0>>, InitialCapacity)
  /\ entries' = <<>>
  /\ heap' = heap \cup {<<calls, "info", 0>>, <<calls, "users", 0>>}
  /\ UNCHANGED <<utmp, filepos, answer, fault, calls, changes, failures,
                 before, seen>>

\* check_mem(users) fails: free_users_info sees no array and no entry, and
\* releases the info it was given; NULL is returned
ArrayAllocFails ==
  /\ pc = "alloc"
  /\ Fail
  /\ pc' = "done"
  /\ answer' = NULL
  /\ UNCHANGED <<utmp, filepos, vec, entries, heap, fault, calls, changes,
                 before, seen>>

\* check_mem(ret) fails: free_users_info(NULL) reads through the null pointer.
\* The array has been allocated before on Linux, and not yet on OS X.
InfoAllocFails ==
  /\ pc = "alloc"
  /\ Fail
  /\ pc' = "crashed"
  /\ heap' \in {heap, heap \cup {<<calls, "users", 0>>}}
  /\ fault' = "null_deref"
  /\ UNCHANGED <<utmp, filepos, vec, entries, answer, calls, changes,
                 before, seen>>

\* getutent returned a record of another type: continue
SkipRecord ==
  /\ pc = "scan"
  /\ filepos < NRecords
  /\ utmp[filepos + 1] = Nobody
  /\ filepos' = filepos + 1
  /\ UNCHANGED <<utmp, pc, vec, entries, answer, heap, fault, calls, changes,
                 failures, before, seen>>

\* The three strdups succeed, the entry is counted and the cursor moves on
CopyRecord ==
  /\ pc = "scan"
  /\ filepos < NRecords
  /\ utmp[filepos + 1] # Nobody
  /\ filepos' = filepos + 1
  /\ fault' = IF StoreInBounds(vec, heap) THEN fault ELSE "wild_write"
  /\ heap' = heap \cup Strings(vec.len, 3)
  /\ entries' = Append(entries, <<filepos + 1, utmp[filepos + 1]>>)
  /\ vec' = Advance(vec)
  /\ pc' = IF Full(vec') THEN "grow" ELSE "scan"
  /\ UNCHANGED <<utmp, answer, calls, changes, failures, before, seen>>

\* The strdup after the first k ones fails: check_mem jumps to error, which
\* releases the counted entries, the array and the info.  The k strings of
\* the entry in progress are not counted, and endutent is not called.
CopyFails(k) ==
  /\ pc = "scan"
  /\ filepos < NRecords
  /\ utmp[filepos + 1] # Nobody
  /\ Fail
  /\ filepos' = filepos + 1
  /\ free_users_info(heap \cup Strings(vec.len, k))
  /\ pc' = "done"
  /\ answer' = NULL
  /\ UNCHANGED <<utmp, vec, entries, calls, changes, before, seen>>

\* Fault: the file is rewound when the array is enlarged
GrowRewinds ==
  /\ pc = "grow"
  /\ \E b \in {vec.blk, <<calls, "users", vec.blk[3] + 1>>} :
       /\ vec' = Regrow(vec, b)
       /\ heap' = (heap \ {vec.blk}) \cup {b}
  /\ pc' = "scan"
  /\ filepos' = 0
  /\ UNCHANGED <<utmp, entries, answer, fault, calls, changes, failures,
                 before, seen>>

\* realloc: the array stays where it is, or moves and the old block is freed
Grow ==
  /\ pc = "grow"
  /\ \E b \in {vec.blk, <<calls, "users", vec.blk[3] + 1>>} :
       /\ vec' = Regrow(vec, b)
       /\ heap' = (heap \ {vec.blk}) \cup {b}
  /\ pc' = "scan"
  /\ UNCHANGED <<utmp, filepos, entries, answer, fault, calls, changes,
                 failures, before, seen>>

\* Fault: ret->users = realloc(ret->users, ...)
GrowFailsAssigned ==
  /\ pc = "grow"
  /\ Fail
  /\ vec' = [vec EXCEPT !.blk = NULL]
  /\ heap' = heap \ (Owned \ {vec.blk})
  /\ pc' = "done"
  /\ answer' = NULL
  /\ UNCHANGED <<utmp, filepos, entries, fault, calls, changes, before, seen>>

\* realloc returns NULL: ret->users still points at the old array
GrowFails ==
  /\ pc = "grow"
  /\ Fail
  /\ free_users_info(heap)
  /\ pc' = "done"
  /\ answer' = NULL
  /\ UNCHANGED <<utmp, filepos, vec, entries, calls, changes, before, seen>>

\* Fault: no endutent
EndOfFileNoRewind ==
  /\ pc = "scan"
  /\ filepos = NRecords
  /\ pc' = "done"
  /\ answer' = entries
  /\ UNCHANGED <<utmp, filepos, vec, entries, heap, fault, calls, changes,
                 failures, before, seen>>

\* getutent returned NULL: endutent() rewinds the file, the list is returned
EndOfFile ==
  /\ pc = "scan"
  /\ filepos = NRecords
  /\ filepos' = 0
  /\ pc' = "done"
  /\ answer' = entries
  /\ UNCHANGED <<utmp, vec, entries, heap, fault, calls, changes, failures,
                 before, seen>>

\* The caller is done with the answer and calls free_users_info on a list
Release ==
  /\ pc = "done"
  /\ pc' = "idle"
  /\ IF answer = NULL THEN UNCHANGED <<heap, fault>> ELSE free_users_info(heap)
  /\ answer' = NULL
  /\ entries' = <<>>
  /\ seen' = [i \in Record |-> {}]
  /\ UNCHANGED <<utmp, filepos, vec, calls, changes, failures, before>>

get_users ==
  \/ Call \/ Allocate \/ ArrayAllocFails \/ InfoAllocFails
  \/ SkipRecord \/ CopyRecord \/ (\E k \in 0 .. 2 : CopyFails(k))
  \/ Grow \/ GrowFails \/ EndOfFile \/ Release

Next == get_users \/ \E i \in Record, v \in Content : Overwrite(i, v)

Spec == Init /\ [][Next]_vars
-----------------------------------------------------------------------------
\* Every variable stays in its range: in particular the array that vec names is
\* a block, never the NULL of a failed realloc, on every path of get_users.
TypeOK ==
  /\ utmp \in [Record -> Content]
  /\ filepos \in 0 .. NRecords
  /\ pc \in {"idle", "alloc", "scan", "grow", "done", "crashed"}
  /\ vec \in ArrayType(Block)
  /\ entries \in Seq(Record \X User)
  /\ answer \in Seq(Record \X User) \cup {NULL}
  /\ heap \in SUBSET Block
  /\ fault \in {"none", "null_deref", "wild_write", "bad_free"}
  /\ calls \in Nat /\ changes \in Nat /\ failures \in Nat
  /\ before \in SUBSET Block
  /\ seen \in [Record -> SUBSET Content]

\* Whatever the number of users, and wherever realloc puts the array, the
\* entry that u points at when a record is read is the first unused entry of
\* the array that is live then (the doubling in get_users).
CursorSafe == pc = "scan" => CursorReady(vec, heap)

\* Stores and frees only ever touch live blocks: every failure path frees
\* each block once, the array that a failed realloc left behind included.
NoMemoryError == fault \notin {"wild_write", "bad_free"}

\* A list returned to the caller owns all that the call allocated: once the
\* caller has released it, the heap is what it was before the call.
ReleaseRestoresHeap ==
  [][pc = "done" /\ pc' = "idle" /\ answer # NULL => heap' = before]_vars

\* A call that returns NULL keeps at most the strings of the one entry it was
\* filling, and never the hostname, whose strdup is the last to fail.
FailureKeepsOnlyPartialEntry ==
  pc = "done" /\ answer = NULL => heap \ before \subseteq Strings(vec.len, 2)

\* A list names each terminal line at most once, in the order of the file,
\* also when the line changes hands while the file is read.
OneEntryPerLine ==
  \A j, k \in 1 .. Len(entries) : j < k => entries[j][1] < entries[k][1]

\* The list is a scan of the login table as ScanQuery describes it: all who
\* are logged in throughout the call and nobody who was not there during it.
Scan == INSTANCE ScanQuery WITH
  N <- NRecords, Value <- User, Vacant <- Nobody, Refusal <- NULL,
  table <- utmp,
  status <- CASE pc = "idle" -> "idle" [] pc = "done" -> "answered"
              [] OTHER -> "busy"

\* Until an allocation fails, every step of get_users, and of those who log in
\* and out meanwhile, is one of ScanQuery or invisible to it.  (After a call that
\* failed the next one starts in the middle of the file: EveryUserListed.)
RefinesScan == Scan!Init /\ [][failures' = 0 => Scan!Next]_(Scan!vars)

\* A successful call lists everybody who was logged in all through the call
\* (README.md: "List of users logged in and their information").
EveryUserListed ==
  pc = "done" /\ answer # NULL =>
    \A i \in Record, u \in User :
      seen[i] = {u} => \E j \in 1 .. Len(answer) : answer[j] = <<i, u>>
=============================================================================
