----------------------------- MODULE GetProcess -----------------------------
(***************************************************************************)
(* get_process and free_process of pslib_linux.c and pslib_osx.c, with the *)
(* functions that read one field each: get_ppid, get_procname, get_exe,    *)
(* get_cmdline and clean_cmdline, get_create_time, get_ids (get_uids and   *)
(* get_gids on OS X), get_username, get_terminal.                          *)
(*                                                                         *)
(* The fields are read one after the other, on Linux from files under      *)
(* /proc/<pid>, on OS X by system calls, while the process may exec, exit, *)
(* be reaped, and its pid be given to another process.  An incarnation is  *)
(* one process that has the pid; a file opened under /proc belongs to the  *)
(* incarnation that had the pid then, and cannot be read once that one is  *)
(* gone.                                                                   *)
(*                                                                         *)
(* A field is the incarnation it was read from, or 0 where the code puts   *)
(* NULL, -1 or, for the ids, user and group 0, or Misread if it is some    *)
(* other field of /proc/<pid>/stat, or a part of the right one.            *)
(***************************************************************************)
EXTENDS Integers

CONSTANTS
  MaxIncarnations,   \* processes that have the pid, one after the other
  BufSize,           \* bytes for a link at first: 1024
  PathMax,           \* longest link in /proc
  MaxCalls,
  MaxFailures        \* in one call

ASSUME LinkAssumption == BufSize \in Nat /\ BufSize > 1 /\ PathMax \in Nat
ASSUME IncarnationAssumption == MaxIncarnations \in Nat

VARIABLES
  platform,   \* "linux" or "osx"
  inc,        \* incarnations so far
  state,      \* of the last one: "running", "zombie" or "gone"
  kind,       \* "own", "other" (of another user) or "kernel" (a kernel thread,
              \* or pid 0 of OS X)
  linklen,    \* length of its links exe and fd/0, 0 if it has none
  spaced,     \* there is a space in its name
  pc,         \* the field being read, "idle", "done" or "crashed"
  fp,         \* the incarnation whose file is open, or 0
  files,      \* open streams
  bufsize,    \* of the link being read, 0 before its calloc
  ret,        \* the Process structure
  link,       \* length stored for the last link, and its real length
  heap,       \* live blocks <<call, name>>
  faults,     \* of this call, or of the last one
  calls,
  failures,   \* of this call, or of the last one
  steady      \* history: the incarnation has not changed during the call

process == <<platform, inc, state, kind, linklen, spaced>>
vars == <<process, pc, fp, files, bufsize, ret, link, heap, faults,
          calls, failures, steady>>

Field == {"ppid", "name", "exe", "cmdline", "create_time", "uids", "username",
          "gids", "terminal"}
Pointer == {"name", "exe", "cmdline", "username", "terminal"}
Incarnation == 1 .. MaxIncarnations
Nothing == [f \in Field |-> 0]
Misread == MaxIncarnations + 1

Alive(i) == inc = i /\ state # "gone"
Fail == failures < MaxFailures /\ failures' = failures + 1
Block(name) == <<calls, name>>

\* Fault: free_process forgets the username
OwnedWithoutUsername ==
  {Block("process")}
    \cup {Block(f) : f \in {g \in Pointer \ {"username"} : ret[g] # 0}}

Owned == {Block("process")} \cup {Block(f) : f \in {g \in Pointer : ret[g] # 0}}

Init ==
  /\ platform \in {"linux", "osx"}
  /\ inc = 0 /\ state = "gone" /\ kind = "own" /\ linklen = 0 /\ spaced = FALSE
  /\ pc = "idle"
  /\ fp = 0 /\ files = 0 /\ bufsize = 0
  /\ ret = Nothing
  /\ link = <<0, 0>>
  /\ heap = {} /\ faults = {}
  /\ calls = 0 /\ failures = 0
  /\ steady = TRUE
-----------------------------------------------------------------------------
(* The process.                                                            *)
code == <<platform, pc, fp, files, bufsize, ret, link, heap, faults, calls, failures>>

Spawn(k, n, s) ==
  /\ state = "gone"
  /\ inc < MaxIncarnations
  /\ platform = "osx" /\ k = "kernel" => inc = 0
  /\ inc' = inc + 1
  /\ state' = "running"
  /\ kind' = k
  /\ linklen' = n
  /\ spaced' = s
  /\ steady' = FALSE
  /\ UNCHANGED code

\* exec, or standard input opened on another file
Relink(n) ==
  /\ state = "running" /\ kind # "kernel"
  /\ linklen' = n
  /\ UNCHANGED <<inc, state, kind, spaced, steady, code>>

Exit ==
  /\ state = "running" /\ kind # "kernel"
  /\ state' = "zombie"
  /\ linklen' = 0
  /\ steady' = FALSE
  /\ UNCHANGED <<inc, kind, spaced, code>>

Reap ==
  /\ state = "zombie"
  /\ state' = "gone"
  /\ kind' = "own" /\ spaced' = FALSE
  /\ steady' = FALSE
  /\ UNCHANGED <<inc, linklen, code>>
-----------------------------------------------------------------------------
(* The call.                                                               *)
After(f) ==
  CASE f = "ppid" -> "name"
    [] f = "name" -> "exe"
    [] f = "exe" -> "cmdline"
    [] f = "cmdline" -> "create_time"
    [] f = "create_time" -> "uids"
    [] f = "uids" -> "username"
    [] f = "username" -> "gids"
    [] f = "gids" -> "terminal"
    [] f = "terminal" -> "return"

\* Field f has been read from incarnation i, 0 for none
Got(f, i) ==
  /\ ret' = [ret EXCEPT ![f] = i]
  /\ pc' = After(f)

Crash(fault) ==
  /\ pc' = "crashed"
  /\ faults' = faults \cup {fault}
  /\ UNCHANGED ret

Call ==
  /\ pc = "idle"
  /\ calls < MaxCalls
  /\ calls' = calls + 1
  /\ ret' = Nothing
  /\ steady' = TRUE
  /\ \/ /\ pc' = "ppid"
        /\ heap' = heap \cup {<<calls', "process">>}
        /\ faults' = {}
        /\ failures' = 0
     \/ /\ MaxFailures > 0 /\ failures' = 1
        /\ pc' = "crashed"        \* retval->pid = pid with retval NULL
        /\ faults' = {"retval"}
        /\ UNCHANGED heap
  /\ UNCHANGED <<process, fp, files, bufsize, link>>

\* The fields that are read from a file
FileField == {"ppid", "name", "cmdline", "create_time", "uids", "gids"}

\* Fault: gids are copied without a test
GidsMissingUnchecked == Crash("gids")

\* gids decide nothing: the code tests uids once more
GidsMissing ==
  IF ret["uids"] # 0 THEN Crash("gids") ELSE Got("gids", 0) /\ UNCHANGED faults

OpenFile(f) ==
  /\ platform = "linux"
  /\ pc = f /\ fp = 0
  /\ state # "gone"
  /\ fp' = inc
  /\ files' = files + 1
  /\ UNCHANGED <<process, pc, bufsize, ret, link, heap, faults, calls,
                 failures, steady>>

\* fopen fails, or a calloc before it
OpenFails(f) ==
  /\ platform = "linux"
  /\ pc = f /\ fp = 0
  /\ (state = "gone" /\ UNCHANGED failures) \/ Fail
  /\ IF f = "gids" THEN GidsMissing ELSE (Got(f, 0) /\ UNCHANGED faults)
  /\ UNCHANGED <<process, fp, files, bufsize, link, heap, calls, steady>>

\* Fault: fclose after the read, and once more at error
CloseTwice == fp' = 0 /\ files' = files - 2

Close == fp' = 0 /\ files' = files - 1

\* Fault: the line that get_ppid has read is parsed once more
ParsedFromCache(f) ==
  IF f = "create_time" /\ ret["ppid"] # 0 THEN ret["ppid"] ELSE fp

\* strtok, in grep_awk and get_procname, splits the line of /proc/<pid>/stat at
\* the spaces, those in the name of the process included
Parsed(f) == IF spaced /\ f \in {"name", "create_time"} THEN Misread ELSE fp

\* The read succeeds and the value is copied to the heap
ReadFile(f) ==
  /\ pc = f /\ fp # 0
  /\ f # "cmdline"
  /\ Alive(fp)
  /\ Got(f, IF f = "gids" /\ ret["uids"] = 0 THEN 0 ELSE Parsed(f))
  /\ heap' = IF f \in {"name", "uids", "gids"} THEN heap \cup {Block(f)} ELSE heap
  /\ Close
  /\ UNCHANGED <<process, bufsize, link, faults, calls, failures, steady>>

\* The process is gone since the open, or memory has run out.  A name may be
\* missed because its strdup fails after the stream has been closed.
ReadFails(f) ==
  /\ pc = f /\ fp # 0
  /\ f # "cmdline"
  /\ (~Alive(fp) /\ UNCHANGED failures) \/ Fail
  /\ CASE f = "gids" -> GidsMissing
       [] f = "create_time" -> Crash("atof")
       [] OTHER -> Got(f, 0) /\ UNCHANGED faults
  /\ Close
  /\ UNCHANGED <<process, bufsize, link, heap, calls, steady>>

\* clean_cmdline ends the string at ip[len - 1], in front of it if len is 0
clean_cmdline(len) ==
  faults' = IF len = 0 THEN faults \cup {"underwrite"} ELSE faults

\* fread returns 0 for a process that is gone, a zombie or a kernel thread
ReadCmdline ==
  /\ pc = "cmdline" /\ fp # 0
  /\ Got("cmdline", fp)
  /\ heap' = heap \cup {Block("cmdline")}
  /\ clean_cmdline(
       IF Alive(fp) /\ state = "running" /\ kind # "kernel" THEN 1 ELSE 0)
  /\ Close
  /\ UNCHANGED <<process, bufsize, link, calls, failures, steady>>

\* getpwuid and strdup, if the uids are known
Username ==
  /\ pc = "username"
  /\ \/ /\ Got("username", ret["uids"])
        /\ heap' = IF ret["uids"] # 0 THEN heap \cup {Block("username")} ELSE heap
        /\ UNCHANGED failures
     \/ /\ ret["uids"] # 0
        /\ Fail
        /\ Got("username", 0)
        /\ UNCHANGED heap
  /\ UNCHANGED <<process, fp, files, bufsize, link, faults, calls, steady>>
-----------------------------------------------------------------------------
(* get_exe and get_terminal: readlink into a buffer that doubles as long   *)
(* as it comes back full.                                                  *)
LinkField == {"exe", "terminal"}

\* Fault: the buffer keeps its size
SameSize == IF bufsize = 0 THEN BufSize ELSE bufsize

NextSize == IF bufsize = 0 THEN BufSize ELSE 2 * bufsize

\* Fault: readlink is asked for one byte less than it is compared with
FullOffByOne(n, size) == n = size

Full(n, size) == n = size - 1

\* readlink fails with ENOENT if there is nothing to point at, and otherwise
\* with EACCES for a process of another user
Enoent ==
  state = "gone" \/ kind = "kernel" \/ (state = "zombie" /\ kind = "own")
NoLink == Enoent \/ kind = "other"

ReadLink(f) ==
  /\ platform = "linux"
  /\ pc = f
  /\ ~NoLink
  /\ LET n == IF linklen < NextSize - 1 THEN linklen ELSE NextSize - 1
     IN  IF Full(n, NextSize)
           THEN /\ bufsize' = NextSize
                /\ UNCHANGED <<pc, ret, link>>
           ELSE /\ bufsize' = 0
                /\ link' = <<n, linklen>>
                /\ Got(f, inc)
  /\ heap' = heap \cup {Block(f)}
  /\ UNCHANGED <<process, fp, files, faults, calls, failures, steady>>

\* error: the buffer is freed
ReadLinkFails(f) ==
  /\ platform = "linux"
  /\ pc = f
  /\ NoLink
  /\ ~(f = "exe" /\ bufsize = 0 /\ Enoent)
  /\ bufsize' = 0
  /\ heap' = heap \ {Block(f)}
  /\ Got(f, 0)
  /\ UNCHANGED <<process, fp, files, link, faults, calls, failures, steady>>

\* The first readlink of get_exe fails with ENOENT: lstat comes next
MaybeNoExe ==
  /\ platform = "linux"
  /\ pc = "exe" /\ bufsize = 0
  /\ Enoent
  /\ pc' = "lstat"
  /\ heap' = heap \cup {Block("exe")}
  /\ UNCHANGED <<process, fp, files, bufsize, ret, link, faults, calls,
                 failures, steady>>

\* Fault: lstat is not asked
NoLstat ==
  /\ pc = "lstat"
  /\ Got("exe", 0)
  /\ heap' = heap \ {Block("exe")}
  /\ UNCHANGED <<process, fp, files, bufsize, link, faults, calls, failures,
                 steady>>

\* The process is there and has no executable ("" is returned), or is not
Lstat ==
  /\ pc = "lstat"
  /\ Got("exe", IF state = "gone" THEN 0 ELSE inc)
  /\ heap' = IF state = "gone" THEN heap \ {Block("exe")} ELSE heap
  /\ UNCHANGED <<process, fp, files, bufsize, link, faults, calls, failures,
                 steady>>

\* The calloc fails, or the realloc, whose NULL replaces the only pointer to
\* the old buffer before readlink rejects it
LinkAllocFails(f) ==
  /\ platform = "linux"
  /\ pc = f
  /\ Fail
  /\ bufsize' = 0
  /\ Got(f, 0)
  /\ UNCHANGED <<process, fp, files, link, heap, faults, calls, steady>>
-----------------------------------------------------------------------------
(* OS X.  No process is held between two system calls.                     *)
KinfoField == {"ppid", "name", "create_time", "uids", "gids", "terminal"}

\* What get_uids, get_gids and get_cmdline have allocated when they return NULL
Lost(f) ==
  Block([uids |-> "lost uids", gids |-> "lost gids", cmdline |-> "lost cmdline"][f])

\* get_kinfo_proc finds the process, zombie or not.  The buffer for the path
\* of a terminal has no room for the final zero.
Kinfo(f) ==
  /\ platform = "osx" /\ pc = f
  /\ state # "gone"
  /\ Got(f, IF f = "gids" /\ ret["uids"] = 0 THEN 0 ELSE inc)
  /\ heap' = IF f \in {"ppid", "create_time"} THEN heap ELSE heap \cup {Block(f)}
  /\ faults' \in {faults} \cup (IF f = "terminal" /\ kind # "kernel"
                                 THEN {faults \cup {"overrun"}} ELSE {})
  /\ UNCHANGED <<process, fp, files, bufsize, link, calls, failures, steady>>

\* get_kinfo_proc fails, or the strdup of a name
KinfoFails(f) ==
  /\ platform = "osx" /\ pc = f
  /\ (state = "gone" /\ UNCHANGED failures) \/ Fail
  /\ IF f = "gids" THEN GidsMissing ELSE (Got(f, 0) /\ UNCHANGED faults)
  /\ heap' = IF f \in {"uids", "gids"} THEN heap \cup {Lost(f)} ELSE heap
  /\ UNCHANGED <<process, fp, files, bufsize, link, calls, steady>>

\* The memory for ids and for the path of a terminal is used without a check
KinfoAllocFails(f) ==
  /\ platform = "osx" /\ pc = f
  /\ state # "gone" /\ (f = "terminal" => kind # "kernel")
  /\ Fail
  /\ Crash(f)
  /\ UNCHANGED <<process, fp, files, bufsize, link, heap, calls, steady>>

\* proc_pidpath, which may refuse for a process of another user
PidPath ==
  /\ platform = "osx" /\ pc = "exe"
  /\ state = "running" /\ kind # "kernel"
  /\ Got("exe", inc)
  /\ heap' = heap \cup {Block("exe")}
  /\ UNCHANGED <<process, fp, files, bufsize, link, faults, calls, failures,
                 steady>>

PidPathFails ==
  /\ platform = "osx" /\ pc = "exe"
  /\ ((state # "running" \/ kind # "own") /\ UNCHANGED failures) \/ Fail
  /\ Got("exe", 0)
  /\ UNCHANGED <<process, fp, files, bufsize, link, heap, faults, calls, steady>>

\* The arguments of a process, into a buffer of 500 bytes: its terminating zero
\* is in front of the buffer for a process without arguments, and behind it if
\* they fill it; too many of them are written there all the same, then dropped.
\* Of a process that has no environment either, as of pid 0, NULL is returned.
Arguments(args) ==
  /\ platform = "osx" /\ pc = "cmdline"
  /\ state = "running"
  /\ args = "pid 0" <=> kind = "kernel"
  /\ kind # "other"
  /\ Got("cmdline", IF args \in {"no strings", "too long", "pid 0"} THEN 0 ELSE inc)
  /\ heap' = CASE args \in {"no strings", "pid 0"} -> heap \cup {Lost("cmdline")}
               [] args = "too long" -> heap
               [] OTHER -> heap \cup {Block("cmdline")}
  /\ faults' = CASE args = "none" -> faults \cup {"underwrite"}
                 [] args \in {"fill", "too long"} -> faults \cup {"overrun"}
                 [] OTHER -> faults
  /\ UNCHANGED <<process, fp, files, bufsize, link, calls, failures, steady>>

ArgumentsFail ==
  /\ platform = "osx" /\ pc = "cmdline"
  /\ ((state # "running" \/ kind = "other") /\ UNCHANGED failures) \/ Fail
  /\ Got("cmdline", 0)
  /\ UNCHANGED <<process, fp, files, bufsize, link, heap, faults, calls, steady>>

osx ==
  \/ \E f \in KinfoField : Kinfo(f) \/ KinfoFails(f)
  \/ \E f \in {"uids", "gids", "terminal"} : KinfoAllocFails(f)
  \/ PidPath \/ PidPathFails
  \/ \E args \in {"pid 0", "no strings", "none", "fit", "fill", "too long"} :
       Arguments(args)
  \/ ArgumentsFail
-----------------------------------------------------------------------------
Return ==
  /\ pc = "return"
  /\ pc' = "done"
  /\ heap' = heap \ {Block("uids"), Block("gids")}
  /\ UNCHANGED <<process, fp, files, bufsize, ret, link, faults, calls,
                 failures, steady>>

free_process ==
  /\ pc = "done"
  /\ pc' = "idle"
  /\ heap' = heap \ Owned
  /\ faults' = IF Owned \subseteq heap THEN faults ELSE faults \cup {"bad_free"}
  /\ ret' = Nothing
  /\ link' = <<0, 0>>
  /\ UNCHANGED <<process, fp, files, bufsize, calls, failures, steady>>

get_process ==
  \/ Call
  \/ \E f \in FileField : OpenFile(f) \/ OpenFails(f) \/ ReadFile(f) \/ ReadFails(f)
  \/ ReadCmdline \/ Username
  \/ \E f \in LinkField : ReadLink(f) \/ ReadLinkFails(f) \/ LinkAllocFails(f)
  \/ MaybeNoExe \/ Lstat
  \/ osx
  \/ Return \/ free_process

Links == 1 .. PathMax

system ==
  \/ Spawn("kernel", 0, FALSE)
  \/ \E k \in {"own", "other"}, n \in Links : Spawn(k, n, FALSE)
  \/ \E n \in Links : Spawn("own", n, TRUE)
  \/ \E n \in Links : Relink(n)
  \/ Exit \/ Reap

Next == get_process \/ system

Spec == Init /\ [][Next]_vars

FairSpec == Spec /\ WF_vars(get_process)
-----------------------------------------------------------------------------
\* Every variable stays in its range: get_process never closes more streams
\* than it has opened, and ret only names processes that had the pid.
TypeOK ==
  /\ platform \in {"linux", "osx"}
  /\ inc \in 0 .. MaxIncarnations
  /\ state \in {"running", "zombie", "gone"}
  /\ kind \in {"own", "other", "kernel"}
  /\ linklen \in 0 .. PathMax /\ spaced \in BOOLEAN
  /\ pc \in Field \cup {"idle", "lstat", "return", "done", "crashed"}
  /\ fp \in 0 .. MaxIncarnations /\ files \in Nat
  /\ bufsize \in Nat
  /\ ret \in [Field -> (0 .. MaxIncarnations) \cup {Misread}]
  /\ link \in (0 .. PathMax) \X (0 .. PathMax)
  /\ heap \subseteq Nat \X (Field \cup {"process", "lost uids", "lost gids",
                                       "lost cmdline"})
  /\ faults \subseteq {"retval", "uids", "gids", "terminal", "atof",
                       "underwrite", "overrun", "bad_free"}
  /\ calls \in Nat /\ failures \in Nat
  /\ steady \in BOOLEAN

\* If nothing fails in a call, whatever did in earlier ones, it only dies because
\* the process goes in its course: after its uids and before its gids are read,
\* or, on Linux, while its stat file is open in get_create_time.  It never dies
\* on a process that stays what it is, be it a process of this or another user,
\* a kernel thread, a zombie or no process at all.  On Linux it does not write
\* outside its buffers either, if that process is running and has a command
\* line; on OS X only the arguments and the terminal of a process make it do so,
\* and a kernel thread or no process never.
CrashNeedsRace ==
  failures = 0 =>
    /\ pc = "crashed" =>
         ~steady /\ ("gids" \in faults \/ (platform = "linux" /\ "atof" \in faults))
    /\ "gids" \in faults => ret["uids"] # 0 /\ ~Alive(ret["uids"])
    /\ steady =>
         /\ platform = "linux" /\ state = "running" /\ kind # "kernel" => faults = {}
         /\ platform = "osx" /\ (state = "gone" \/ kind = "kernel") => faults = {}
         /\ platform = "osx" => faults \subseteq {"underwrite", "overrun"}

\* The order in which the fields are read
Position(f) ==
  CASE f = "ppid" -> 1 [] f = "name" -> 2 [] f = "exe" -> 3 [] f = "cmdline" -> 4
    [] f = "create_time" -> 5 [] f = "uids" -> 6 [] f = "username" -> 7
    [] f = "gids" -> 8 [] f = "terminal" -> 9

\* What any process has, also a zombie, and of any user
Common == Field \ {"exe", "cmdline", "terminal"}

\* If processes come and go during the call, the structure may be put together
\* from several, but they come in order: nothing that is read later is of an
\* earlier process.  If nothing fails in this call, and the first and the last
\* of some fields are of the same process, it was there for those in between.
FieldsInOrder ==
  pc = "done" =>
    \A f, h \in Field :
      Position(f) < Position(h) /\ {ret[f], ret[h]} \subseteq Incarnation =>
        /\ ret[f] <= ret[h]
        /\ failures = 0 /\ ret[f] = ret[h] =>
             \A g \in Common : Position(f) < Position(g) /\ Position(g) < Position(h) =>
               ret[g] \in {ret[f], Misread}

\* For a process that stays what it is and a call in which nothing fails,
\* everything that may be read is there, and nothing at all if there is no
\* process.  On Linux the name and the time of creation are wrong if there is a
\* space in the name.  On OS X the command line may be missing, and the
\* executable of another user's process.
CompleteIfSteady ==
  pc = "done" /\ steady /\ failures = 0 =>
    \A f \in Field :
      IF platform = "linux"
        THEN ret[f] = IF state = "gone" \/ (f = "terminal" /\ NoLink)
                                        \/ (f = "exe" /\ NoLink /\ ~Enoent)
                        THEN 0
                        ELSE IF spaced /\ f \in {"name", "create_time"}
                          THEN Misread ELSE inc
        ELSE /\ ret[f] \in {0, inc}
             /\ state = "gone" => ret[f] = 0
             /\ ret[f] = 0 => state = "gone" \/ f = "cmdline"
                                \/ (f = "exe" /\ ~(state = "running" /\ kind = "own"))

\* Every file that a field was read from has been closed, whichever of open,
\* read and parse failed.  After free_process there remain, on Linux, a link
\* buffer if memory ran out while it was growing, on OS X the ids of a process
\* that had gone and the buffer of a command line that had no strings.
AllReleased ==
  /\ "bad_free" \notin faults
  /\ pc \in {"idle", "done", "return", "lstat"} \cup LinkField => files = 0
  /\ pc = "idle" =>
       \A b \in heap :
         IF platform = "linux"
           THEN b[2] \in LinkField /\ (b[1] = calls => failures > 0)
           ELSE /\ b[2] \in {"lost uids", "lost gids", "lost cmdline"}
                /\ b[1] = calls /\ b[2] # "lost cmdline" =>
                     ~steady \/ state = "gone" \/ failures > 0

\* An executable or terminal is returned in full, also if the link grows
\* from one readlink to the next.
LinksComplete == link[1] = link[2]

\* get_process returns, although the links that it reads again with a larger
\* buffer may change as often as they like.
Terminates == pc = "ppid" ~> pc \in {"done", "crashed"}

\* On Linux, for a pid that no process has any more, get_process logs errors
\* and returns "some structure" (the comment in get_process).
SomeStructure ==
  platform = "linux" /\ state = "gone" /\ failures = 0 => pc # "crashed"
=============================================================================
