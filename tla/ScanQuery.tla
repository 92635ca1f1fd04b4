----------------------------- MODULE ScanQuery -----------------------------
(***************************************************************************)
(* What a caller may expect of a function that lists a system table while  *)
(* other programs change the table.  The table has N slots; a slot holds a *)
(* value of Value or is Vacant.  Between Begin and the answer the query    *)
(* may look at every slot once, at a moment of its choice: the list it     *)
(* returns has, for every slot in order, a value the slot held at some     *)
(* time during the query, vacant slots left out.  A query may also refuse  *)
(* (the C functions return NULL).                                          *)
(***************************************************************************)
EXTENDS Naturals, Sequences

CONSTANTS N, Value, Vacant, Refusal

VARIABLES
  table,     \* table[i]: what slot i holds now
  status,    \* "idle", "busy" or "answered"
  seen,      \* seen[i]: what slot i held since the query began
  answer     \* the list returned, Refusal when there is none

vars == <<table, status, seen, answer>>

Slot == 1 .. N
Content == Value \cup {Vacant}

\* s is the list that results when slot i was looked at while it held f[i]
Lists(s, f) ==
  /\ s \in Seq(Slot \X Value)
  /\ \A j, k \in 1 .. Len(s) : j < k => s[j][1] < s[k][1]
  /\ {s[j] : j \in 1 .. Len(s)} =
       {<<i, f[i]>> : i \in {k \in Slot : f[k] # Vacant}}

Init ==
  /\ table \in [Slot -> Content]
  /\ status = "idle"
  /\ seen = [i \in Slot |-> {}]
  /\ answer = Refusal

Begin ==
  /\ status = "idle"
  /\ status' = "busy"
  /\ seen' = [i \in Slot |-> {table[i]}]
  /\ UNCHANGED <<table, answer>>

Change(i, v) ==
  /\ table' = [table EXCEPT ![i] = v]
  /\ seen' = IF status = "busy" THEN [seen EXCEPT ![i] = @ \cup {v}] ELSE seen
  /\ UNCHANGED <<status, answer>>

Answer ==
  /\ status = "busy"
  /\ status' = "answered"
  /\ answer' # Refusal
  /\ \E f \in [Slot -> Content] :
       /\ \A i \in Slot : f[i] \in seen[i]
       /\ Lists(answer', f)
  /\ UNCHANGED <<table, seen>>

Refuse ==
  /\ status = "busy"
  /\ status' = "answered"
  /\ answer' = Refusal
  /\ UNCHANGED <<table, seen>>

Release ==
  /\ status = "answered"
  /\ status' = "idle"
  /\ answer' = Refusal
  /\ seen' = [i \in Slot |-> {}]
  /\ UNCHANGED table

Next ==
  \/ Begin \/ Answer \/ Refuse \/ Release
  \/ \E i \in Slot, v \in Content : Change(i, v)

Spec == Init /\ [][Next]_vars
=============================================================================
