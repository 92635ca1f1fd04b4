----------------------------- MODULE GrowArray -----------------------------
(***************************************************************************)
(* The array of results that get_users and disk_partitions fill and double *)
(* when it is full (pslib_linux.c, and the same statements in pslib_osx.c).*)
(* A value v of this module stands for four C variables:                   *)
(*   v.blk   the heap block that ret->users / ret->partitions points at    *)
(*   v.len   ret->nitems                                                   *)
(*   v.cap   nusers / nparts, the entries v.blk has room for               *)
(*   v.cblk, v.cidx   the write cursor u / d: a block and an index in it   *)
(* The cursor is kept apart from blk and len because realloc may move the  *)
(* array while the cursor still points into the block it released.         *)
(***************************************************************************)
EXTENDS Naturals

ArrayType(Block) ==
  [blk : Block, len : Nat, cap : Nat, cblk : Block, cidx : Nat]

\* calloc(n, ...), nitems = 0, cursor at the first entry
NewArray(b, n) == [blk |-> b, len |-> 0, cap |-> n, cblk |-> b, cidx |-> 0]

\* A store through the cursor hits an entry of an array that is still allocated
StoreInBounds(v, heap) == v.cblk \in heap /\ v.cidx < v.cap

\* ret->nitems++; u++
Advance(v) == [v EXCEPT !.len = @ + 1, !.cidx = @ + 1]

\* Fault: the test is for more items than fit
FullLate(v) == v.len > v.cap

\* ret->nitems == nusers
Full(v) == v.len = v.cap

\* Fault: the cursor is not recomputed
RegrowStaleCursor(v, b) == [v EXCEPT !.blk = b, !.cap = 2 * @]

\* nusers *= 2, the realloc that returned block b, and the cursor recomputed
Regrow(v, b) ==
  [v EXCEPT !.blk = b, !.cap = 2 * @, !.cblk = b, !.cidx = v.len]

\* What the loop relies on whenever it is about to read the next record: the
\* cursor is the first unused entry of the live array, and there is one.
CursorReady(v, heap) ==
  /\ v.blk \in heap
  /\ v.cblk = v.blk
  /\ v.cidx = v.len
  /\ v.len < v.cap
=============================================================================
