--------------------------- MODULE MCOsxListings ---------------------------
(* Three disks that are counted, one that has no name, and a member that   *)
(* is neither a physical mount nor a block device.                         *)
EXTENDS OsxListings, TLC

CONSTANTS a, b, c, d, e

MCObject == {a, b, c, d, e}
MCWanted == {a, b, c, d}
MCNameless == {d}
Symmetry == Permutations({a, b, c})
=============================================================================
