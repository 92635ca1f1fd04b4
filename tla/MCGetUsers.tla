----------------------------- MODULE MCGetUsers -----------------------------
(* GetUsers on a login table of a few lines and an array that starts small *)
EXTENDS GetUsers, TLC

CONSTANTS alice, bob

MCUser == {alice, bob}
UserSymmetry == Permutations(MCUser)
=============================================================================
