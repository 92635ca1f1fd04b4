-------------------------- MODULE MCDiskPartitions --------------------------
(* DiskPartitions with three types on a device and one that is not         *)
EXTENDS DiskPartitions, TLC

CONSTANTS ext4, xfs, btrfs, proc

MCFsType == {ext4, xfs, btrfs, proc}
MCNoDev == {proc}
TypeSymmetry == Permutations(MCFsType \ MCNoDev)
=============================================================================
