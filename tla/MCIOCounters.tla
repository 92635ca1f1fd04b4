---------------------------- MODULE MCIOCounters ----------------------------
(* IOCounters with a disk, a disk whose name ends in a digit, a partition, *)
(* and one whose name is the partition's when it is cut                    *)
EXTENDS IOCounters

MCDevice == {"sda", "nvme10n1", "nvme10n1p1", "nvme10n1p12"}
MCEndsInDigit == MCDevice \ {"sda"}
MCKept == [d \in MCDevice |-> IF d = "nvme10n1p12" THEN "nvme10n1p1" ELSE d]
=============================================================================
