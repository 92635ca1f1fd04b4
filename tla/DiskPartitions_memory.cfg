\* Memory and handles of disk_partitions, and what a listing, physical or not,
\* says of tables that change under it
SPECIFICATION Spec
CONSTANTS
  ext4 = ext4
  xfs = xfs
  btrfs = btrfs
  proc = proc
  FsType <- MCFsType
  NoDev <- MCNoDev
  Unmounted = Unmounted
  NULL = NULL
  NSlots = 2
  InitialCapacity = 1
  TypeCapacity = 3
  MaxCalls = 2
  MaxChanges = 2
  MaxFailures = 1
SYMMETRY TypeSymmetry
INVARIANTS
  TypeOK
  NoMemoryError
  AllReleased
  PhysicalOnly
  CrashNeedsCause
PROPERTY RefinesScan
CHECK_DEADLOCK FALSE
