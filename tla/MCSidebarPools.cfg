\* A mounted file system, an unmounted one and a volume, two with a snapshot.
SPECIFICATION FairSpec
CONSTANTS
  tank = tank
  fs = fs
  bare = bare
  vol = vol
  fs1 = fs1
  bare1 = bare1
  vol1 = vol1
  Pool = tank
  Dataset = {fs, bare, vol}
  Kind <- MCKind
  Snap = {fs1, vol1}
  Of <- MCOf
  MaxJobs = 4
  MaxSteps = 4
  MaxChanges = 1
INVARIANTS
  OpenBoxesFilled
  SameListing
  AllFiltered
PROPERTY
  PoolsRest
CHECK_DEADLOCK FALSE
