\* Two snapshots.
SPECIFICATION Spec
CONSTANTS
  overview = overview
  remote = remote
  vdev = vdev
  disk = disk
  snapA = snapA
  snapB = snapB
  diffTab = diffTab
  file = file
  View = {snapA, snapB}
  Renderer <- MCRenderer
  MaxRenders = 3
INVARIANT
  DiffComparesShownSnapshot
CHECK_DEADLOCK FALSE
