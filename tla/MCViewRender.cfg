\* One view of each kind and two snapshots; three renders in flight.
SPECIFICATION FairSpec
CONSTANTS
  overview = overview
  remote = remote
  vdev = vdev
  disk = disk
  snapA = snapA
  snapB = snapB
  diffTab = diffTab
  file = file
  View = {overview, remote, vdev, disk, snapA, snapB, diffTab, file}
  Renderer <- MCRenderer
  MaxRenders = 3
INVARIANTS
  SplitNeverStale
  DiffButtonWired
  NoStuckLoading
  ListsFilterable
  SplitViewsSettle
PROPERTY
  ComesToRest
CHECK_DEADLOCK FALSE
