\* A plain and a split view.
SPECIFICATION Spec
CONSTANTS
  overview = overview
  remote = remote
  vdev = vdev
  disk = disk
  snapA = snapA
  snapB = snapB
  diffTab = diffTab
  file = file
  View = {overview, file}
  Renderer <- MCRenderer
  MaxRenders = 3
INVARIANT
  SettledShowsCurrentView
CHECK_DEADLOCK FALSE
