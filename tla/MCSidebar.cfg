\* Three directories, three jobs at once, five clicks, views or F5s.
SPECIFICATION FairSpec
CONSTANTS
  vol = vol
  home = home
  etc = etc
  src = src
  View = {"a", "b"}
  Root = vol
  Dir = {home, etc, src}
  Parent <- MCParent
  Order <- MCOrder
  Job = {1, 2, 3}
  MaxSteps = 5
INVARIANTS
  OpenBoxesFilled
  BoxesMatchFlags
  MarkedIsAddress
PROPERTY
  SidebarRests
CHECK_DEADLOCK FALSE
