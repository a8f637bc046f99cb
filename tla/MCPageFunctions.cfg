\* Lists and trees of four rows, five lines of devices, names of two characters.
SPECIFICATION Spec
CONSTANTS
  Lists <- MCLists
  Trees <- MCTrees
  Typed <- MCTyped
  Configs <- MCConfigs
  Characters <- MCCharacters
  Places <- MCPlaces
  Paths <- MCPaths
  Disks <- MCDisks
  Mounts <- MCMounts
  Datasets <- MCDatasets
  Slack = 1
  SnapCap = 2
  Histories <- MCHistories
  IntMax = 15
  DefaultLimit = 3
INVARIANTS
  HeadingsHold
  NavShowsFound
  TreesAgree
  LinksLeadBack
  BarsAccount
  HistoryPaged
CHECK_DEADLOCK FALSE
