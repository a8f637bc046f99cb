\* One snapshot, a click, a late render, another click.
SPECIFICATION Spec
CONSTANTS
  home1 = home1
  home2 = home2
  root1 = root1
  home = home
  root = root
  all = all
  some = some
  None = None
  Snap = {home1}
  Dataset = {home}
  Of <- MCOf
  Listing = {{home1}}
  Rank <- MCRank
  MaxTxg = 1
  Unordered = {}
  Query = {all}
  All = all
  Matches <- MCMatches
  MaxClicks = 2
  MaxRecreated = 0
  MaxLate = 1
INVARIANT
  LastDiffShown
CHECK_DEADLOCK FALSE
