\* Three snapshots of two datasets, one filter, two clicks in a view.
SPECIFICATION FairSpec
CONSTANTS
  home1 = home1
  home2 = home2
  root1 = root1
  home = home
  root = root
  all = all
  some = some
  None = None
  Snap = {home1, home2, root1}
  Dataset = {home, root}
  Of <- MCOf
  Listing <- MCListing
  Rank <- MCRank
  MaxTxg = 3
  Unordered = {root1}
  Query = {all, some}
  All = all
  Matches <- MCMatches
  MaxClicks = 2
  MaxRecreated = 1
  MaxLate = 1
INVARIANTS
  PairComparable
  OldestFirst
  DiffFiltered
PROPERTY
  ImplementsConsole
CHECK_DEADLOCK FALSE
