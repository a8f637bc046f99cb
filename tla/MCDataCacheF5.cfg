\* One listing, two requests, one change and one F5.
SPECIFICATION Spec
CONSTANTS
  host = host
  sda = sda
  Listing = {host}
  Forced = {}
  Disk = {}
  MaxVersion = 1
  MaxRequests = 2
  MaxRefreshes = 1
INVARIANT
  RefreshIsFresh
CHECK_DEADLOCK FALSE
