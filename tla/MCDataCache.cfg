\* A listing, read with and without force, and the SMART data of a disk; three
\* requests, one F5.
SPECIFICATION FairSpec
CONSTANTS
  host = host
  sda = sda
  Listing = {host}
  Forced = {host}
  Disk = {sda}
  MaxVersion = 1
  MaxRequests = 3
  MaxRefreshes = 1
INVARIANTS
  QuietRefreshIsFresh
  ForcedReadIsFresh
  OneSmartRequest
PROPERTY
  SmartIsDelivered
CHECK_DEADLOCK FALSE
