----------------------------- MODULE DataCache -----------------------------
(***************************************************************************)
(* The data the web UI keeps in the page (src/.../static/app.js):          *)
(*                                                                         *)
(*   poolsCache, disksCache, mountsCache, hostCache, each filled by its    *)
(*   getX(force) and read by every render and by the sidebar;              *)
(*   nav.smart, one entry per disk, filled by ensureDiskSmart.             *)
(*                                                                         *)
(* The machine's state moves on meanwhile (a version per resource), and    *)
(* F5 empties everything.  A request is answered with the version of the   *)
(* moment, and the answer is delivered any time later, in any order.       *)
(***************************************************************************)
EXTENDS Naturals, Sequences

CONSTANTS
  Listing,      \* the four cached listings
  Forced,       \* those some view reads with force
  Disk,         \* disks whose SMART data is read
  MaxVersion,   \* bound: changes of each resource
  MaxRequests,  \* bound: requests sent
  MaxRefreshes  \* bound: F5s

ASSUME ResourceAssumption == Forced \subseteq Listing /\ Listing \cap Disk = {}
ASSUME BoundAssumption ==
  MaxVersion \in Nat /\ MaxRequests \in Nat /\ MaxRefreshes \in Nat

Resource == Listing \cup Disk
Version  == Nat
Absent   == [is |-> "absent", version |-> 0]
Error    == [is |-> "error", version |-> 0]
Data(v)  == [is |-> "data", version |-> v]
Slot     == [is : {"absent", "error", "data"}, version : Version]

VARIABLES
  world,      \* the version of each resource on the machine
  cache,      \* poolsCache .. hostCache, and the finished entries of nav.smart
  smart,      \* the request nav.smart[d].pending waits for; 0 if none
  requests,   \* the requests sent, in order
  refreshes,  \* F5s so far
  floor,      \* history: world at the last F5
  busy,       \* history: requests were in flight at the last F5
  lastRead    \* history: the last value a render was given

vars == <<world, cache, smart, requests, refreshes, floor, busy, lastRead>>

\* at: where a request is; epoch: F5s when it was sent; since: the version at
\* that moment; forced: sent by getX(true); answer: what the agent said
Request == [of : Resource, at : {"sent", "answered", "delivered"},
            epoch : Nat, since : Version, forced : BOOLEAN, answer : Slot]

\* epoch and since say when the reader asked
Read == [of : Resource, got : Slot, epoch : Nat, since : Version,
         forced : BOOLEAN]

TypeOK ==
  /\ world \in [Resource -> Version]
  /\ cache \in [Resource -> Slot]
  /\ smart \in [Disk -> 0 .. Len(requests)]
  /\ requests \in Seq(Request)
  /\ refreshes \in Nat
  /\ floor \in [Resource -> Version]
  /\ busy \in BOOLEAN
  /\ lastRead \in Read \cup {Absent}

Init ==
  /\ world = [r \in Resource |-> 0]
  /\ cache = [r \in Resource |-> Absent]
  /\ smart = [d \in Disk |-> 0]
  /\ requests = <<>>
  /\ refreshes = 0
  /\ floor = world
  /\ busy = FALSE
  /\ lastRead = Absent

-----------------------------------------------------------------------------
\* The machine changes: a pool is scrubbed, a disk added, a mount made.
Change(r) ==
  /\ world[r] < MaxVersion
  /\ world' = [world EXCEPT ![r] = @ + 1]
  /\ UNCHANGED <<cache, smart, requests, refreshes, floor, busy, lastRead>>

\* A request leaves; its reader waits for the answer.
Send(r, force) ==
  /\ Len(requests) < MaxRequests
  /\ requests' = Append(requests,
       [of |-> r, at |-> "sent", epoch |-> refreshes, since |-> world[r],
        forced |-> force, answer |-> Absent])

\* A reader goes on at once with what the page has.
ReadCached(r, force) ==
  /\ lastRead' = [of |-> r, got |-> cache[r], epoch |-> refreshes,
                  since |-> world[r], forced |-> force]
  /\ UNCHANGED <<cache, smart, requests>>

\* A mutant: force is ignored.
GetWhateverCached(r, force) ==
  /\ IF cache[r] # Absent
     THEN ReadCached(r, force)
     ELSE Send(r, force) /\ UNCHANGED <<cache, smart, lastRead>>
  /\ UNCHANGED <<world, refreshes, floor, busy>>

\* getPools, getDisks, getMounts, getHost: no force and something cached, or
\* a request of its own, even if another one for the same listing is out.
Get(r, force) ==
  /\ IF ~force /\ cache[r] # Absent
     THEN ReadCached(r, force)
     ELSE Send(r, force) /\ UNCHANGED <<cache, smart, lastRead>>
  /\ UNCHANGED <<world, refreshes, floor, busy>>

\* A mutant: only what is ready is looked for, not what is pending.
EnsureWithoutPending(d) ==
  /\ IF cache[d] # Absent THEN ReadCached(d, FALSE)
     ELSE /\ Send(d, FALSE)
          /\ smart' = [smart EXCEPT ![d] = Len(requests')]
          /\ UNCHANGED <<cache, lastRead>>
  /\ UNCHANGED <<world, refreshes, floor, busy>>

\* ensureDiskSmart: what is ready, else the request that is out, else a new
\* one, remembered in the map.
EnsureDiskSmart(d) ==
  /\ IF cache[d] # Absent THEN ReadCached(d, FALSE)
     ELSE /\ smart[d] = 0
          /\ Send(d, FALSE)
          /\ smart' = [smart EXCEPT ![d] = Len(requests')]
          /\ UNCHANGED <<cache, lastRead>>
  /\ UNCHANGED <<world, refreshes, floor, busy>>

\* The agent collects the data of request q, or fails.
Answer(q) ==
  /\ requests[q].at = "sent"
  /\ \E a \in {Data(world[requests[q].of]), Error} :
       requests' = [requests EXCEPT ![q].at = "answered", ![q].answer = a]
  /\ UNCHANGED <<world, cache, smart, refreshes, floor, busy, lastRead>>

\* The readers waiting for request q are given its answer.
Give(q) ==
  lastRead' = [of |-> requests[q].of, got |-> requests[q].answer,
               epoch |-> requests[q].epoch, since |-> requests[q].since,
               forced |-> requests[q].forced]

\* getX assigns the cache when its own request returns; an error is thrown
\* to the reader and the cache keeps what it has.
DeliverListing(q) ==
  LET r == requests[q].of IN
  /\ r \in Listing
  /\ cache' = IF requests[q].answer = Error THEN cache
              ELSE [cache EXCEPT ![r] = requests[q].answer]
  /\ UNCHANGED smart

\* A mutant: without the catch, an error leaves the entry pending.
DeliverUncaught(q) ==
  LET d == requests[q].of IN
  /\ d \in Disk
  /\ IF requests[q].answer = Error THEN UNCHANGED <<cache, smart>>
     ELSE /\ cache' = [cache EXCEPT ![d] = requests[q].answer]
          /\ smart' = [smart EXCEPT ![d] = 0]

\* The promise of ensureDiskSmart assigns nav.smart[dev], whichever map
\* nav.smart is by now; an error is data like any other.
DeliverSmart(q) ==
  LET d == requests[q].of IN
  /\ d \in Disk
  /\ cache' = [cache EXCEPT ![d] = requests[q].answer]
  /\ smart' = [smart EXCEPT ![d] = 0]

Deliver(q) ==
  /\ requests[q].at = "answered"
  /\ requests' = [requests EXCEPT ![q].at = "delivered"]
  /\ DeliverListing(q) \/ DeliverSmart(q)
  /\ Give(q)
  /\ UNCHANGED <<world, refreshes, floor, busy>>

InFlight(q) == requests[q].at # "delivered"

\* A mutant: the view is drawn again from what the page has.
RefreshKeepingCaches ==
  /\ refreshes < MaxRefreshes
  /\ refreshes' = refreshes + 1
  /\ floor' = world
  /\ busy' = \E q \in DOMAIN requests : InFlight(q)
  /\ UNCHANGED <<world, cache, smart, requests, lastRead>>

\* F5: refreshCurrentView() empties the caches and starts a new map.
RefreshCurrentView ==
  /\ refreshes < MaxRefreshes
  /\ refreshes' = refreshes + 1
  /\ cache' = [r \in Resource |-> Absent]
  /\ smart' = [d \in Disk |-> 0]
  /\ floor' = world
  /\ busy' = \E q \in DOMAIN requests : InFlight(q)
  /\ UNCHANGED <<world, requests, lastRead>>

Next ==
  \/ \E r \in Resource : Change(r)
  \/ \E r \in Listing : Get(r, FALSE)
  \/ \E r \in Forced : Get(r, TRUE)
  \/ \E d \in Disk : EnsureDiskSmart(d)
  \/ \E q \in DOMAIN requests : Answer(q) \/ Deliver(q)
  \/ RefreshCurrentView

Spec == Init /\ [][Next]_vars

\* The agent answers every request and the event loop delivers the answers.
Fairness ==
  \A q \in 1 .. MaxRequests :
    WF_vars(q \in DOMAIN requests /\ (Answer(q) \/ Deliver(q)))

FairSpec == Spec /\ Fairness

-----------------------------------------------------------------------------
ReadIsFresh == lastRead # Absent /\ lastRead.got.is = "data"
               /\ lastRead.epoch = refreshes
               => lastRead.got.version >= floor[lastRead.of]

\* F5 brings the page up to date: what is asked for after it is never older
\* than it, provided nothing was in flight when it was pressed.
QuietRefreshIsFresh == ~busy => ReadIsFresh

\* The Host and Volumes views, which read with force, show nothing older than
\* the moment they asked, whatever the cache held and whatever else is out.
ForcedReadIsFresh ==
  lastRead # Absent /\ lastRead.forced /\ lastRead.got.is = "data"
    => lastRead.got.version >= lastRead.since

\* Between two F5s smartctl is run at most once for a disk at a time, however
\* many of the disk view, the sidebar and the tree ask for it.
OneSmartRequest ==
  \A p, q \in DOMAIN requests :
    /\ requests[p].of = requests[q].of /\ requests[p].of \in Disk
    /\ InFlight(p) /\ InFlight(q)
    /\ requests[p].epoch = refreshes /\ requests[q].epoch = refreshes
    => p = q

\* Every SMART request a disk waits for ends: with data, an error, or an F5.
SmartIsDelivered == \A d \in Disk : smart[d] # 0 ~> smart[d] = 0

\* F5 brings the page up to date, without a proviso.
RefreshIsFresh == ReadIsFresh
=============================================================================
