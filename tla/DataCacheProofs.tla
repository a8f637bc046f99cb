-------------------------- MODULE DataCacheProofs --------------------------
(* DataCache proved for every set of listings and disks and any number of   *)
(* changes, requests and F5s.                                               *)
EXTENDS DataCache, TLAPS

\* An answer is as new as the machine was when its request was sent, and a
\* request of this epoch was sent after the F5 that began it.
RequestFresh(q) ==
  /\ q.since <= world[q.of]
  /\ q.at # "sent" => q.answer.is # "absent"
  /\ q.answer.is = "data" => q.since <= q.answer.version
  /\ q.epoch <= refreshes
  /\ q.epoch = refreshes => floor[q.of] <= q.since
  /\ ~busy /\ q.at # "delivered" => q.epoch = refreshes

RequestsFresh == \A q \in DOMAIN requests : RequestFresh(requests[q])

FloorIsPast == \A r \in Resource : floor[r] <= world[r]

CacheFresh ==
  ~busy => \A r \in Resource :
             cache[r].is = "data" => floor[r] <= cache[r].version

ReadIsPast == lastRead # Absent => lastRead.epoch <= refreshes

Fresh ==
  /\ TypeOK
  /\ RequestsFresh /\ FloorIsPast /\ CacheFresh /\ ReadIsPast
  /\ QuietRefreshIsFresh /\ ForcedReadIsFresh

\* A disk whose request is out is either remembered as pending or, if an
\* older answer came first, as known.
SmartKnown ==
  \A q \in DOMAIN requests :
    requests[q].of \in Disk /\ InFlight(q) /\ requests[q].epoch = refreshes
      => smart[requests[q].of] # 0 \/ cache[requests[q].of] # Absent

IInv == Fresh /\ SmartKnown /\ OneSmartRequest

-----------------------------------------------------------------------------
LEMMA InitInv == Init => IInv
<1> SUFFICES ASSUME Init PROVE IInv
  OBVIOUS
<1>1. requests = <<>> /\ DOMAIN requests = {} /\ Len(requests) = 0
  BY DEF Init
<1>2. Absent \in Slot /\ Absent.is = "absent"
  BY DEF Absent, Slot, Version
<1>3. TypeOK
  <2>1. requests \in Seq(Request) /\ smart \in [Disk -> 0 .. Len(requests)]
    BY <1>1 DEF Init
  <2>2. /\ world \in [Resource -> Version] /\ floor \in [Resource -> Version]
        /\ cache \in [Resource -> Slot]
    BY <1>2 DEF Init, Version
  <2>3. QED BY <2>1, <2>2 DEF Init, TypeOK
<1>4. RequestsFresh /\ SmartKnown /\ OneSmartRequest
  BY <1>1 DEF RequestsFresh, SmartKnown, OneSmartRequest
<1>5. FloorIsPast /\ CacheFresh
  BY <1>2 DEF Init, FloorIsPast, CacheFresh
<1>6. ReadIsPast /\ QuietRefreshIsFresh /\ ForcedReadIsFresh
  BY DEF Init, ReadIsPast, QuietRefreshIsFresh, ReadIsFresh, ForcedReadIsFresh
<1>7. QED BY <1>3, <1>4, <1>5, <1>6 DEF IInv, Fresh

\* The state before a step, as the proofs use it.
LEMMA Typing ==
  ASSUME IInv
  PROVE  /\ world \in [Resource -> Nat] /\ floor \in [Resource -> Nat]
         /\ cache \in [Resource -> Slot]
         /\ requests \in Seq(Request) /\ Len(requests) \in Nat
         /\ DOMAIN requests = 1 .. Len(requests)
         /\ refreshes \in Nat /\ busy \in BOOLEAN
         /\ Disk \subseteq Resource /\ Listing \subseteq Resource
         /\ Listing \cap Disk = {}
  BY ResourceAssumption DEF IInv, Fresh, TypeOK, Version, Resource

LEMMA RequestTyping ==
  ASSUME IInv, NEW q \in DOMAIN requests
  PROVE  /\ requests[q] \in Request
         /\ requests[q].of \in Resource /\ requests[q].answer \in Slot
         /\ requests[q].since \in Nat /\ requests[q].epoch \in Nat
         /\ requests[q].forced \in BOOLEAN
         /\ RequestFresh(requests[q])
<1>1. requests[q] \in Request
  BY Typing
<1>2. RequestFresh(requests[q])
  BY DEF IInv, Fresh, RequestsFresh
<1>3. QED BY <1>1, <1>2 DEF Request, Version

\* The machine changes: what was fresh enough still is.
LEMMA ChangeInv ==
  ASSUME IInv, NEW r \in Resource, Change(r)
  PROVE  IInv'
<1>1. /\ UNCHANGED <<cache, smart, requests, refreshes, floor, busy, lastRead>>
      /\ world' \in [Resource -> Nat]
      /\ \A s \in Resource : world[s] <= world'[s]
  BY Typing DEF Change
<1>2. TypeOK'
  BY <1>1 DEF IInv, Fresh, TypeOK, Version
<1>3. \A q \in DOMAIN requests :
        /\ requests[q] \in Request /\ requests[q].of \in Resource
        /\ requests[q].since \in Nat
  BY RequestTyping
<1>4. RequestsFresh'
  BY <1>1, <1>3, Typing DEF IInv, Fresh, RequestsFresh, RequestFresh
<1>5. FloorIsPast'
  BY <1>1, Typing DEF IInv, Fresh, FloorIsPast
<1>6. /\ CacheFresh' /\ ReadIsPast' /\ QuietRefreshIsFresh'
      /\ ForcedReadIsFresh' /\ SmartKnown' /\ OneSmartRequest'
  BY <1>1 DEF IInv, Fresh, CacheFresh, ReadIsPast, QuietRefreshIsFresh, ReadIsFresh,
              ForcedReadIsFresh, SmartKnown, OneSmartRequest, InFlight
<1>7. QED BY <1>2, <1>4, <1>5, <1>6 DEF IInv, Fresh

\* A reader is given what is cached, without force.
LEMMA ReadCachedInv ==
  ASSUME IInv, NEW r \in Resource, ReadCached(r, FALSE),
         UNCHANGED <<world, refreshes, floor, busy>>
  PROVE  IInv'
<1> DEFINE new == [of |-> r, got |-> cache[r], epoch |-> refreshes,
                   since |-> world[r], forced |-> FALSE]
<1>1. /\ UNCHANGED <<world, cache, smart, requests, refreshes, floor, busy>>
      /\ lastRead' = new
  BY DEF ReadCached
<1>2. /\ new \in Read /\ new.of = r /\ new.got = cache[r]
      /\ new.epoch = refreshes /\ new.forced = FALSE
  BY Typing DEF Read, Version
<1> HIDE DEF new
<1>3. TypeOK'
  BY <1>1, <1>2 DEF IInv, Fresh, TypeOK
<1>4. RequestsFresh' /\ FloorIsPast' /\ CacheFresh' /\ SmartKnown' /\ OneSmartRequest'
  BY <1>1 DEF IInv, Fresh, RequestsFresh, RequestFresh, FloorIsPast, CacheFresh,
              SmartKnown, OneSmartRequest, InFlight
<1>5. ReadIsPast' /\ ForcedReadIsFresh'
  BY <1>1, <1>2, Typing DEF ReadIsPast, ForcedReadIsFresh
<1>6. QuietRefreshIsFresh'
  BY <1>1, <1>2, Typing
  DEF IInv, Fresh, CacheFresh, QuietRefreshIsFresh, ReadIsFresh, Slot, Version
<1>7. QED BY <1>3, <1>4, <1>5, <1>6 DEF IInv, Fresh

\* A request leaves; a disk's only when none is known of.
LEMMA SendInv ==
  ASSUME IInv, NEW r \in Resource, NEW force \in BOOLEAN, Send(r, force),
         UNCHANGED <<world, cache, refreshes, floor, busy, lastRead>>,
         r \in Disk => cache[r] = Absent /\ smart[r] = 0,
         smart' = IF r \in Disk THEN [smart EXCEPT ![r] = Len(requests')] ELSE smart
  PROVE  IInv'
<1> DEFINE n == Len(requests) + 1
           new == [of |-> r, at |-> "sent", epoch |-> refreshes,
                   since |-> world[r], forced |-> force, answer |-> Absent]
<1>1. requests' = Append(requests, new)
  BY DEF Send
<1>2. /\ new \in Request /\ new.of = r /\ new.at = "sent" /\ new.epoch = refreshes
      /\ new.since = world[r] /\ new.answer.is = "absent"
  BY Typing DEF Request, Version, Absent, Slot
<1> HIDE DEF new
<1>3. /\ requests' \in Seq(Request) /\ Len(requests') = n
      /\ DOMAIN requests' = DOMAIN requests \cup {n} /\ requests'[n] = new
      /\ \A q \in DOMAIN requests : requests'[q] = requests[q]
      /\ n \notin DOMAIN requests
  BY <1>1, <1>2, Typing
<1>4. TypeOK'
  <2>1. smart \in [Disk -> 0 .. Len(requests)] /\ n \in 0 .. n
    BY Typing DEF IInv, Fresh, TypeOK
  <2>2. smart' \in [Disk -> 0 .. n]
    BY <1>3, <2>1, Typing
  <2>3. QED BY <1>3, <2>2 DEF IInv, Fresh, TypeOK
<1>5. RequestsFresh'
  BY <1>2, <1>3, Typing DEF IInv, Fresh, RequestsFresh, RequestFresh, FloorIsPast
<1>6. /\ FloorIsPast' /\ CacheFresh' /\ ReadIsPast'
      /\ QuietRefreshIsFresh' /\ ForcedReadIsFresh'
  BY DEF IInv, Fresh, FloorIsPast, CacheFresh, ReadIsPast, QuietRefreshIsFresh,
         ReadIsFresh, ForcedReadIsFresh
<1>7. SmartKnown'
  <2>1. \A d \in Disk : smart[d] # 0 => smart'[d] # 0
    BY <1>3, Typing DEF IInv, Fresh, TypeOK
  <2>2. r \in Disk => smart'[r] # 0
    BY <1>3, Typing DEF IInv, Fresh, TypeOK
  <2>3. QED BY <1>2, <1>3, <2>1, <2>2 DEF IInv, SmartKnown, InFlight
<1>8. OneSmartRequest'
  \* The new request's disk had none: SmartKnown.
  <2>1. \A q \in DOMAIN requests :
          requests[q].of = r /\ r \in Disk /\ InFlight(q)
            => requests[q].epoch # refreshes
    BY DEF IInv, SmartKnown
  <2>2. QED BY <1>2, <1>3, <2>1 DEF IInv, OneSmartRequest, InFlight
<1>9. QED BY <1>4, <1>5, <1>6, <1>7, <1>8 DEF IInv, Fresh

\* The agent answers with the machine as it is.
LEMMA AnswerInv ==
  ASSUME IInv, NEW q \in DOMAIN requests, Answer(q)
  PROVE  IInv'
<1>1. PICK a \in {Data(world[requests[q].of]), Error} :
        requests' = [requests EXCEPT ![q].at = "answered", ![q].answer = a]
  BY DEF Answer
<1>2. UNCHANGED <<world, cache, smart, refreshes, floor, busy, lastRead>>
      /\ requests[q].at = "sent"
  BY DEF Answer
<1> DEFINE new == [requests[q] EXCEPT !.at = "answered", !.answer = a]
<1>3. /\ requests[q] \in Request /\ requests[q].of \in Resource
      /\ RequestFresh(requests[q])
  BY RequestTyping
<1>4. /\ a \in Slot /\ a.is # "absent"
      /\ a.is = "data" => a.version = world[requests[q].of]
  BY <1>3, Typing DEF Data, Error, Slot, Version
<1>5. /\ new \in Request /\ new.of = requests[q].of /\ new.at = "answered"
      /\ new.epoch = requests[q].epoch /\ new.since = requests[q].since
      /\ new.answer = a
  BY <1>3, <1>4 DEF Request
<1>6. requests' = [requests EXCEPT ![q] = new]
  BY <1>1
<1> HIDE DEF new
<1>7. /\ requests' \in Seq(Request) /\ Len(requests') = Len(requests)
      /\ DOMAIN requests' = DOMAIN requests /\ requests'[q] = new
      /\ \A p \in DOMAIN requests : p # q => requests'[p] = requests[p]
  BY <1>5, <1>6, Typing
<1>8. TypeOK'
  BY <1>2, <1>7 DEF IInv, Fresh, TypeOK
<1>9. RequestsFresh'
  <2>1. RequestFresh(requests[q])'
    BY <1>2, <1>3, <1>4, <1>5, <1>7, Typing DEF RequestFresh
  <2>2. QED BY <1>2, <1>7, <2>1 DEF IInv, Fresh, RequestsFresh, RequestFresh
<1>10. /\ FloorIsPast' /\ CacheFresh' /\ ReadIsPast'
       /\ QuietRefreshIsFresh' /\ ForcedReadIsFresh'
  BY <1>2 DEF IInv, Fresh, FloorIsPast, CacheFresh, ReadIsPast, QuietRefreshIsFresh,
         ReadIsFresh, ForcedReadIsFresh
<1>11. SmartKnown' /\ OneSmartRequest'
  <2>1. \A p \in DOMAIN requests :
          /\ requests'[p].of = requests[p].of
          /\ requests'[p].epoch = requests[p].epoch
          /\ InFlight(p)' => InFlight(p)
    BY <1>2, <1>5, <1>7 DEF InFlight
  <2>2. QED BY <1>2, <1>7, <2>1 DEF IInv, SmartKnown, OneSmartRequest
<1>12. QED BY <1>8, <1>9, <1>10, <1>11 DEF IInv, Fresh

\* An answer is delivered, to the cache of this epoch whichever epoch it is of.
LEMMA DeliverInv ==
  ASSUME IInv, NEW q \in DOMAIN requests, Deliver(q)
  PROVE  IInv'
<1> DEFINE r == requests[q].of
           a == requests[q].answer
           new == [requests[q] EXCEPT !.at = "delivered"]
           read == [of |-> r, got |-> a, epoch |-> requests[q].epoch,
                    since |-> requests[q].since, forced |-> requests[q].forced]
<1>1. /\ requests[q] \in Request /\ r \in Resource /\ a \in Slot
      /\ requests[q].since \in Nat /\ requests[q].epoch \in Nat
      /\ RequestFresh(requests[q])
  BY RequestTyping
<1>2. /\ UNCHANGED <<world, refreshes, floor, busy>>
      /\ requests[q].at = "answered" /\ lastRead' = read
      /\ requests' = [requests EXCEPT ![q] = new]
      /\ DeliverListing(q) \/ DeliverSmart(q)
  BY DEF Deliver, Give
<1>3. /\ a.is # "absent" /\ a # Absent
      /\ a.is = "data" => requests[q].since <= a.version /\ a.version \in Nat
      /\ requests[q].epoch <= refreshes
      /\ requests[q].epoch = refreshes => floor[r] <= requests[q].since
      /\ ~busy => requests[q].epoch = refreshes
  BY <1>1, <1>2 DEF IInv, Fresh, RequestsFresh, RequestFresh, Slot, Version, Absent
<1>4. /\ new \in Request /\ new.of = r /\ new.at = "delivered"
      /\ new.epoch = requests[q].epoch /\ new.since = requests[q].since
      /\ new.answer = a
  BY <1>1 DEF Request
<1>5. /\ read \in Read /\ read.of = r /\ read.got = a
      /\ read.epoch = requests[q].epoch /\ read.since = requests[q].since
  BY <1>1 DEF Read, Request
<1> HIDE DEF new, read
<1>6. /\ requests' \in Seq(Request) /\ Len(requests') = Len(requests)
      /\ DOMAIN requests' = DOMAIN requests /\ requests'[q] = new
      /\ \A p \in DOMAIN requests : p # q => requests'[p] = requests[p]
  BY <1>2, <1>4, Typing
<1>7. /\ cache' \in [Resource -> Slot]
      /\ \A s \in Resource : cache'[s] \in {cache[s], a}
      /\ \A s \in Resource : s # r => cache'[s] = cache[s]
      /\ r \in Disk => cache'[r] = a
  BY <1>1, <1>2, Typing DEF DeliverListing, DeliverSmart
<1>8. /\ smart' \in [Disk -> 0 .. Len(requests)]
      /\ \A d \in Disk : d # r => smart'[d] = smart[d]
  BY <1>1, <1>2, Typing DEF DeliverListing, DeliverSmart, IInv, Fresh, TypeOK
<1>9. TypeOK'
  BY <1>2, <1>5, <1>6, <1>7, <1>8 DEF IInv, Fresh, TypeOK
<1>10. RequestsFresh'
  <2>1. RequestFresh(requests[q])'
    BY <1>1, <1>2, <1>3, <1>4, <1>6, Typing DEF RequestFresh
  <2>2. QED BY <1>2, <1>6, <2>1 DEF IInv, Fresh, RequestsFresh, RequestFresh
<1>11. FloorIsPast' /\ ReadIsPast'
  BY <1>2, <1>3, <1>5 DEF IInv, Fresh, FloorIsPast, ReadIsPast
<1>12. CacheFresh'
  <2>1. ~busy /\ a.is = "data" => floor[r] <= a.version
    BY <1>1, <1>3, Typing
  <2>2. QED BY <1>2, <1>7, <2>1 DEF IInv, Fresh, CacheFresh
<1>13. QuietRefreshIsFresh'
  BY <1>1, <1>2, <1>3, <1>5, Typing DEF QuietRefreshIsFresh, ReadIsFresh
<1>14. ForcedReadIsFresh'
  BY <1>1, <1>2, <1>3, <1>5 DEF ForcedReadIsFresh
<1>15. SmartKnown' /\ OneSmartRequest'
  <2>1. \A p \in DOMAIN requests :
          /\ requests'[p].of = requests[p].of
          /\ requests'[p].epoch = requests[p].epoch
          /\ InFlight(p)' => InFlight(p) /\ p # q
    BY <1>2, <1>4, <1>6 DEF InFlight
  <2>2. OneSmartRequest'
    BY <1>2, <1>6, <2>1 DEF IInv, OneSmartRequest
  <2>3. \A d \in Disk : smart[d] # 0 \/ cache[d] # Absent
                          => smart'[d] # 0 \/ cache'[d] # Absent
    BY <1>3, <1>7, <1>8, Typing
  <2>4. \A p \in DOMAIN requests :
          requests'[p].of \in Disk /\ InFlight(p)' /\ requests'[p].epoch = refreshes'
            => smart'[requests'[p].of] # 0 \/ cache'[requests'[p].of] # Absent
    BY <1>2, <2>1, <2>3 DEF IInv, SmartKnown
  <2>5. QED BY <1>6, <2>2, <2>4 DEF SmartKnown
<1>16. QED BY <1>9, <1>10, <1>11, <1>12, <1>13, <1>14, <1>15 DEF IInv, Fresh

\* F5: nothing in flight is of the new epoch.
LEMMA RefreshInv ==
  ASSUME IInv, RefreshCurrentView
  PROVE  IInv'
<1>1. /\ refreshes' = refreshes + 1 /\ floor' = world
      /\ cache' = [r \in Resource |-> Absent] /\ smart' = [d \in Disk |-> 0]
      /\ busy' = \E q \in DOMAIN requests : InFlight(q)
      /\ UNCHANGED <<world, requests, lastRead>>
  BY DEF RefreshCurrentView
<1>2. \A q \in DOMAIN requests :
        /\ requests[q] \in Request /\ requests[q].epoch \in Nat
        /\ requests[q].epoch <= refreshes
  BY RequestTyping DEF RequestFresh
<1>3. Absent \in Slot /\ Absent.is = "absent"
  BY DEF Absent, Slot, Version
<1>4. TypeOK'
  <2>1. busy' \in BOOLEAN
    BY <1>1, Zenon
  <2>2. QED BY <1>1, <1>3, <2>1, Typing DEF IInv, Fresh, TypeOK, Version
<1>5. RequestsFresh'
  BY <1>1, <1>2, Typing DEF IInv, Fresh, RequestsFresh, RequestFresh, InFlight
<1>6. FloorIsPast'
  BY <1>1, Typing DEF FloorIsPast
<1>7. CacheFresh'
  BY <1>1, <1>3 DEF CacheFresh
<1>8. ReadIsPast' /\ QuietRefreshIsFresh' /\ ForcedReadIsFresh'
  <2>1. lastRead # Absent => lastRead.epoch \in Nat /\ lastRead.epoch <= refreshes
    BY DEF IInv, Fresh, TypeOK, Read, ReadIsPast
  <2>2. QED BY <1>1, <2>1, Typing
            DEF IInv, Fresh, ReadIsPast, QuietRefreshIsFresh, ReadIsFresh, ForcedReadIsFresh
<1>9. SmartKnown' /\ OneSmartRequest'
  BY <1>1, <1>2, Typing DEF SmartKnown, OneSmartRequest
<1>10. QED BY <1>4, <1>5, <1>6, <1>7, <1>8, <1>9 DEF IInv, Fresh

LEMMA NextInv == IInv /\ [Next]_vars => IInv'
<1> SUFFICES ASSUME IInv, [Next]_vars PROVE IInv'
  OBVIOUS
<1>1. ASSUME NEW r \in Resource, Change(r) PROVE IInv'
  BY <1>1, ChangeInv
<1>2. ASSUME NEW r \in Listing, NEW force \in BOOLEAN, Get(r, force) PROVE IInv'
  <2>1. r \in Resource /\ r \notin Disk
    BY Typing
  <2>2. UNCHANGED <<world, refreshes, floor, busy>>
    BY <1>2 DEF Get
  <2>3. CASE ~force /\ cache[r] # Absent
    <3>1. ReadCached(r, FALSE)
      BY <1>2, <2>3 DEF Get, ReadCached
    <3>2. QED BY <2>1, <2>2, <3>1, ReadCachedInv
  <2>4. CASE ~(~force /\ cache[r] # Absent)
    <3>1. Send(r, force) /\ UNCHANGED <<cache, smart, lastRead>>
      BY <1>2, <2>4 DEF Get
    <3>2. QED BY <2>1, <2>2, <3>1, SendInv
  <2>5. QED BY <2>3, <2>4
<1>3. ASSUME NEW d \in Disk, EnsureDiskSmart(d) PROVE IInv'
  <2>1. d \in Resource
    BY Typing
  <2>2. UNCHANGED <<world, refreshes, floor, busy>>
    BY <1>3 DEF EnsureDiskSmart
  <2>3. CASE cache[d] # Absent
    BY <1>3, <2>1, <2>2, <2>3, ReadCachedInv DEF EnsureDiskSmart
  <2>4. CASE cache[d] = Absent
    <3>1. /\ smart[d] = 0 /\ Send(d, FALSE)
          /\ smart' = [smart EXCEPT ![d] = Len(requests')]
          /\ UNCHANGED <<cache, lastRead>>
      BY <1>3, <2>4 DEF EnsureDiskSmart
    <3>2. QED BY <2>1, <2>2, <2>4, <3>1, SendInv
  <2>5. QED BY <2>3, <2>4
<1>4. ASSUME NEW q \in DOMAIN requests, Answer(q) \/ Deliver(q) PROVE IInv'
  BY <1>4, AnswerInv, DeliverInv
<1>5. CASE RefreshCurrentView
  BY <1>5, RefreshInv
<1>6. CASE UNCHANGED vars
  BY <1>6
  DEF vars, IInv, Fresh, TypeOK, RequestsFresh, RequestFresh, FloorIsPast, CacheFresh,
      ReadIsPast, QuietRefreshIsFresh, ReadIsFresh, ForcedReadIsFresh, SmartKnown,
      OneSmartRequest, InFlight
<1>7. \A r \in Forced : r \in Listing
  BY ResourceAssumption
<1>8. QED BY <1>1, <1>2, <1>3, <1>4, <1>5, <1>6, <1>7 DEF Next

LEMMA Inductive == Spec => []IInv
  BY InitInv, NextInv, PTL DEF Spec

-----------------------------------------------------------------------------
\* The variables keep their types.
THEOREM TypeCorrect == Spec => []TypeOK
<1>1. IInv => TypeOK
  BY DEF IInv, Fresh
<1>2. QED BY <1>1, Inductive, PTL

\* After an F5 that found nothing in flight, nothing older than it is shown.
THEOREM QuietRefresh == Spec => []QuietRefreshIsFresh
<1>1. IInv => QuietRefreshIsFresh
  BY DEF IInv, Fresh
<1>2. QED BY <1>1, Inductive, PTL

\* A forced read is never older than the moment it asked.
THEOREM ForcedRead == Spec => []ForcedReadIsFresh
<1>1. IInv => ForcedReadIsFresh
  BY DEF IInv, Fresh
<1>2. QED BY <1>1, Inductive, PTL

\* Between two F5s a disk has at most one smartctl request out.
THEOREM OneSmart == Spec => []OneSmartRequest
  BY Inductive, PTL DEF IInv
=============================================================================
