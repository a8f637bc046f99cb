------------------------- MODULE SnapshotDiffProofs -------------------------
(* SnapshotDiff proved for every set of snapshots and filters, any order of *)
(* the options and any number of clicks.                                    *)
EXTENDS SnapshotDiff, WellFoundedInduction, TLAPS

\* f and t can be compared: t is f's dataset or another snapshot of it.
Comparable(f, t) ==
  /\ f \in Snap
  /\ t = Of[f] \/ (t \in Snap \ {f} /\ Of[t] = Of[f])

SelectsComparable ==
  /\ from = None => to = None
  /\ to # None => Comparable(from, to)

\* Only the last comparison is under way, and the button is disabled for it.
OneRun ==
  /\ \A i \in DOMAIN runs : runs[i].at # "done" => disabled /\ i = Clicks
  /\ disabled => Clicks > 0 /\ runs[Clicks].at # "done"

\* A handler of the view's own snapshot, or of a Diff tab, asks for such a pair.
RunsComparable ==
  \A i \in DOMAIN runs :
    runs[i].at # "done" =>
      /\ runs[i].from \in Snap
      /\ runs[i].by.of = view => Comparable(runs[i].from, runs[i].to)

\* Times of creation are told apart, and known as far as they are in the past.
TimesApart ==
  /\ \A s, t \in Snap : txg[s] = txg[t] => s = t
  /\ \A s \in Snap : txg[s] <= created

\* What order o stands for: that of s, unless s was created again.
Knows(o, s) == /\ o = None <=> s \in Unordered
               /\ o # None /\ s \notin stale => o = txg[s]

\* A Diff tab's handlers have their listings; that of a snapshot's view has a
\* snapshot, whose order it knows, though it may not be the view's.
Wired ==
  /\ view = None => handler.of = None /\ lists # <<>>
  /\ view # None => /\ from = view /\ handler.of # None
                    /\ Knows(handler.order, handler.of)

RunKnows(r) ==
  view # None =>
    /\ r.at \in {"checking", "known"} =>
         /\ r.by.of \in Snap /\ r.from = r.by.of /\ r.to \in Snap
         /\ Knows(r.by.order, r.by.of)
    /\ r.at = "known" => Knows(r.order, r.to)

RunsKnow == \A i \in DOMAIN runs : RunKnows(runs[i])

\* Only a snapshot's view asks for an order.
PoolSends == view = None => \A i \in DOMAIN runs : runs[i].at \notin {"checking", "known"}

\* What is written is of the last click and, as long as it can be seen, says
\* whether that is under way. Only what came of one is long, or taken away.
Written ==
  /\ out.of = Clicks
  /\ disabled => out.is \in {"checking", "running"}
  /\ ~disabled /\ taken = None => out.is \notin {"checking", "running"}
  /\ out.is = "nothing" <=> Clicks = 0
  /\ taken = None => (out.is = "diff" => applied = typed)
  /\ out.long => out.is \in {"diff", "error"}

IInv ==
  /\ TypeOK
  /\ SelectsComparable /\ OneRun /\ RunsComparable
  /\ TimesApart /\ Wired /\ RunsKnow /\ PoolSends /\ OldestFirst
  /\ Written

-----------------------------------------------------------------------------
LEMMA RunsSeq == IInv => runs \in Seq(Run)
BY DEF IInv, TypeOK

LEMMA LenAppend == ASSUME NEW rs \in Seq(Run), NEW r PROVE Len(Append(rs, r)) = Len(rs) + 1
OBVIOUS

LEMMA LenExcept ==
  ASSUME NEW rs \in Seq(Run), NEW i, NEW r PROVE Len([rs EXCEPT ![i] = r]) = Len(rs)
OBVIOUS

\* A non-empty set of numbers has a least one.
LEMMA LeastExists ==
  ASSUME NEW N \in SUBSET Nat, N # {}
  PROVE  \E n \in N : \A m \in N : n <= m
<1>1. IsWellFoundedOn(OpToRel(<, Nat), Nat)
  BY NatLessThanWellFounded
<1>2. PICK n \in N : \A m \in N : <<m, n>> \notin OpToRel(<, Nat)
  BY <1>1, WFMin
<1>3. \A m \in N : ~(m < n)
  BY <1>2 DEF OpToRel
<1>4. QED BY <1>3

\* A select shows one of its options, unless there are none.
LEMMA SelectedIsOption ==
  ASSUME NEW opts \in SUBSET (Snap \cup Dataset), NEW v
  PROVE  IF opts = {} THEN Selected(opts, v) = None ELSE Selected(opts, v) \in opts
<1>1. CASE v \in opts
  BY <1>1 DEF Selected
<1>2. CASE opts = {}
  BY <1>2 DEF Selected
<1>3. CASE v \notin opts /\ opts # {}
  <2> DEFINE ranks == {Rank[o] : o \in opts}
  <2>1. ranks \in SUBSET Nat /\ ranks # {}
    BY <1>3, SnapAssumption
  <2>2. \E n \in ranks : \A m \in ranks : n <= m
    <3> HIDE DEF ranks
    <3> QED BY <2>1, LeastExists
  <2>3. \E o \in opts : \A p \in opts : Rank[o] <= Rank[p]
    BY <2>2
  <2>4. QED BY <1>3, <2>3 DEF Selected
<1>4. QED BY <1>1, <1>2, <1>3

\* However the selects are filled again, they can be compared.
LEMMA RebuildComparable ==
  ASSUME NEW l \in SUBSET Snap, NEW q \in Query, NEW v, RebuildDiffSelects(l, q, v)
  PROVE  /\ query' \in Query /\ listing' = l /\ from' \in Snap \cup {None}
         /\ to' \in Snap \cup Dataset \cup {None}
         /\ SelectsComparable'
<1> DEFINE f == Selected(SnapshotOptions(l, q), v.from)
<1>0. /\ from' = f /\ to' = IF f = None THEN None ELSE Selected(DiffToOptions(f, l, q), v.to)
      /\ query' = q /\ listing' = l
  BY DEF RebuildDiffSelects, Rebuilt
<1>1. SnapshotOptions(l, q) \in SUBSET (Snap \cup Dataset) /\ SnapshotOptions(l, q) \subseteq Snap
  BY DEF SnapshotOptions
<1>2. from' \in Snap \cup {None}
  BY <1>0, <1>1, SelectedIsOption
<1> HIDE DEF f
<1>3. CASE from' = None
  BY <1>0, <1>2, <1>3 DEF SelectsComparable
<1>4. CASE from' \in Snap
  <2>1. DiffToOptions(from', l, q) \in SUBSET (Snap \cup Dataset)
    BY <1>4, SnapAssumption DEF DiffToOptions
  <2>2. \A o \in DiffToOptions(from', l, q) : Comparable(from', o)
    BY <1>4 DEF DiffToOptions, Comparable
  <2>3. from' # None /\ to' = Selected(DiffToOptions(from', l, q), v.to)
    BY <1>0, <1>4, SnapAssumption
  <2>4. to' \in DiffToOptions(from', l, q) \cup {None}
    BY <2>1, <2>3, SelectedIsOption
  <2>5. QED BY <1>0, <1>2, <2>1, <2>2, <2>3, <2>4 DEF SelectsComparable
<1>5. QED BY <1>2, <1>3, <1>4

-----------------------------------------------------------------------------
\* New controls have asked nothing and show nothing.
LEMMA NewControlsInv ==
  ASSUME TypeOK, NewControls
  PROVE  /\ disabled' \in BOOLEAN /\ runs' \in Seq(Run) /\ stale' = {}
         /\ late' \in Nat /\ out' \in Text /\ typed' \in Query /\ applied' \in Query
         /\ taken' \in Text \cup {None}
         /\ OneRun' /\ RunsComparable' /\ RunsKnow' /\ PoolSends' /\ OldestFirst'
         /\ Written'
<1>1. late' \in Nat
  BY BoundAssumption DEF TypeOK, NewControls
<1>2. out' \in Text /\ Len(runs') = 0 /\ DOMAIN runs' = {}
  BY DEF NewControls, Blank, Text
<1>3. runs' \in Seq(Run) /\ disabled' = FALSE /\ taken' \in Text \cup {None}
  BY DEF NewControls
<1>4. OneRun' /\ RunsComparable' /\ RunsKnow' /\ PoolSends' /\ OldestFirst'
  BY <1>2, <1>3 DEF OneRun, RunsComparable, RunsKnow, PoolSends, OldestFirst
<1>5. Written'
  BY <1>2 DEF NewControls, Blank, Written, Clicks
<1>6. QED
  BY <1>1, <1>2, <1>3, <1>4, <1>5, QueryAssumption DEF NewControls

\* A Diff tab starts with a pair that can be compared.
LEMMA DiffTabComparable ==
  ASSUME NEW l \in SUBSET Snap, l # {}
  PROVE  DiffTab(l).from \in Snap /\ DiffTab(l).to = Of[DiffTab(l).from]
<1>1. l \in SUBSET (Snap \cup Dataset)
  OBVIOUS
<1>2. Selected(l, None) \in l
  BY <1>1, SelectedIsOption
<1>3. QED BY <1>2 DEF DiffTab

LEMMA InitInv == Init => IInv
<1> SUFFICES ASSUME Init PROVE IInv
  OBVIOUS
<1> DEFINE SelectsKnown ==
      /\ view \in Snap \cup {None} /\ handler \in Handler /\ lists \in Seq(Listing)
      /\ from \in Snap \cup {None} /\ to \in Snap \cup Dataset \cup {None}
      /\ SelectsComparable /\ Wired
<1>1. txg \in [Snap -> Nat] /\ TimesApart
  BY BoundAssumption DEF Init, TimesApart
<1>2. query \in Query /\ listing \in Listing /\ listing \in SUBSET Snap
  BY QueryAssumption, SnapAssumption DEF Init
<1>3. SelectsKnown
  <2>1. CASE view = None
    <3>1. /\ listing # {} /\ handler = [of |-> None, order |-> None] /\ lists = <<listing>>
          /\ from = DiffTab(listing).from /\ to = DiffTab(listing).to
      BY <2>1, SnapAssumption DEF Init
    <3>2. from \in Snap /\ to = Of[from]
      BY <3>1, <1>2, DiffTabComparable
    <3>3. SelectsComparable
      BY <3>2, SnapAssumption DEF SelectsComparable, Comparable
    <3>4. QED BY <1>2, <2>1, <3>1, <3>2, <3>3, SnapAssumption DEF Handler, Wired
  <2>2. ASSUME NEW s \in Snap, view = s, lists = <<>>, from = s, to = Of[s],
               handler = [of |-> s, order |-> SnapshotOrder(s, txg[s])]
        PROVE  SelectsKnown
    BY <1>1, <2>2, SnapAssumption
       DEF Handler, SnapshotOrder, SelectsComparable, Comparable, Wired, Knows
  <2>3. QED BY <2>1, <2>2 DEF Init
<1>4. out \in Text /\ Len(runs) = 0 /\ DOMAIN runs = {} /\ runs \in Seq(Run)
  BY DEF Init, Blank, Text
<1>5. TypeOK
  <2>1. created \in Nat /\ late \in Nat
    BY BoundAssumption DEF Init
  <2>2. /\ stale \subseteq Snap /\ disabled \in BOOLEAN
        /\ typed \in Query /\ applied \in Query
    BY QueryAssumption DEF Init
  <2>3. taken \in Text \cup {None}
    BY DEF Init
  <2>4. QED BY <2>1, <2>2, <2>3, <1>1, <1>2, <1>3, <1>4 DEF TypeOK
<1>6. OneRun /\ RunsComparable /\ RunsKnow /\ PoolSends /\ OldestFirst
  BY <1>4 DEF Init, OneRun, RunsComparable, RunsKnow, PoolSends, OldestFirst
<1>7. Written
  BY <1>4 DEF Init, Blank, Written, Clicks
<1>8. QED
  BY <1>1, <1>3, <1>5, <1>6, <1>7 DEF IInv

LEMMA OpenPoolDiffInv ==
  ASSUME NEW l \in Listing PROVE IInv /\ OpenPoolDiff(l) => IInv'
<1> SUFFICES ASSUME IInv, OpenPoolDiff(l) PROVE IInv'
  OBVIOUS
<1>1. /\ NewControls /\ txg' = txg /\ created' = created
      /\ view' = None /\ handler' = [of |-> None, order |-> None] /\ lists' = <<l>>
  BY DEF OpenPoolDiff
<1>2. /\ query' \in Query /\ listing' = l /\ from' \in Snap \cup {None}
      /\ to' \in Snap \cup Dataset \cup {None} /\ SelectsComparable'
  <2>1. l \in SUBSET Snap
    BY SnapAssumption
  <2>2. QED BY <2>1, RebuildComparable DEF OpenPoolDiff
<1>3. TypeOK'
  BY <1>1, <1>2, NewControlsInv DEF IInv, TypeOK, Handler
<1>4. TimesApart' /\ Wired'
  BY <1>1 DEF IInv, TimesApart, Wired
<1>5. QED
  BY <1>1, <1>2, <1>3, <1>4, NewControlsInv DEF IInv

LEMMA OpenSnapshotInv ==
  ASSUME NEW s \in Snap, NEW l \in Listing PROVE IInv /\ OpenSnapshot(s, l) => IInv'
<1> SUFFICES ASSUME IInv, OpenSnapshot(s, l) PROVE IInv'
  OBVIOUS
<1>1. /\ NewControls /\ txg' = txg /\ created' = created
      /\ view' = s /\ handler' = [of |-> s, order |-> SnapshotOrder(s, txg[s])]
      /\ lists' = <<>> /\ listing' = l
      /\ query' = All /\ from' = s /\ to' = Of[s]
  BY DEF OpenSnapshot
<1>2. SnapshotOrder(s, txg[s]) \in Nat \cup {None} /\ Of[s] \in Dataset
  BY SnapAssumption DEF IInv, TypeOK, SnapshotOrder
<1>3. TypeOK'
  BY <1>1, <1>2, NewControlsInv, QueryAssumption DEF IInv, TypeOK, Handler
<1>4. SelectsComparable'
  BY <1>1, <1>2, SnapAssumption DEF SelectsComparable, Comparable
<1>5. TimesApart' /\ Wired'
  BY <1>1, SnapAssumption DEF IInv, TypeOK, TimesApart, Wired, Knows, SnapshotOrder
<1>6. QED
  BY <1>1, <1>3, <1>4, <1>5, NewControlsInv DEF IInv

LEMMA RecreateInv == ASSUME NEW s \in Snap PROVE IInv /\ Recreate(s) => IInv'
<1> SUFFICES ASSUME IInv, Recreate(s) PROVE IInv'
  OBVIOUS
<1> USE DEF Recreate, wiring, selects, output
<1>1. TypeOK'
  BY DEF IInv, TypeOK
<1>2. SelectsComparable' /\ OneRun' /\ RunsComparable' /\ PoolSends' /\ Written'
  BY DEF IInv, SelectsComparable, OneRun, RunsComparable, PoolSends, Written, Clicks
<1>3. TimesApart'
  BY DEF IInv, TypeOK, TimesApart
<1>4. \A o, t : t \in Snap /\ Knows(o, t) => Knows(o, t)'
  BY DEF IInv, TypeOK, Knows
<1>5. Wired' /\ RunsKnow'
  BY <1>4 DEF IInv, TypeOK, Handler, Wired, RunsKnow, RunKnows
<1>6. OldestFirst'
  <2> SUFFICES ASSUME NEW i \in DOMAIN runs, runs[i].at = "diffing", view # None,
                      runs[i].to \in Snap \ {runs[i].from},
                      {runs[i].from, runs[i].to} \cap (stale' \cup Unordered) = {}
               PROVE  txg'[runs[i].from] < txg'[runs[i].to]
    BY DEF OldestFirst
  <2>1. {runs[i].from, runs[i].to} \cap (stale \cup Unordered) = {}
    OBVIOUS
  <2>2. txg[runs[i].from] < txg[runs[i].to]
    BY <2>1 DEF IInv, OldestFirst
  <2>3. runs[i].from # s /\ runs[i].to # s
    OBVIOUS
  <2>4. QED BY <2>2, <2>3 DEF IInv, TypeOK, RunsComparable
<1>7. QED BY <1>1, <1>2, <1>3, <1>5, <1>6 DEF IInv

\* What concerns the selects only: in a snapshot's view From stays.
LEMMA SelectsInv ==
  ASSUME IInv, query' \in Query, listing' \in Listing, from' \in Snap \cup {None},
         to' \in Snap \cup Dataset \cup {None}, SelectsComparable',
         view = None \/ from' = from,
         UNCHANGED <<world, view, wiring, disabled, runs, output, late>>
  PROVE  IInv'
<1> USE DEF world, wiring, output
<1>1. TypeOK'
  BY DEF IInv, TypeOK
<1>2. OneRun' /\ RunsComparable' /\ PoolSends' /\ Written' /\ TimesApart' /\ OldestFirst'
  BY DEF IInv, OneRun, RunsComparable, PoolSends, Written, Clicks, TimesApart, OldestFirst
<1>3. Wired' /\ RunsKnow'
  BY DEF IInv, Wired, Knows, RunsKnow, RunKnows
<1>4. QED BY <1>1, <1>2, <1>3 DEF IInv

\* A Diff tab's From select is filled by the last of its handlers.
LEMMA LastListing == IInv /\ view = None => Last(lists) \in Listing /\ Last(lists) \in SUBSET Snap
<1> SUFFICES ASSUME IInv, view = None PROVE Last(lists) \in Listing /\ Last(lists) \in SUBSET Snap
  OBVIOUS
<1>1. lists \in Seq(Listing) /\ lists # <<>>
  BY DEF IInv, TypeOK, Wired
<1>2. Last(lists) \in Listing
  BY <1>1 DEF Last
<1>3. QED BY <1>2, SnapAssumption

LEMMA FilterSnapshotsInv ==
  ASSUME NEW q \in Query PROVE IInv /\ FilterSnapshots(q) => IInv'
<1> SUFFICES ASSUME IInv, FilterSnapshots(q) PROVE IInv'
  OBVIOUS
<1>1. /\ view = None /\ \E v : RebuildDiffSelects(Last(lists), q, v)
      /\ UNCHANGED <<world, view, wiring, disabled, runs, output, late>>
  BY DEF FilterSnapshots
<1>2. PICK v : RebuildDiffSelects(Last(lists), q, v)
  BY <1>1
<1>3. QED BY <1>1, <1>2, LastListing, SelectsInv, RebuildComparable

LEMMA ChooseFromInv ==
  ASSUME NEW s \in Snap PROVE IInv /\ ChooseFrom(s) => IInv'
<1> SUFFICES ASSUME IInv, ChooseFrom(s) PROVE IInv'
  OBVIOUS
<1>1. /\ view = None /\ query \in Query
      /\ RebuildDiffSelects(Last(lists), query, [from |-> s, to |-> to])
      /\ UNCHANGED <<world, view, wiring, disabled, runs, output, late>>
  BY DEF ChooseFrom, IInv, TypeOK
<1>2. QED BY <1>1, LastListing, SelectsInv, RebuildComparable

LEMMA ChooseToInv ==
  ASSUME NEW t \in Snap \cup Dataset PROVE IInv /\ ChooseTo(t) => IInv'
<1> SUFFICES ASSUME IInv, ChooseTo(t) PROVE IInv'
  OBVIOUS
<1>1. /\ query' = query /\ listing' = listing /\ from' = from /\ to' = t
      /\ from \in Snap /\ query \in Query /\ listing \in Listing
      /\ UNCHANGED <<world, view, wiring, disabled, runs, output, late>>
  BY DEF ChooseTo, IInv, TypeOK
<1>2. Comparable(from, t)
  BY <1>1, SnapAssumption DEF ChooseTo, DiffToOptions, Comparable
<1>3. SelectsComparable'
  BY <1>1, <1>2, SnapAssumption DEF SelectsComparable, Comparable
<1>4. QED BY <1>1, <1>3, SelectsInv

LEMMA FilterResultsInv ==
  ASSUME NEW q \in Query PROVE IInv /\ FilterResults(q) => IInv'
<1> SUFFICES ASSUME IInv, FilterResults(q) PROVE IInv'
  OBVIOUS
<1> USE DEF FilterResults, world, wiring, selects
<1>1. TypeOK'
  BY DEF IInv, TypeOK
<1>2. SelectsComparable' /\ OneRun' /\ RunsComparable' /\ PoolSends' /\ TimesApart'
  BY DEF IInv, SelectsComparable, OneRun, RunsComparable, PoolSends, Clicks, TimesApart
<1>3. Wired' /\ RunsKnow' /\ OldestFirst'
  BY DEF IInv, Wired, Knows, RunsKnow, RunKnows, OldestFirst
<1>4. Written'
  BY DEF IInv, Written, Clicks
<1>5. QED BY <1>1, <1>2, <1>3, <1>4 DEF IInv

\* A late render takes a text or not, whatever else it does.
LEMMA EndLateKeeps ==
  ASSUME IInv, EndLate
  PROVE  /\ txg' \in [Snap -> Nat] /\ created' \in Nat /\ view' \in Snap \cup {None}
         /\ disabled' \in BOOLEAN /\ runs' \in Seq(Run) /\ out' \in Text
         /\ typed' \in Query /\ applied' \in Query /\ taken' \in Text \cup {None}
         /\ late' \in Nat
         /\ OneRun' /\ RunsComparable' /\ PoolSends' /\ TimesApart' /\ Written'
<1> USE DEF EndLate
<1>1. taken' \in Text \cup {None} /\ (taken' = None => taken = None)
  BY DEF IInv, TypeOK
<1>2. OneRun' /\ RunsComparable' /\ PoolSends' /\ TimesApart'
  BY DEF IInv, OneRun, RunsComparable, PoolSends, Clicks, TimesApart
<1>3. Written'
  BY <1>1 DEF IInv, TypeOK, Written, Clicks
<1>4. QED BY <1>1, <1>2, <1>3 DEF IInv, TypeOK

LEMMA EnhanceListsInv == IInv /\ EnhanceLists => IInv'
<1> SUFFICES ASSUME IInv, EnhanceLists PROVE IInv'
  OBVIOUS
<1> USE DEF EnhanceLists, wiring, selects
<1>1. TypeOK'
  BY EndLateKeeps DEF IInv, TypeOK
<1>2. SelectsComparable' /\ Wired' /\ RunsKnow' /\ OldestFirst'
  BY DEF EndLate, IInv, SelectsComparable, Wired, Knows, RunsKnow, RunKnows, OldestFirst
<1>3. QED BY <1>1, <1>2, EndLateKeeps DEF IInv

LEMMA LateSnapshotInv == ASSUME NEW s \in Snap PROVE IInv /\ LateSnapshot(s) => IInv'
<1> SUFFICES ASSUME IInv, LateSnapshot(s) PROVE IInv'
  OBVIOUS
<1> USE DEF selects
<1>1. PICK t \in 1 .. txg[s] :
        /\ handler' = [of |-> s, order |-> SnapshotOrder(s, t)]
        /\ stale' = IF t = txg[s] THEN stale ELSE stale \cup {s}
  BY DEF LateSnapshot
<1>2. /\ view # None /\ EndLate /\ UNCHANGED <<lists, selects>>
      /\ UNCHANGED <<txg, created, view, disabled, runs, out, typed, applied>>
  BY DEF LateSnapshot, EndLate
<1>3. t \in Nat /\ SnapshotOrder(s, t) \in Nat \cup {None}
  BY DEF IInv, TypeOK, SnapshotOrder
<1>4. TypeOK'
  BY <1>1, <1>2, <1>3, EndLateKeeps DEF IInv, TypeOK, Handler
<1>5. \A o, x : Knows(o, x) => Knows(o, x)'
  BY <1>1, <1>2 DEF Knows
<1>6. Knows(SnapshotOrder(s, t), s)'
  BY <1>1, <1>2, <1>3, SnapAssumption DEF Knows, SnapshotOrder
<1>7. SelectsComparable' /\ Wired' /\ RunsKnow' /\ OldestFirst'
  <2>1. SelectsComparable' /\ Wired'
    BY <1>1, <1>2, <1>6, SnapAssumption DEF IInv, SelectsComparable, Wired
  <2>2. RunsKnow'
    BY <1>2, <1>5 DEF IInv, RunsKnow, RunKnows
  <2>3. OldestFirst'
    BY <1>1, <1>2 DEF IInv, OldestFirst
  <2>4. QED BY <2>1, <2>2, <2>3
<1>8. QED BY <1>2, <1>4, <1>7, EndLateKeeps DEF IInv

LEMMA LatePoolDiffInv == ASSUME NEW l \in Listing PROVE IInv /\ LatePoolDiff(l) => IInv'
<1> SUFFICES ASSUME IInv, LatePoolDiff(l) PROVE IInv'
  OBVIOUS
<1>1. /\ view = None /\ EndLate /\ lists' = Append(lists, l) /\ UNCHANGED <<stale, handler>>
      /\ UNCHANGED <<txg, created, view, disabled, runs, out, typed, applied>>
  BY DEF LatePoolDiff, EndLate
<1>2. lists' \in Seq(Listing) /\ lists' # <<>>
  BY <1>1 DEF IInv, TypeOK
<1> DEFINE SelectsKnown ==
      /\ query' \in Query /\ listing' \in Listing /\ from' \in Snap \cup {None}
      /\ to' \in Snap \cup Dataset \cup {None} /\ SelectsComparable'
<1>3. SelectsKnown
  <2>1. CASE UNCHANGED selects
    BY <2>1 DEF selects, IInv, TypeOK, SelectsComparable
  <2>2. ASSUME NEW q \in Query, RebuildDiffSelects(l, q, [from |-> from, to |-> to])
        PROVE  SelectsKnown
    <3>1. l \in SUBSET Snap
      BY SnapAssumption
    <3>2. QED BY <2>2, <3>1, RebuildComparable
  <2>3. QED BY <2>1, <2>2 DEF LatePoolDiff
<1>4. TypeOK'
  BY <1>1, <1>2, <1>3, EndLateKeeps DEF IInv, TypeOK
<1>5. Wired' /\ RunsKnow' /\ OldestFirst'
  BY <1>1, <1>2 DEF IInv, Wired, RunsKnow, RunKnows, OldestFirst
<1>6. QED BY <1>1, <1>3, <1>4, <1>5, EndLateKeeps DEF IInv

\* A click with the button enabled adds a comparison, the only one under way.
LEMMA ClickInv ==
  ASSUME IInv, ~disabled, NEW new \in Run, runs' = Append(runs, new),
         new.at \in {"checking", "diffing", "done"},
         NEW is \in {"checking", "running", "hint"}, ShowDiffOutput(is, Clicks + 1, FALSE),
         disabled' \in BOOLEAN, disabled' <=> new.at # "done",
         is \in {"checking", "running"} <=> new.at # "done",
         new.at # "done" => /\ new.by = handler /\ new.from = Compared /\ new.to = to
                            /\ Compared # None /\ to # None,
         new.at = "checking" => NeedsOrder,
         new.at = "diffing" => ~NeedsOrder,
         UNCHANGED <<world, view, wiring, selects, late>>
  PROVE  IInv'
<1> USE DEF world, wiring, selects
<1>1. runs \in Seq(Run) /\ Clicks \in Nat
  BY DEF IInv, TypeOK, Clicks
<1>2. /\ runs' \in Seq(Run) /\ Clicks' = Clicks + 1 /\ DOMAIN runs = 1 .. Clicks
      /\ DOMAIN runs' = 1 .. Clicks'
  BY <1>1 DEF Clicks
<1>3. \A i \in DOMAIN runs' : IF i = Clicks' THEN runs'[i] = new
                              ELSE i \in DOMAIN runs /\ runs'[i] = runs[i]
  BY <1>1, <1>2 DEF Clicks
<1>4. \A i \in DOMAIN runs : runs[i].at = "done"
  BY DEF IInv, OneRun
<1>5. TypeOK'
  <2>1. out' \in Text
    <3>1. [is |-> is, of |-> Clicks + 1, long |-> FALSE] \in Text
      BY <1>1 DEF Text
    <3>2. QED BY <3>1 DEF ShowDiffOutput
  <2>2. applied' \in Query /\ typed' \in Query /\ taken' \in Text \cup {None}
    BY QueryAssumption DEF IInv, TypeOK, ShowDiffOutput
  <2>3. QED BY <1>2, <2>1, <2>2 DEF IInv, TypeOK
<1>6. SelectsComparable' /\ TimesApart' /\ Wired'
  BY DEF IInv, SelectsComparable, TimesApart, Wired, Knows
<1>7. OneRun'
  BY <1>1, <1>2, <1>3, <1>4 DEF OneRun
<1>8. new.at # "done" => /\ Compared \in Snap
                         /\ handler.of = view => Comparable(Compared, to)
  BY DEF IInv, TypeOK, Handler, SelectsComparable, Wired, Compared
<1>9. RunsComparable'
  BY <1>3, <1>4, <1>8 DEF RunsComparable, Comparable
<1>10. RunsKnow' /\ PoolSends'
  <2>1. new.at = "checking" => /\ view # None /\ handler.of \in Snap /\ Compared = handler.of
                               /\ to \in Snap /\ Knows(handler.order, handler.of)
    BY DEF IInv, TypeOK, Handler, Wired, NeedsOrder, Compared
  <2>2. RunKnows(new)' /\ (view = None => new.at # "checking")
    BY <2>1 DEF RunKnows, Knows
  <2>3. QED BY <1>3, <1>4, <2>2 DEF RunsKnow, RunKnows, PoolSends
<1>11. OldestFirst'
  <2>1. new.at = "diffing" /\ view # None => to \notin Snap
    BY DEF IInv, Wired, NeedsOrder
  <2>2. QED BY <1>3, <1>4, <2>1 DEF OldestFirst
<1>12. Written'
  BY <1>1, <1>2 DEF IInv, Written, ShowDiffOutput, Clicks
<1>13. QED
  BY <1>5, <1>6, <1>7, <1>9, <1>10, <1>11, <1>12 DEF IInv

\* The two ways in which a comparison begins.
LEMMA BeginInv ==
  ASSUME IInv, NEW at \in {"checking", "diffing"}, NEW is \in {"checking", "running"},
         CanDiff, Click(at, is), disabled' = TRUE,
         at = "checking" => NeedsOrder, at = "diffing" => ~NeedsOrder,
         UNCHANGED <<world, view, wiring, selects, late>>
  PROVE  IInv'
<1> DEFINE new == [by |-> handler, from |-> Compared, to |-> to, order |-> None, at |-> at]
<1>1. /\ runs' = Append(runs, new) /\ ShowDiffOutput(is, Clicks + 1, FALSE)
      /\ ~disabled /\ Compared # None /\ to # None
  BY DEF Click, CanDiff
<1>2. /\ new \in Run /\ new.at = at /\ new.by = handler
      /\ new.from = Compared /\ new.to = to
  BY DEF IInv, TypeOK, Handler, Run, Compared
<1> HIDE DEF new
<1>3. QED BY <1>1, <1>2, ClickInv

LEMMA CheckInv == IInv /\ Check => IInv'
BY BeginInv DEF Check

LEMMA DiffInv == IInv /\ Diff => IInv'
BY BeginInv DEF Diff

LEMMA OverIsRun == Over \in Run /\ Over.at = "done"
BY DEF Over, Run, Handler

LEMMA DiffNothingInv == IInv /\ DiffNothing => IInv'
<1> SUFFICES ASSUME IInv, DiffNothing PROVE IInv'
  OBVIOUS
<1>1. ~disabled /\ disabled' \in BOOLEAN /\ ~disabled'
  BY DEF DiffNothing, IInv, TypeOK
<1>2. /\ runs' = Append(runs, Over) /\ ShowDiffOutput("hint", Clicks + 1, FALSE)
      /\ UNCHANGED <<world, view, wiring, selects, late>>
  BY DEF DiffNothing
<1>3. QED BY <1>1, <1>2, OverIsRun, ClickInv

\* A comparison is replaced, the others stay.
LEMMA RunReplaced ==
  ASSUME NEW rs \in Seq(Run), NEW i \in DOMAIN rs, NEW r \in Run,
         NEW ss, ss = [rs EXCEPT ![i] = r]
  PROVE  /\ ss \in Seq(Run) /\ Len(ss) = Len(rs) /\ DOMAIN ss = DOMAIN rs
         /\ ss[i] = r /\ \A j \in DOMAIN rs : j # i => ss[j] = rs[j]
OBVIOUS

LEMMA AnswerInv ==
  ASSUME NEW i \in DOMAIN runs PROVE IInv /\ Answer(i) => IInv'
<1> SUFFICES ASSUME IInv, Answer(i) PROVE IInv'
  OBVIOUS
<1> USE DEF Answer, world, wiring, selects, output
<1>1. runs[i] \in Run /\ runs[i].to \in Snap
  <2>1. runs[i] \in Run
    BY DEF IInv, TypeOK
  <2>2. view # None
    BY DEF IInv, PoolSends
  <2>3. QED BY <2>1, <2>2 DEF IInv, RunsKnow, RunKnows
<1>2. SnapshotOrder(runs[i].to, txg[runs[i].to]) \in Nat \cup {None} /\ Knows(SnapshotOrder(runs[i].to, txg[runs[i].to]), runs[i].to)
  BY <1>1, SnapAssumption DEF IInv, TypeOK, SnapshotOrder, Knows
<1>3. /\ runs' \in Seq(Run) /\ Len(runs') = Len(runs) /\ DOMAIN runs' = DOMAIN runs
      /\ \A j \in DOMAIN runs : j # i => runs'[j] = runs[j]
      /\ runs'[i].at = "known" /\ runs'[i].order = SnapshotOrder(runs[i].to, txg[runs[i].to])
      /\ runs'[i].from = runs[i].from /\ runs'[i].to = runs[i].to
      /\ runs'[i].by = runs[i].by
  <2> DEFINE new == [runs[i] EXCEPT !.at = "known", !.order = SnapshotOrder(runs[i].to, txg[runs[i].to])]
  <2>1. new \in Run /\ new.at = "known" /\ new.order = SnapshotOrder(runs[i].to, txg[runs[i].to])
        /\ new.from = runs[i].from /\ new.to = runs[i].to /\ new.by = runs[i].by
    BY <1>1, <1>2 DEF Run
  <2>2. runs' = [runs EXCEPT ![i] = new]
    BY <1>1 DEF IInv, TypeOK
  <2>3. runs \in Seq(Run)
    BY DEF IInv, TypeOK
  <2> HIDE DEF new
  <2>4. /\ runs' \in Seq(Run) /\ Len(runs') = Len(runs) /\ DOMAIN runs' = DOMAIN runs
        /\ runs'[i] = new /\ \A j \in DOMAIN runs : j # i => runs'[j] = runs[j]
    <3>1. new \in Run
      BY <2>1
    <3>2. QED BY ONLY <2>2, <2>3, <3>1, i \in DOMAIN runs, RunReplaced
  <2>5. QED BY <2>1, <2>4
<1>4. TypeOK'
  BY <1>3 DEF IInv, TypeOK
<1>5. SelectsComparable' /\ OneRun' /\ TimesApart' /\ Wired' /\ Written'
  BY <1>3 DEF IInv, SelectsComparable, OneRun, TimesApart, Wired, Knows, Written, Clicks
<1>6. RunsComparable' /\ PoolSends' /\ OldestFirst'
  BY <1>3 DEF IInv, RunsComparable, Comparable, PoolSends, OldestFirst
<1>7. RunsKnow'
  BY <1>2, <1>3 DEF IInv, RunsKnow, RunKnows, Knows
<1>8. QED BY <1>4, <1>5, <1>6, <1>7 DEF IInv

\* What is left to show of a step that replaces comparison i, under way, and
\* writes what came of it.
LEMMA ReplaceInv ==
  ASSUME IInv, NEW i \in DOMAIN runs, runs[i].at # "done", NEW new \in Run,
         runs' = [runs EXCEPT ![i] = new],
         NEW is \in {"running", "diff", "error"}, NEW long \in BOOLEAN,
         is = "running" => ~long,
         ShowDiffOutput(is, i, long), disabled' \in BOOLEAN,
         disabled' <=> new.at # "done", disabled' <=> is = "running",
         new.at \in {"diffing", "done"},
         new.at # "done" => /\ new.from \in Snap
                            /\ new.by.of = view => Comparable(new.from, new.to),
         new.at = "diffing" /\ view # None /\ new.to \in Snap \ {new.from}
           /\ {new.from, new.to} \cap (stale \cup Unordered) = {}
           => txg[new.from] < txg[new.to],
         UNCHANGED <<world, view, wiring, selects, late>>
  PROVE  IInv'
<1> USE DEF world, wiring, selects
<1>1. runs \in Seq(Run)
  BY DEF IInv, TypeOK
<1>2. /\ runs' \in Seq(Run) /\ Len(runs') = Len(runs) /\ DOMAIN runs' = DOMAIN runs
      /\ runs'[i] = new /\ \A j \in DOMAIN runs : j # i => runs'[j] = runs[j]
  BY ONLY <1>1, i \in DOMAIN runs, new \in Run, runs' = [runs EXCEPT ![i] = new], RunReplaced
<1>3. i = Clicks /\ i \in Nat /\ \A j \in DOMAIN runs : j # i => runs[j].at = "done"
  BY <1>1 DEF IInv, OneRun
<1>4. TypeOK'
  <2>1. out' \in Text
    BY <1>3 DEF IInv, TypeOK, ShowDiffOutput, Text
  <2>2. applied' \in Query /\ typed' \in Query /\ taken' \in Text \cup {None}
    BY QueryAssumption DEF IInv, TypeOK, ShowDiffOutput
  <2>3. QED BY <1>2, <2>1, <2>2 DEF IInv, TypeOK
<1>5. SelectsComparable' /\ TimesApart' /\ Wired'
  BY DEF IInv, SelectsComparable, TimesApart, Wired, Knows
<1>6. OneRun'
  BY <1>1, <1>2, <1>3 DEF OneRun, Clicks
<1>7. RunsComparable' /\ PoolSends' /\ RunsKnow'
  BY <1>2, <1>3 DEF IInv, RunsComparable, Comparable, PoolSends, RunsKnow, RunKnows, Knows
<1>8. OldestFirst'
  BY <1>2, <1>3 DEF IInv, OldestFirst
<1>9. Written'
  <2>1. Clicks' = Clicks /\ Clicks # 0 /\ taken' = taken
    BY <1>1, <1>2, <1>3 DEF Clicks, ShowDiffOutput
  <2>2. CASE is = "diff" /\ taken # None
    <3>1. out' = out /\ ~disabled'
      BY <2>2 DEF ShowDiffOutput
    <3>2. QED BY <2>1, <2>2, <3>1 DEF IInv, Written
  <2>3. CASE is # "diff" \/ taken = None
    <3>1. /\ out'.is = is /\ out'.of = i /\ out'.long = long
          /\ typed' = typed /\ (is = "diff" => applied' = typed)
      BY <2>3 DEF ShowDiffOutput
    <3>2. QED BY <1>3, <2>1, <3>1 DEF Written
  <2>4. QED BY <2>2, <2>3
<1>10. QED
  BY <1>4, <1>5, <1>6, <1>7, <1>8, <1>9 DEF IInv

LEMMA SendInv ==
  ASSUME NEW i \in DOMAIN runs PROVE IInv /\ Send(i) => IInv'
<1> SUFFICES ASSUME IInv, Send(i) PROVE IInv'
  OBVIOUS
<1> DEFINE r    == runs[i]
           swap == r.by.order # None /\ r.order # None /\ r.order < r.by.order
           new  == [r EXCEPT !.at = "diffing", !.from = IF swap THEN r.to ELSE @,
                             !.to = IF swap THEN r.from ELSE @]
<1>1. /\ r \in Run /\ r.at = "known" /\ disabled /\ view # None
      /\ r.to \in Snap /\ r.from \in Snap
      /\ Knows(r.order, r.to) /\ Knows(r.by.order, r.from)
      /\ r.by.of = view => Comparable(r.from, r.to)
  <2>1. r \in Run
    BY DEF IInv, TypeOK
  <2>2. r.at = "known" /\ disabled /\ view # None
    BY DEF Send, IInv, OneRun, PoolSends
  <2>3. QED
    BY <2>1, <2>2 DEF IInv, RunsKnow, RunKnows, RunsComparable
<1>2. /\ new \in Run /\ new.at = "diffing" /\ new.by = r.by
      /\ \/ swap /\ new.from = r.to /\ new.to = r.from
         \/ ~swap /\ new.from = r.from /\ new.to = r.to
  BY <1>1 DEF Run
<1>3. /\ new.from \in Snap
      /\ new.by.of = view => Comparable(new.from, new.to)
  BY <1>1, <1>2, SnapAssumption DEF Comparable
<1>4. ASSUME {new.from, new.to} \cap (stale \cup Unordered) = {}, new.to # new.from
      PROVE  txg[new.from] < txg[new.to]
  <2>1. {r.from, r.to} \cap (stale \cup Unordered) = {}
    BY <1>2, <1>4
  <2>2. r.order = txg[r.to] /\ r.by.order = txg[r.from] /\ r.order # None /\ r.by.order # None
    BY <1>1, <2>1 DEF Knows
  <2>3. txg[r.to] \in Nat /\ txg[r.from] \in Nat /\ txg[r.to] # txg[r.from]
    BY <1>1, <1>2, <1>4 DEF IInv, TypeOK, TimesApart
  <2>4. QED BY <1>2, <2>2, <2>3
<1>5. /\ runs' = [runs EXCEPT ![i] = new] /\ ShowDiffOutput("running", i, FALSE)
      /\ disabled' = disabled /\ disabled \in BOOLEAN
      /\ UNCHANGED <<world, view, wiring, selects, late>>
  BY DEF Send, IInv, TypeOK
<1> HIDE DEF new
<1>6. QED BY <1>1, <1>2, <1>3, <1>4, <1>5, ReplaceInv

LEMMA FinishInv ==
  ASSUME NEW i \in DOMAIN runs PROVE IInv /\ Finish(i) => IInv'
<1> SUFFICES ASSUME IInv, Finish(i) PROVE IInv'
  OBVIOUS
<1>1. runs[i].at # "done"
  BY DEF Finish
<1>3. PICK is \in {"diff", "error"}, long \in BOOLEAN : ShowDiffOutput(is, i, long)
  BY DEF Finish
<1>4. /\ runs' = [runs EXCEPT ![i] = Over] /\ disabled' \in BOOLEAN /\ ~disabled'
      /\ UNCHANGED <<world, view, wiring, selects, late>>
  BY DEF Finish, IInv, TypeOK
<1>5. QED BY <1>1, <1>3, <1>4, OverIsRun, ReplaceInv

LEMMA NextInv == IInv /\ [Next]_vars => IInv'
<1> SUFFICES ASSUME IInv, [Next]_vars PROVE IInv'
  OBVIOUS
<1>1. CASE Check \/ Diff \/ DiffNothing \/ EnhanceLists
  BY <1>1, CheckInv, DiffInv, DiffNothingInv, EnhanceListsInv
<1>2. ASSUME NEW l \in Listing, OpenPoolDiff(l) \/ LatePoolDiff(l) PROVE IInv'
  BY <1>2, OpenPoolDiffInv, LatePoolDiffInv
<1>3. ASSUME NEW s \in Snap, NEW l \in Listing, OpenSnapshot(s, l) PROVE IInv'
  BY <1>3, OpenSnapshotInv
<1>4. ASSUME NEW s \in Snap, Recreate(s) \/ ChooseFrom(s) \/ LateSnapshot(s) PROVE IInv'
  BY <1>4, RecreateInv, ChooseFromInv, LateSnapshotInv
<1>5. ASSUME NEW t \in Snap \cup Dataset, ChooseTo(t) PROVE IInv'
  BY <1>5, ChooseToInv
<1>6. ASSUME NEW q \in Query, FilterSnapshots(q) \/ FilterResults(q) PROVE IInv'
  BY <1>6, FilterSnapshotsInv, FilterResultsInv
<1>7. ASSUME NEW i \in DOMAIN runs, Answer(i) \/ Send(i) \/ Finish(i) PROVE IInv'
  BY <1>7, AnswerInv, SendInv, FinishInv
<1>8. CASE UNCHANGED vars
  <2>1. UNCHANGED <<world, view, wiring, disabled, runs, output, late>> /\ UNCHANGED selects
    BY <1>8 DEF vars
  <2>2. /\ query' \in Query /\ listing' \in Listing /\ from' \in Snap \cup {None}
        /\ to' \in Snap \cup Dataset \cup {None}
    BY <2>1 DEF selects, IInv, TypeOK
  <2>3. SelectsComparable' /\ from' = from
    BY <2>1 DEF selects, IInv, SelectsComparable
  <2>4. QED BY <2>1, <2>2, <2>3, SelectsInv
<1>9. QED BY <1>1, <1>2, <1>3, <1>4, <1>5, <1>6, <1>7, <1>8 DEF Next

LEMMA Invariant == Spec => []IInv
<1>1. QED BY InitInv, NextInv, PTL DEF Spec

\* The controls, the comparisons and what is written keep their types, however
\* often the selects are filled again and the button is clicked.
THEOREM TypeCorrect == Spec => []TypeOK
<1>1. IInv => TypeOK
  BY DEF IInv
<1>2. QED BY <1>1, Invariant, PTL

\* Whatever is typed over the selects, chosen in them and filled in by late
\* renders, the agent is only asked to compare a snapshot with its dataset or
\* another snapshot of it, unless a late render has given the button of a
\* snapshot's view the handler of another snapshot.
THEOREM PairsComparable == Spec => []PairComparable
<1>1. IInv => PairComparable
  BY DEF IInv, RunsComparable, PairComparable, Comparable
<1>2. QED BY <1>1, Invariant, PTL

\* A snapshot's view sends the older snapshot first, whatever is chosen in the
\* select and created again while the properties are asked for, and whichever
\* render the button's handler is of.
THEOREM PairsOrdered == Spec => []OldestFirst
<1>1. IInv => OldestFirst
  BY DEF IInv
<1>2. QED BY <1>1, Invariant, PTL

\* With the button enabled, the text that was written is that of the last click,
\* as long as no late render has taken it out of the page.
THEOREM LastWritten == Spec => []LastDiffWritten
<1>1. IInv => LastDiffWritten
  BY DEF IInv, Written, LastDiffWritten, Visible
<1>2. QED BY <1>1, Invariant, PTL

\* A diff is shown through the filter over it, whenever that was typed.
THEOREM Filtered == Spec => []DiffFiltered
<1>1. IInv => DiffFiltered
  BY DEF IInv, Written, DiffFiltered
<1>2. QED BY <1>1, Invariant, PTL

-----------------------------------------------------------------------------
\* What the text that is to be seen is to DiffConsole.
Shown == [of |-> Visible.of,
          is |-> IF Visible.is \in {"checking", "running"} THEN "busy" ELSE Visible.is]

Outcomes == {"hint", "diff", "error"}

\* A text that is written is shown, unless the output has left the page.
LEMMA WriteShows ==
  ASSUME NEW is, NEW of, NEW long, ShowDiffOutput(is, of, long)
  PROVE  /\ taken' = taken
         /\ Shown' = IF taken # None THEN Shown
                     ELSE [of |-> of, is |-> IF is \in {"checking", "running"}
                                             THEN "busy" ELSE is]
<1>1. CASE taken = None
  BY <1>1 DEF ShowDiffOutput, Visible, Shown
<1>2. CASE taken # None
  BY <1>2 DEF ShowDiffOutput, Visible, Shown
<1>3. QED BY <1>1, <1>2

\* Steps that leave the comparisons and the output alone.
LEMMA StepStutters ==
  ASSUME IInv, \/ UNCHANGED vars
               \/ \E s \in Snap : Recreate(s) \/ ChooseFrom(s)
               \/ \E t \in Snap \cup Dataset : ChooseTo(t)
               \/ \E q \in Query : FilterSnapshots(q) \/ FilterResults(q)
               \/ \E i \in DOMAIN runs : Answer(i)
  PROVE  UNCHANGED <<disabled, Clicks, out, taken>>
<1>1. CASE \E i \in DOMAIN runs : Answer(i)
  <2>1. PICK i \in DOMAIN runs : Answer(i)
    BY <1>1
  <2>2. UNCHANGED <<disabled, out, taken>> /\ \E r : runs' = [runs EXCEPT ![i] = r]
    <3> DEFINE new == [runs[i] EXCEPT !.at = "known",
                                      !.order = SnapshotOrder(runs[i].to, txg[runs[i].to])]
    <3>1. runs' = [runs EXCEPT ![i] = new]
      BY <2>1, RunsSeq DEF Answer
    <3>2. QED BY <2>1, <3>1 DEF Answer, output
  <2>3. QED BY <2>2, RunsSeq, LenExcept DEF Clicks
<1>2. CASE \E t \in Snap \cup Dataset : ChooseTo(t)
  BY <1>2 DEF ChooseTo, output, Clicks
<1>3. CASE \E q \in Query : FilterSnapshots(q) \/ FilterResults(q)
  BY <1>3 DEF FilterSnapshots, FilterResults, output, Clicks
<1>4. CASE \E s \in Snap : Recreate(s) \/ ChooseFrom(s)
  BY <1>4 DEF Recreate, ChooseFrom, output, Clicks
<1>5. CASE UNCHANGED vars
  BY <1>5 DEF vars, output, Clicks
<1>6. QED BY <1>1, <1>2, <1>3, <1>4, <1>5

LEMMA StepRefines == IInv /\ [Next]_vars => [Console!Next]_(Console!vars)
<1> SUFFICES ASSUME IInv, [Next]_vars PROVE Console!Next \/ UNCHANGED Console!vars
  OBVIOUS
<1> DEFINE asked == IF disabled THEN Clicks ELSE 0
<1>0. /\ Clicks \in Nat /\ out.of = Clicks /\ disabled \in BOOLEAN
      /\ disabled => Clicks # 0
  BY DEF IInv, TypeOK, OneRun, Written, Clicks
<1>1. ASSUME NewControls PROVE Console!Next
  <2>1. ~disabled' /\ Clicks' = 0 /\ out' = Blank /\ taken' = None
    BY <1>1 DEF NewControls, Clicks
  <2>2. Console!Open
    BY <2>1 DEF Console!Open, Console!Nothing, Blank, Visible
  <2>3. QED BY <2>2 DEF Console!Next
<1>2. CASE Check \/ Diff
  <2>1. PICK is \in {"checking", "running"} :
          ~disabled /\ disabled' /\ Clicks' = Clicks + 1 /\ ShowDiffOutput(is, Clicks + 1, FALSE)
    <3>1. PICK is \in {"checking", "running"} :
            /\ ~disabled /\ disabled' = TRUE /\ \E r : runs' = Append(runs, r)
            /\ ShowDiffOutput(is, Clicks + 1, FALSE)
      BY <1>2 DEF Check, Diff, CanDiff, Click
    <3>2. QED BY <3>1, RunsSeq, LenAppend, LenExcept DEF Clicks
  <2>2. /\ taken' = taken
        /\ Shown' = IF taken # None THEN Shown ELSE [of |-> Clicks', is |-> "busy"]
    BY <2>1, WriteShows
  <2>3. Console!Ask
    BY <2>1, <2>2 DEF Console!Ask, Console!Show, Shown
  <2>4. QED BY <2>3 DEF Console!Next
<1>3. CASE DiffNothing
  <2>1. /\ ~disabled /\ ~disabled' /\ Clicks' = Clicks + 1
        /\ ShowDiffOutput("hint", Clicks + 1, FALSE)
    BY <1>3, RunsSeq, LenAppend, LenExcept DEF DiffNothing, Clicks
  <2>2. /\ taken' = taken
        /\ Shown' = IF taken # None THEN Shown ELSE [of |-> Clicks', is |-> "hint"]
    BY <2>1, WriteShows
  <2>3. Console!Ask
    BY <2>1, <2>2 DEF Console!Ask, Console!Show, Shown
  <2>4. QED BY <2>3 DEF Console!Next
<1>4. ASSUME NEW i \in DOMAIN runs, Send(i) PROVE UNCHANGED Console!vars
  <2>1. disabled /\ i = Clicks /\ out.is \in {"checking", "running"}
    BY <1>4 DEF Send, IInv, OneRun, Written
  <2>2. UNCHANGED <<disabled, Clicks>> /\ ShowDiffOutput("running", i, FALSE)
    BY <1>4, RunsSeq, LenAppend, LenExcept DEF Send, Clicks
  <2>3. taken' = taken /\ Shown' = IF taken # None THEN Shown ELSE [of |-> i, is |-> "busy"]
    BY <2>2, WriteShows
  <2>4. taken = None => Shown = [of |-> i, is |-> "busy"]
    BY <1>0, <2>1 DEF Shown, Visible
  <2>5. QED BY <2>2, <2>3, <2>4 DEF Console!vars, Shown
<1>5. ASSUME NEW i \in DOMAIN runs, Finish(i) PROVE Console!Next
  <2>1. disabled /\ i = Clicks
    BY <1>5 DEF Finish, IInv, OneRun
  <2>2. PICK is \in {"diff", "error"}, long \in BOOLEAN : ShowDiffOutput(is, i, long)
    BY <1>5 DEF Finish
  <2>3. ~disabled' /\ Clicks' = Clicks
    BY <1>5, RunsSeq, LenAppend, LenExcept DEF Finish, Clicks
  <2>4. /\ taken' = taken
        /\ Shown' = IF taken # None THEN Shown ELSE [of |-> i, is |-> is]
    BY <2>2, WriteShows
  <2>5. Console!Reply
    BY <1>0, <2>1, <2>3, <2>4 DEF Console!Reply, Console!Show, Shown
  <2>6. QED BY <2>5 DEF Console!Next
<1>6. ASSUME EndLate PROVE Console!Next \/ UNCHANGED Console!vars
  <2>1. UNCHANGED <<disabled, Clicks, out>>
    BY <1>6 DEF EndLate, Clicks
  <2>2. CASE taken' = taken
    BY <2>1, <2>2 DEF Console!vars, Visible
  <2>3. CASE taken = None /\ out.long /\ taken' = out
    <3>1. ~disabled /\ out.is \in Outcomes
      BY <1>0, <2>3 DEF IInv, Written, Outcomes
    <3>2. /\ Visible = out /\ Visible' = out /\ taken' # None
      BY <2>1, <2>3, NoText DEF IInv, TypeOK, Visible
    <3>3. Console!Lose
      BY <2>1, <3>1, <3>2 DEF Console!Lose, Outcomes
    <3>4. QED BY <3>3 DEF Console!Next
  <2>4. QED BY <1>6, <2>2, <2>3 DEF EndLate
<1>7. ASSUME UNCHANGED <<disabled, Clicks, out, taken>> PROVE UNCHANGED Console!vars
  BY <1>7 DEF Console!vars, Visible
<1>8. QED
  <2>1. CASE \E l \in Listing : OpenPoolDiff(l)
    BY <1>1, <2>1 DEF OpenPoolDiff
  <2>2. CASE \E s \in Snap, l \in Listing : OpenSnapshot(s, l)
    BY <1>1, <2>2 DEF OpenSnapshot
  <2>3. CASE \/ EnhanceLists \/ \E l \in Listing : LatePoolDiff(l)
             \/ \E s \in Snap : LateSnapshot(s)
    BY <1>6, <2>3 DEF EnhanceLists, LatePoolDiff, LateSnapshot
  <2>4. QED BY <1>2, <1>3, <1>4, <1>5, <1>7, <2>1, <2>2, <2>3, StepStutters DEF Next

\* Whatever the controls are built from, they are DiffConsole: a comparison at a
\* time, and what is shown comes of the last one asked for, until a late render
\* takes it out of the page.
THEOREM ConsoleSafe == Spec => Console!Init /\ [][Console!Next]_(Console!vars)
<1>1. Init => Console!Init
  BY DEF Init, Blank, Visible, Console!Init, Console!Nothing, Clicks
<1>2. QED BY <1>1, Invariant, StepRefines, PTL DEF Spec
=============================================================================
