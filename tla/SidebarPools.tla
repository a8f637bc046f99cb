---------------------------- MODULE SidebarPools ----------------------------
(***************************************************************************)
(* The pools in the sidebar (src/internal/web/static/app.js): the box of a *)
(* pool lists its datasets, a dataset's box its snapshots (and its files), *)
(* a snapshot's box its files.                                             *)
(*                                                                         *)
(* renderSidebar() replaces the sidebar and asks for an open pool's        *)
(* datasets.  The answer fills the pool's box and starts one fill for each *)
(* open dataset, all with the snapshots of that answer; a fill looks for   *)
(* its box in the document of then, draws its rows with the flags of then  *)
(* and, if it has files to list, waits before it writes them.  An answer   *)
(* whose box has been replaced goes on like any other.                     *)
(*                                                                         *)
(* Directories are left to Sidebar: refillOpenDirs() is its loop; here it  *)
(* only ends, and then the sidebar's filter is applied.                    *)
(***************************************************************************)
EXTENDS Naturals, Sequences, SequencesExt

CONSTANTS
  Pool,         \* the pool
  Dataset,      \* its file systems and volumes
  Kind,         \* which of "mounted", "unmounted" and "volume" each one is
  Snap, Of,     \* snapshots that may exist, and their datasets
  MaxJobs,      \* bound: calls under way
  MaxSteps,     \* bound: clicks, views visited and F5s
  MaxChanges    \* bound: snapshots created and destroyed

ASSUME TreeAssumption ==
  /\ Pool \notin Dataset \cup Snap /\ Dataset \cap Snap = {}
  /\ Kind \in [Dataset -> {"mounted", "unmounted", "volume"}]
  /\ Of \in [Snap -> Dataset]
  /\ IsFiniteSet(Dataset) /\ IsFiniteSet(Snap)
ASSUME BoundAssumption == MaxJobs \in Nat /\ MaxSteps \in Nat /\ MaxChanges \in Nat

VARIABLES
  exists,     \* the snapshots there are
  changes,    \* created and destroyed so far
  cached,     \* the three listings are cached
  files,      \* nav.includeFiles
  open,       \* nav.poolKids and nav.dsOpen
  shown,      \* the sidebar has its sections
  pool,       \* the pool's box: what it shows, of which snapshots
  ds,         \* each dataset's box
  snap,       \* each snapshot's box
  jobs,       \* the calls that wait, in the order they began
  refills,    \* refillOpenDirs() loops under way
  rendering,  \* views whose render has not yet come to renderSidebar()
  steps,      \* clicks, views and F5s so far
  unfiltered, \* rows have been written since the filter was applied
  crossed     \* history: an answer of a replaced box has filled boxes here

nav  == <<cached, files, open>>
page == <<shown, pool, ds, snap>>
vars == <<exists, changes, nav, page, jobs, refills, rendering, steps, unfiltered, crossed>>

\* twists: the datasets that can be opened
PoolBox == [is : {"absent", "loading", "rows", "error"}, snaps : SUBSET Snap,
            twists : SUBSET Dataset]
\* twisty: its snapshots can be opened
DsBox == [is : {"absent", "loading", "rows"}, snaps : SUBSET Snap, twisty : BOOLEAN]

NoPool == [is |-> "absent", snaps |-> {}, twists |-> {}]
NoDs   == [is |-> "absent", snaps |-> {}, twisty |-> FALSE]

\* live: the box the call found is in the document
SidebarJob  == [at : {"sidebar"}]
PoolJob     == [at : {"sent", "answered"}, live : BOOLEAN, snaps : SUBSET Snap]
DatasetJob  == [at : {"dataset"}, of : Dataset, live : BOOLEAN, snaps : SUBSET Snap,
                drawn : SUBSET Snap]
SnapshotJob == [at : {"snapshot"}, of : Snap, live : BOOLEAN]

TypeOK ==
  /\ exists \subseteq Snap /\ changes \in Nat
  /\ cached \in BOOLEAN /\ files \in BOOLEAN
  /\ open \in [{Pool} \cup Dataset \cup Snap -> BOOLEAN]
  /\ shown \in BOOLEAN /\ pool \in PoolBox /\ ds \in [Dataset -> DsBox]
  /\ snap \in [Snap -> {"absent", "loading", "rows"}]
  /\ jobs \in Seq(SidebarJob \cup PoolJob \cup DatasetJob \cup SnapshotJob)
  /\ refills \in Nat /\ rendering \in Nat /\ steps \in Nat
  /\ unfiltered \in BOOLEAN /\ crossed \in BOOLEAN

Init ==
  /\ exists \in SUBSET Snap /\ changes = 0
  /\ cached = FALSE /\ files \in BOOLEAN
  /\ open = [i \in {Pool} \cup Dataset \cup Snap |-> FALSE]
  /\ shown = FALSE /\ pool = NoPool /\ ds = [d \in Dataset |-> NoDs]
  /\ snap = [s \in Snap |-> "absent"]
  /\ jobs = <<>> /\ refills = 0 /\ rendering = 1 /\ steps = 0
  /\ unfiltered = FALSE /\ crossed = FALSE

-----------------------------------------------------------------------------
SnapsOf(d) == {s \in Snap : Of[s] = d}

\* A mutant: every snapshot of the listing.
RowsOfAny(d, snaps) == snaps

\* Those of the snapshots snaps that dataset d lists.
RowsOf(d, snaps) == SnapsOf(d) \cap snaps

\* js when the boxes of the kinds and things in gone have left the document.
Detach(js, gone) ==
  [i \in DOMAIN js |->
     IF \/ js[i].at \in {"sent", "answered"} /\ Pool \in gone
        \/ js[i].at \in {"dataset", "snapshot"} /\ js[i].of \in gone
     THEN [js[i] EXCEPT !.live = FALSE] ELSE js[i]]

\* js and the calls in new; the bound MaxJobs stops what would be too many.
Spawn(js, new) == jobs' = js \o SetToSeq(new) /\ Len(jobs') <= MaxJobs

Everything == {Pool} \cup Dataset \cup Snap

\* renderSidebar() after its awaits, or its error: everything is replaced.
Rebuild(js, ok) ==
  LET opens == ok /\ open'[Pool] IN
  /\ shown' = ok
  /\ pool' = [NoPool EXCEPT !.is = IF opens THEN "loading" ELSE "absent"]
  /\ ds' = [d \in Dataset |-> NoDs] /\ snap' = [s \in Snap |-> "absent"]
  /\ Spawn(Detach(js, Everything),
           IF opens THEN {[at |-> "sent", live |-> TRUE, snaps |-> {}]} ELSE {})
  /\ unfiltered' = FALSE /\ crossed' = FALSE

\* renderSidebar(): cached listings take no time.
RenderSidebar ==
  IF cached THEN Rebuild(jobs, TRUE)
  ELSE Spawn(jobs, {[at |-> "sidebar"]}) /\ UNCHANGED <<page, unfiltered, crossed>>

Step == steps < MaxSteps /\ steps' = steps + 1

\* A snapshot is created or destroyed.
Change(s) ==
  /\ changes < MaxChanges /\ changes' = changes + 1
  /\ exists' = IF s \in exists THEN exists \ {s} ELSE exists \cup {s}
  /\ UNCHANGED <<nav, page, jobs, refills, rendering, steps, unfiltered, crossed>>

\* A view is visited; with F5 the listings are forgotten.
Visit(f5) ==
  /\ Step /\ rendering' = rendering + 1
  /\ cached' = (cached /\ ~f5)
  /\ UNCHANGED <<exists, changes, files, open, page, jobs, refills, unfiltered, crossed>>

\* navigateRoute() has rendered its view.
ViewRendered ==
  /\ rendering > 0 /\ rendering' = rendering - 1
  /\ UNCHANGED <<exists, changes, nav, refills, steps>>
  /\ RenderSidebar

\* The views between them have read all three listings.
ListingsCached ==
  /\ ~cached /\ cached' = TRUE
  /\ UNCHANGED <<exists, changes, files, open, page, jobs, refills, rendering, steps,
                 unfiltered, crossed>>

\* The twists in the document.
HasTwist(i) ==
  \/ i = Pool /\ shown
  \/ i \in Dataset /\ i \in pool.twists
  \/ i \in Snap /\ ds[Of[i]].twisty /\ i \in ds[Of[i]].snaps

\* wireSidebarClicks: data-pool-kid, data-ds-kid.
Toggle(i) ==
  /\ HasTwist(i) /\ Step
  /\ open' = [open EXCEPT ![i] = ~@]
  /\ UNCHANGED <<exists, changes, cached, files, refills, rendering>>
  /\ RenderSidebar

\* wireNavIncludeFiles; snapshots stay open.
ToggleFiles ==
  /\ shown /\ Step /\ files' = ~files
  /\ UNCHANGED <<exists, changes, cached, open, refills, rendering>>
  /\ RenderSidebar

\* The listings arrive, or an error that takes the sidebar's place.
DeliverSidebar(i) ==
  /\ jobs[i].at = "sidebar"
  /\ UNCHANGED <<exists, changes, files, open, refills, rendering, steps>>
  /\ \E ok \in BOOLEAN :
       /\ cached' = (cached \/ ok)
       /\ Rebuild(RemoveAt(jobs, i), ok)

\* The agent lists the pool's datasets.
AnswerPool(i) ==
  /\ jobs[i].at = "sent"
  /\ jobs' = [jobs EXCEPT ![i].at = "answered", ![i].snaps = exists]
  /\ UNCHANGED <<exists, changes, nav, page, refills, rendering, steps, unfiltered, crossed>>
-----------------------------------------------------------------------------
\* Whether a dataset has a twist in a listing with the snapshots snaps.
HasKids(d, snaps) ==
  \/ RowsOf(d, snaps) # {}
  \/ files /\ Kind[d] = "mounted"

\* The fill of a dataset waits for its files.
Waits(d) == files /\ Kind[d] = "mounted"

\* Its snapshots have a twist each: a volume's, and any without Files, have none.
Twisty(d) == files /\ Kind[d] # "volume"

OpenSnaps(snaps) == {s \in snaps : open[s]}

\* fillDatasetKids() for the datasets in fill, with the boxes dss, the listing
\* snaps and the calls js: those without files are written at once, with
\* their snapshots' fills; the others wait with the rows they have drawn.
FillDatasets(fill, dss, sns, js, snaps) ==
  LET now   == {d \in fill : ~Waits(d)}
      drawn == UNION {OpenSnaps(RowsOf(d, snaps)) : d \in {x \in now : Twisty(x)}}
  IN
  /\ ds' = [d \in Dataset |->
              IF d \in now THEN [is |-> "rows", snaps |-> RowsOf(d, snaps),
                                 twisty |-> Twisty(d)]
              ELSE dss[d]]
  /\ snap' = [s \in Snap |-> IF s \in drawn THEN "loading"
                             ELSE IF Of[s] \in now THEN "absent" ELSE sns[s]]
  /\ Spawn(Detach(js, UNION {SnapsOf(d) : d \in now}),
           {[at |-> "snapshot", of |-> s, live |-> TRUE] : s \in drawn}
           \cup {[at |-> "dataset", of |-> d, live |-> TRUE, snaps |-> RowsOf(d, snaps),
                  drawn |-> OpenSnaps(RowsOf(d, snaps))] : d \in fill \ now})
  /\ refills' = refills + Cardinality({d \in now : Twisty(d)})

\* fillPoolKids(): its answer arrives.
DeliverPool(i) ==
  LET j == jobs[i]
      twists == {d \in Dataset : HasKids(d, j.snaps)}
      drawn == [d \in Dataset |->
                  [NoDs EXCEPT !.is = IF d \in twists /\ open[d] THEN "loading" ELSE "absent"]]
      dss == IF j.live THEN drawn ELSE ds
      sns == IF j.live THEN [s \in Snap |-> "absent"] ELSE snap
      fill == {d \in Dataset : open[d] /\ dss[d].is # "absent"}
  IN
  /\ j.at = "answered"
  /\ pool' = IF j.live THEN [is |-> "rows", snaps |-> j.snaps, twists |-> twists] ELSE pool
  /\ FillDatasets(fill, dss, sns,
                  Detach(RemoveAt(jobs, i), IF j.live THEN Dataset \cup Snap ELSE {}), j.snaps)
  /\ unfiltered' = FALSE
  /\ crossed' = (crossed \/ (~j.live /\ fill # {}))
  /\ UNCHANGED <<exists, changes, nav, shown, rendering, steps>>

\* ... or an error, in the box's place; the filter is not applied.
FailPool(i) ==
  /\ jobs[i].at \in {"sent", "answered"}
  /\ pool' = IF jobs[i].live THEN [NoPool EXCEPT !.is = "error"] ELSE pool
  /\ jobs' = RemoveAt(jobs, i)
  /\ UNCHANGED <<exists, changes, nav, shown, ds, snap, refills, rendering, steps,
                 unfiltered, crossed>>

\* What ends a fill: with Files on, the open directories come first.
GoOn ==
  /\ refills' = IF files THEN refills + 1 ELSE refills
  /\ unfiltered' = files

\* A mutant: the flags the rows were drawn with decide which boxes are filled.
DeliverDatasetDrawn(i) ==
  LET j == jobs[i] IN
  /\ j.at = "dataset"
  /\ ds' = IF j.live THEN [ds EXCEPT ![j.of] = [is |-> "rows", snaps |-> j.snaps,
                                                twisty |-> TRUE]] ELSE ds
  /\ snap' = [s \in Snap |->
                IF ~j.live \/ Of[s] # j.of THEN snap[s]
                ELSE IF s \in OpenSnaps(j.snaps) THEN "loading" ELSE "absent"]
  /\ jobs' = RemoveAt(jobs, i)
  /\ GoOn
  /\ UNCHANGED <<exists, changes, nav, shown, pool, rendering, steps, crossed>>

\* fillDatasetKids(): the files of a dataset arrive, or their error. The box
\* found before gets the rows drawn before; then the boxes of the snapshots
\* open now are looked for in the document of now.
DeliverDataset(i) ==
  LET j == jobs[i]
      sns == [s \in Snap |->
                IF ~j.live \/ Of[s] # j.of THEN snap[s]
                ELSE IF s \in j.drawn THEN "loading" ELSE "absent"]
      fill == {s \in OpenSnaps(j.snaps) : sns[s] # "absent"}
  IN
  /\ j.at = "dataset"
  /\ ds' = IF j.live THEN [ds EXCEPT ![j.of] = [is |-> "rows", snaps |-> j.snaps,
                                                twisty |-> TRUE]] ELSE ds
  /\ snap' = [s \in Snap |-> IF s \in fill /\ ~files THEN "rows" ELSE sns[s]]
  /\ Spawn(Detach(RemoveAt(jobs, i), IF j.live THEN SnapsOf(j.of) ELSE {}),
           {[at |-> "snapshot", of |-> s, live |-> TRUE] : s \in IF files THEN fill ELSE {}})
  /\ GoOn
  /\ UNCHANGED <<exists, changes, nav, shown, pool, rendering, steps, crossed>>

\* The same for a snapshot, which has only files.
DeliverSnapshot(i) ==
  LET j == jobs[i] IN
  /\ j.at = "snapshot"
  /\ snap' = IF j.live THEN [snap EXCEPT ![j.of] = "rows"] ELSE snap
  /\ jobs' = RemoveAt(jobs, i)
  /\ GoOn
  /\ UNCHANGED <<exists, changes, nav, shown, pool, ds, rendering, steps, crossed>>

\* A mutant: the filter is not applied.
RefilledOnly ==
  /\ refills > 0 /\ refills' = refills - 1
  /\ UNCHANGED <<exists, changes, nav, page, jobs, rendering, steps, unfiltered, crossed>>

\* A mutant: and over again.
RefilledAgain ==
  /\ refills > 0 /\ unfiltered' = FALSE
  /\ UNCHANGED <<exists, changes, nav, page, jobs, refills, rendering, steps, crossed>>

\* refillOpenDirs() has been through its directories: applyNavPoolFilter().
Refilled ==
  /\ refills > 0 /\ refills' = refills - 1
  /\ unfiltered' = FALSE
  /\ UNCHANGED <<exists, changes, nav, page, jobs, rendering, steps, crossed>>

Next ==
  \/ \E s \in Snap : Change(s)
  \/ \E f5 \in BOOLEAN : Visit(f5)
  \/ ViewRendered \/ ListingsCached \/ ToggleFiles \/ Refilled
  \/ \E i \in Everything : Toggle(i)
  \/ \E i \in DOMAIN jobs :
       \/ DeliverSidebar(i) \/ AnswerPool(i) \/ DeliverPool(i) \/ FailPool(i)
       \/ DeliverDataset(i) \/ DeliverSnapshot(i)

Spec == Init /\ [][Next]_vars

\* Views come to an end, every request is answered or fails, and the event
\* loop delivers the answers.
Fairness ==
  /\ WF_vars(ViewRendered) /\ WF_vars(Refilled)
  /\ \A i \in 1 .. MaxJobs :
       WF_vars(i \in DOMAIN jobs /\
         (\/ DeliverSidebar(i) \/ AnswerPool(i) \/ DeliverPool(i) \/ FailPool(i)
          \/ DeliverDataset(i) \/ DeliverSnapshot(i)))

FairSpec == Spec /\ Fairness

-----------------------------------------------------------------------------
AtRest == rendering = 0 /\ jobs = <<>> /\ refills = 0

NoneLoading ==
  /\ pool.is # "loading"
  /\ \A d \in Dataset : ds[d].is # "loading"
  /\ \A s \in Snap : snap[s] # "loading"

BoxesOfFlags ==
  /\ pool.is # "absent" <=> open[Pool]
  /\ \A d \in Dataset : ds[d].is # "absent" <=> d \in pool.twists /\ open[d]
  /\ \A s \in Snap :
       snap[s] # "absent" <=> ds[Of[s]].twisty /\ s \in ds[Of[s]].snaps /\ open[s]

\* At rest there is a box for what is open and nothing else, although rows are
\* drawn with the flags of one moment and filled with those of another; and no
\* box is left on "Loading...", whatever fills overlapped and however late the
\* answers of replaced boxes came.
OpenBoxesFilled == AtRest => NoneLoading /\ (shown => BoxesOfFlags)

\* A dataset's box lists the snapshots of the listing its pool shows, unless
\* the answer of a replaced box has come and filled it with its own.
SameListing ==
  AtRest /\ ~crossed =>
    \A d \in Dataset : ds[d].is = "rows" => ds[d].snaps = pool.snaps \cap SnapsOf(d)

\* Rows that come late go through the sidebar's filter in the end.
AllFiltered == AtRest => ~unfiltered

\* Clicks aside, the sidebar comes to rest.
PoolsRest == []<>AtRest
=============================================================================
