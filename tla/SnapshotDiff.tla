---------------------------- MODULE SnapshotDiff ----------------------------
(***************************************************************************)
(* The diff controls of the web UI (src/internal/web/static/app.js): those *)
(* of a pool's Diff tab, with a From and a To select and a filter over     *)
(* both, and those of a snapshot's view, which compares that snapshot with *)
(* its dataset or a sibling and sends the older one first.                 *)
(*                                                                         *)
(* The controls belong to a view.  Opening a view makes new ones; requests *)
(* of the old ones write to elements nobody sees.  Meanwhile snapshots are *)
(* destroyed and created again under their name, and renders of views the  *)
(* user has left end late.  Such a render looks for lists in the page of   *)
(* then and, if its own view has diff controls, looks these up by their    *)
(* ids, finds those of the page and gives them handlers of its own.        *)
(***************************************************************************)
EXTENDS Naturals, Sequences, SequencesExt

CONSTANTS
  Snap, Dataset,
  Of,            \* the dataset each snapshot is of
  Listing,       \* the snapshots a pool's listing may hold, of any pool and time
  Rank,          \* the order of the options: datasets, then snapshots by name
  Unordered,     \* the snapshots without createtxg and creation
  Query, All,    \* what may be typed in a filter; All is the empty text
  Matches,       \* the labels a query lets pass (textMatchesFilter)
  None,
  MaxTxg,        \* bound: transaction groups before the page starts
  MaxClicks,     \* bound: clicks on Diff in a view
  MaxRecreated,  \* bound: snapshots created again
  MaxLate        \* bound: renders of other views still under way

ASSUME SnapAssumption ==
  /\ Snap \cap Dataset = {} /\ None \notin Snap \cup Dataset \cup Nat
  /\ Of \in [Snap -> Dataset] /\ Unordered \subseteq Snap
  /\ Listing \subseteq SUBSET Snap
  /\ Rank \in [Snap \cup Dataset -> Nat]
  /\ \A d \in Dataset, s \in Snap : Rank[d] < Rank[s]
ASSUME QueryAssumption ==
  /\ All \in Query /\ Matches \in [Query -> SUBSET (Snap \cup Dataset)]
  /\ Matches[All] = Snap \cup Dataset
ASSUME BoundAssumption ==
  MaxTxg \in Nat /\ MaxClicks \in Nat /\ MaxRecreated \in Nat /\ MaxLate \in Nat

VARIABLES
  txg,       \* when each snapshot was created
  created,   \* the last transaction group a snapshot was created in
  view,      \* the snapshot of the view on the page; None in a Diff tab
  handler,   \* the snapshot the button's handler compares, and its order
  lists,     \* the listings the filter's and the From select's handlers use
  listing,   \* the one the options are of
  query,     \* the filter over the selects
  from, to,  \* the values of the selects; None is the empty one
  disabled,  \* buttonEl.disabled
  runs,      \* the comparisons asked for in this view, in order
  out,       \* the text in outEl, of which click, and whether it is long
  typed,     \* the filter over the results
  applied,   \* the one outEl's text was written with
  taken,     \* what is left of the text if outEl has left the document
  late,      \* renders of other views under way
  stale      \* history: snapshots created again since the view was opened, or
             \* since the render the button's handler is of read them

world   == <<txg, created, stale>>
selects == <<query, from, to, listing>>
wiring  == <<handler, lists>>
output  == <<out, typed, applied, taken>>
vars    == <<world, view, wiring, selects, disabled, runs, output, late>>

Text == [is : {"nothing", "hint", "checking", "running", "diff", "error"},
         of : Nat, long : BOOLEAN]
ASSUME NoText == None \notin Text

Blank == [is |-> "nothing", of |-> 0, long |-> FALSE]

Handler == [of : Snap \cup {None}, order : Nat \cup {None}]

\* by: the handler that was called; order: the target's, once it is known
Run == [by : Handler, from : Snap \cup {None}, to : Snap \cup Dataset \cup {None},
        order : Nat \cup {None}, at : {"checking", "known", "diffing", "done"}]

\* Of one that is over nothing is left but what it has written.
Over == [by |-> [of |-> None, order |-> None], from |-> None, to |-> None,
         order |-> None, at |-> "done"]

TypeOK ==
  /\ txg \in [Snap -> Nat] /\ created \in Nat /\ stale \subseteq Snap
  /\ view \in Snap \cup {None} /\ handler \in Handler
  /\ lists \in Seq(Listing) /\ listing \in Listing
  /\ query \in Query /\ from \in Snap \cup {None}
  /\ to \in Snap \cup Dataset \cup {None}
  /\ disabled \in BOOLEAN /\ runs \in Seq(Run)
  /\ out \in Text /\ typed \in Query /\ applied \in Query
  /\ taken \in Text \cup {None} /\ late \in Nat

-----------------------------------------------------------------------------
\* snapshotOrder() of properties with the transaction group t: createtxg, else
\* the creation time, which grows with it, else null. Properties have both or
\* neither, so that a group is not compared with a time.
SnapshotOrder(s, t) == IF s \in Unordered THEN None ELSE t

\* snapshotOptionsHtml(): the snapshots of listing l a filter lets pass.
SnapshotOptions(l, q) == l \cap Matches[q]

\* diffToOptionsHtml(): the live dataset, then the siblings.
DiffToOptions(f, l, q) ==
  ({Of[f]} \cup {s \in l \ {f} : Of[s] = Of[f]}) \cap Matches[q]

\* What a select with these options shows when v was shown or is preferred.
Selected(opts, v) ==
  IF v \in opts THEN v
  ELSE IF opts = {} THEN None
  ELSE CHOOSE o \in opts : \A p \in opts : Rank[o] <= Rank[p]

\* rebuildDiffSelects(): what the selects hold after it, if v was shown or is
\* preferred.
Rebuilt(l, q, v) ==
  LET f == Selected(SnapshotOptions(l, q), v.from)
  IN [from |-> f,
      to |-> IF f = None THEN None ELSE Selected(DiffToOptions(f, l, q), v.to)]

RebuildDiffSelects(l, q, v) ==
  /\ query' = q /\ listing' = l
  /\ from' = Rebuilt(l, q, v).from /\ to' = Rebuilt(l, q, v).to

-----------------------------------------------------------------------------
\* New controls; a filter over the results may have been stored, and the user
\* may have left other views on the way.
NewControls ==
  /\ disabled' = FALSE /\ runs' = <<>> /\ stale' = {}
  /\ out' = Blank /\ typed' \in Query /\ applied' = All /\ taken' = None
  /\ late' \in late .. MaxLate

\* A pool's Diff tab before any filter: the first snapshot, and its dataset.
DiffTab(l) == LET f == Selected(l, None) IN [from |-> f, to |-> Of[f]]

\* A pool's Diff tab; a filter over the selects may have been stored.
OpenPoolDiff(l) ==
  /\ l # {}
  /\ view' = None /\ handler' = [of |-> None, order |-> None] /\ lists' = <<l>>
  /\ \E q \in Query : RebuildDiffSelects(l, q, DiffTab(l))
  /\ NewControls
  /\ UNCHANGED <<txg, created>>

\* A snapshot's view, with the properties it had when it was rendered and the
\* listing l of its pool.
OpenSnapshot(s, l) ==
  /\ view' = s /\ handler' = [of |-> s, order |-> SnapshotOrder(s, txg[s])]
  /\ lists' = <<>> /\ listing' = l
  /\ query' = All /\ from' = s /\ to' = Of[s]
  /\ NewControls
  /\ UNCHANGED <<txg, created>>

\* The page starts with some view; snapshots are created one at a time.
Init ==
  /\ txg \in [Snap -> 1 .. MaxTxg] /\ created = MaxTxg /\ stale = {}
  /\ \A s, t \in Snap : txg[s] = txg[t] => s = t
  /\ query = All /\ listing \in Listing
  /\ \/ /\ listing # {} /\ view = None /\ handler = [of |-> None, order |-> None]
        /\ lists = <<listing>>
        /\ from = DiffTab(listing).from /\ to = DiffTab(listing).to
     \/ \E s \in Snap :
          /\ view = s /\ handler = [of |-> s, order |-> SnapshotOrder(s, txg[s])]
          /\ lists = <<>> /\ from = s /\ to = Of[s]
  /\ disabled = FALSE /\ runs = <<>>
  /\ out = Blank /\ typed = All /\ applied = All /\ taken = None
  /\ late \in 0 .. MaxLate

\* Snapshot s is destroyed and created again.
Recreate(s) ==
  /\ created < MaxTxg + MaxRecreated
  /\ created' = created + 1
  /\ txg' = [txg EXCEPT ![s] = created']
  /\ stale' = stale \cup {s}
  /\ UNCHANGED <<view, wiring, selects, disabled, runs, output, late>>

\* The filter over the selects of a Diff tab: its handlers run one after the
\* other, each on what the one before it left in the selects.
FilterSnapshots(q) ==
  LET before == FoldLeft(LAMBDA v, l : Rebuilt(l, q, v),
                         [from |-> from, to |-> to], Front(lists))
  IN
  /\ view = None
  /\ RebuildDiffSelects(Last(lists), q, before)
  /\ UNCHANGED <<world, view, wiring, disabled, runs, output, late>>

\* A mutant: the To select is left as it is.
ChooseFromAlone(s) ==
  /\ view = None /\ s \in SnapshotOptions(listing, query)
  /\ from' = s
  /\ UNCHANGED <<world, view, wiring, query, listing, to, disabled, runs, output, late>>

\* The From select of a Diff tab, which has one handler, that of the last list.
ChooseFrom(s) ==
  /\ view = None /\ s \in SnapshotOptions(listing, query)
  /\ RebuildDiffSelects(Last(lists), query, [from |-> s, to |-> to])
  /\ UNCHANGED <<world, view, wiring, disabled, runs, output, late>>

\* The To select of either.
ChooseTo(t) ==
  /\ from # None /\ t \in DiffToOptions(from, listing, query)
  /\ to' = t
  /\ UNCHANGED <<world, view, wiring, query, listing, from, disabled, runs, output, late>>

\* The filter over the results: a diff is written again, other texts are not,
\* and none in an element that has left the document.
FilterResults(q) ==
  /\ typed' = q
  /\ applied' = IF out.is = "diff" /\ taken = None THEN q ELSE applied
  /\ UNCHANGED <<world, view, wiring, selects, disabled, runs, out, taken, late>>

-----------------------------------------------------------------------------
\* A mutant: the filter is applied when something is typed only.
ShowUnfiltered(is, of, long) ==
  /\ out' = [is |-> is, of |-> of, long |-> long]
  /\ applied' = All
  /\ UNCHANGED <<typed, taken>>

\* showDiffOutput(): a diff is written by the filter, which needs the box that
\* outEl is in and writes nothing if outEl has left it; all else is written as
\* it is, seen or not.
ShowDiffOutput(is, of, long) ==
  /\ \/ /\ is = "diff" /\ taken # None
        /\ UNCHANGED <<out, applied>>
     \/ /\ is # "diff" \/ taken = None
        /\ out' = [is |-> is, of |-> of, long |-> long]
        /\ applied' = IF is = "diff" THEN typed ELSE All
  /\ UNCHANGED <<typed, taken>>

Clicks == Len(runs)

\* What the handler compares: its snapshot or, in a Diff tab, that of From.
Compared == IF handler.of = None THEN from ELSE handler.of

\* A click begins a comparison and shows that it does.
Click(at, is) ==
  /\ runs' = Append(runs, [by |-> handler, from |-> Compared, to |-> to,
                           order |-> None, at |-> at])
  /\ ShowDiffOutput(is, Clicks + 1, FALSE)

\* The Diff button is clicked and both selects have a value.
CanDiff == ~disabled /\ Clicks < MaxClicks /\ Compared # None /\ to # None

NeedsOrder == handler.of # None /\ to \in Snap

\* A mutant: the button is disabled when the pair is sent.
CheckEnabled ==
  /\ CanDiff /\ NeedsOrder
  /\ Click("checking", "checking")
  /\ UNCHANGED <<world, view, wiring, selects, disabled, late>>

\* runSnapshotDiff() with a snapshot as target asks for its properties first.
Check ==
  /\ CanDiff /\ NeedsOrder
  /\ Click("checking", "checking") /\ disabled' = TRUE
  /\ UNCHANGED <<world, view, wiring, selects, late>>

\* Otherwise, and in a Diff tab, runZfsDiff() sends the pair as it is.
Diff ==
  /\ CanDiff /\ ~NeedsOrder
  /\ Click("diffing", "running") /\ disabled' = TRUE
  /\ UNCHANGED <<world, view, wiring, selects, late>>

\* A select is empty: runZfsDiff() says so.
DiffNothing ==
  /\ ~disabled /\ Clicks < MaxClicks /\ (Compared = None \/ to = None)
  /\ runs' = Append(runs, Over) /\ ShowDiffOutput("hint", Clicks + 1, FALSE)
  /\ UNCHANGED <<world, view, wiring, selects, disabled, late>>

\* The agent reads the target's properties.
Answer(i) ==
  /\ runs[i].at = "checking"
  /\ runs' = [runs EXCEPT ![i].at = "known", ![i].order = SnapshotOrder(runs[i].to, txg[runs[i].to])]
  /\ UNCHANGED <<world, view, wiring, selects, disabled, output, late>>

\* A mutant: the target is taken for the newer one.
SendUnordered(i) ==
  /\ runs[i].at = "known"
  /\ runs' = [runs EXCEPT ![i].at = "diffing"]
  /\ ShowDiffOutput("running", i, FALSE)
  /\ UNCHANGED <<world, view, wiring, selects, disabled, late>>

\* The properties arrive: the pair is sent, the older one first if both
\* orders are known.
Send(i) ==
  LET r == runs[i]
      swap == r.by.order # None /\ r.order # None /\ r.order < r.by.order
  IN
  /\ r.at = "known"
  /\ runs' = [runs EXCEPT ![i] =
       [r EXCEPT !.at = "diffing", !.from = IF swap THEN r.to ELSE @,
                 !.to = IF swap THEN r.from ELSE @]]
  /\ ShowDiffOutput("running", i, FALSE)
  /\ UNCHANGED <<world, view, wiring, selects, disabled, late>>

\* The diff arrives, or either request fails: the button is enabled again.
Finish(i) ==
  /\ runs[i].at \in {"checking", "diffing"}
  /\ \E is \in {"diff", "error"}, long \in BOOLEAN :
       /\ is = "diff" => runs[i].at = "diffing"
       /\ ShowDiffOutput(is, i, long)
  /\ runs' = [runs EXCEPT ![i] = Over]
  /\ disabled' = FALSE
  /\ UNCHANGED <<world, view, wiring, selects, late>>

-----------------------------------------------------------------------------
\* A render of a view with panes that was left ends: enhanceFilterableLists()
\* takes a text of three lines or more out of the document of now and puts a
\* list in its place. What a filter has left of the text may be shorter.
EndLate ==
  /\ late > 0 /\ late' = late - 1
  /\ \/ /\ taken = None /\ out.long
        /\ taken' = out
     \/ /\ taken = None /\ out.long => applied # All
        /\ UNCHANGED taken
  /\ UNCHANGED <<txg, created, view, disabled, runs, out, typed, applied>>

\* It is of a view without diff controls, or with others than the page's.
EnhanceLists ==
  /\ EndLate
  /\ UNCHANGED <<stale, wiring, selects>>

\* It is of a snapshot's view, with the properties of then: the button that
\* goes by its id is given its handler, if the output is still there.
LateSnapshot(s) ==
  /\ view # None /\ taken = None /\ EndLate
  /\ \E t \in 1 .. txg[s] :
       /\ handler' = [of |-> s, order |-> SnapshotOrder(s, t)]
       /\ stale' = IF t = txg[s] THEN stale ELSE stale \cup {s}
  /\ UNCHANGED <<lists, selects>>

\* It is of a Diff tab, with a listing of its own: the selects have a handler of
\* it from then on, and are filled from it if a filter was stored for its pool.
LatePoolDiff(l) ==
  /\ view = None /\ EndLate
  /\ lists' = Append(lists, l)
  /\ \/ UNCHANGED selects
     \/ \E q \in Query \ {All} : RebuildDiffSelects(l, q, [from |-> from, to |-> to])
  /\ UNCHANGED <<stale, handler>>

Next ==
  \/ Check \/ Diff \/ DiffNothing \/ EnhanceLists
  \/ \E l \in Listing : OpenPoolDiff(l) \/ LatePoolDiff(l)
  \/ \E s \in Snap, l \in Listing : OpenSnapshot(s, l)
  \/ \E s \in Snap : Recreate(s) \/ ChooseFrom(s) \/ LateSnapshot(s)
  \/ \E t \in Snap \cup Dataset : ChooseTo(t)
  \/ \E q \in Query : FilterSnapshots(q) \/ FilterResults(q)
  \/ \E i \in DOMAIN runs : Answer(i) \/ Send(i) \/ Finish(i)

Spec == Init /\ [][Next]_vars

\* Every request is answered or fails: a diff after a day at the latest.
Fairness ==
  \A i \in 1 .. MaxClicks :
    WF_vars(i \in DOMAIN runs /\ (Answer(i) \/ Send(i) \/ Finish(i)))

FairSpec == Spec /\ Fairness

-----------------------------------------------------------------------------
\* Whatever was typed, chosen and filtered before, and whichever listings late
\* renders have filled the selects from, a pair that is sent consists of a
\* snapshot and its dataset or a different snapshot of the same. In a snapshot's
\* view this is promised of the handler of that snapshot only: one that a late
\* render of another snapshot left there sends its own with the target chosen.
PairComparable ==
  \A i \in DOMAIN runs :
    LET r == runs[i] IN
    r.at = "diffing" /\ r.by.of = view =>
      /\ r.from \in Snap
      /\ r.to = Of[r.from] \/ (r.to \in Snap \ {r.from} /\ Of[r.to] = Of[r.from])

\* "Snapshot pairs are automatically ordered from older to newer": so are any
\* two a snapshot's view sends, whichever render its handler is of, unless an
\* order is not known or one of them was created again since it was read.
OldestFirst ==
  \A i \in DOMAIN runs :
    LET r == runs[i] IN
    r.at = "diffing" /\ view # None /\ r.to \in Snap \ {r.from}
      /\ {r.from, r.to} \cap (stale \cup Unordered) = {}
      => txg[r.from] < txg[r.to]

Visible == IF taken = None THEN out ELSE taken

\* With the button enabled, what is to be seen is of the last click.
LastDiffShown == ~disabled => Visible.of = Clicks

\* The same, as long as no late render has taken the text out of the page.
LastDiffWritten == ~disabled /\ taken = None => Visible.of = Clicks

\* A diff that is shown has gone through the filter above it, also if that was
\* typed while the comparison ran.
DiffFiltered == out.is = "diff" /\ taken = None => applied = typed

\* A comparison at a time, which ends, and what is shown is of the last until a
\* late render takes it out of the page.
Console ==
  INSTANCE DiffConsole WITH
    Outcome <- {"hint", "diff", "error"},
    asked <- IF disabled THEN Clicks ELSE 0,
    count <- Clicks,
    lost <- taken # None,
    shown <- [of |-> Visible.of,
              is |-> IF Visible.is \in {"checking", "running"} THEN "busy" ELSE Visible.is]
ImplementsConsole == Console!Spec
=============================================================================
