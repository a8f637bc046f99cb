# zfstool: specification and proofs

zfstool is a read-only viewer for ZFS pools and the machine they live on. This
directory models its concurrent parts and its pure functions in TLA+, checks small
instances with TLC and proves the invariants for all instances with TLAPS. `PROJECT.json`
lists the runs, the theorems, the mutants that show each property can fail, the
source lines every definition translates, the findings and the hazards.

Paths below are relative to the repository; `app.js` is
`internal/web/static/app.js`.

## 1. Inventory

### The page (app.js, 4649 lines)

One script without modules or framework. JavaScript runs it on one thread, so
everything between two `await`s is atomic; all its concurrency is asynchronous
calls whose continuations run in the order of the answers.

| Part | State | Operations | Correct if |
|---|---|---|---|
| Back button | `viewHistory`, `ignoreViewHistory`, the button | `noteViewVisit`, `goViewBack`, `updateBackButton`, `hashchange` | the history ends in the view shown, has no repetition, and the button says whether there is one to go back to |
| Rendering | `#app`, its split panes, breadcrumbs, diff controls, list filters | `dispatch`, `navigateRoute`, twelve render functions, F5 | the page comes to rest on the view of the address, complete, with its own handlers |
| Caches | `poolsCache`, `disksCache`, `mountsCache`, `hostCache`, `nav.smart` | `getX(force)`, `ensureDiskSmart`, F5 | F5 brings current data; one `smartctl` per disk at a time |
| Sidebar | the open flags in `nav`, lazily filled boxes | `renderSidebar`, `fillPoolKids`, `fillDatasetKids`, `fillDirKids`, `refillOpen...` | every open box is filled, with its own children |
| Diff | the selects, the output pane, the button | `runZfsDiff`, `runSnapshotDiff`, `rebuildDiffSelects` | the pair is comparable and ordered, the output is the last request's |
| Filters | the typed terms | `applyListFilter`, `applyNavPoolFilter` | a filter shows what its terms say and what leads there |
| Links | none | `poolHref` ..., `parseRoute`, `browseParentPath` | a link leads to what it was written for |
| Bars, device tree | none | `diskPartitionBarHtml` ..., `enrichConfig`, `configChildren` | a bar accounts for everything; page and agent see one tree |
| Widths, zoom | localStorage | `wireColumnResize`, `setUiZoom`, ... | (layout) |

### The desktop process (cmd/zfstool, internal/gui, internal/web)

`gui.Run` starts a `LocalSession`: an embedded agent on a private Unix socket
whose path bears the process id, a loopback HTTP server that serves the page and
proxies `/v1` to the agent, and a window or a browser. `Stop` shuts the UI server
(5 s), then the agent (3 s) down. It is correct if a session that starts has its
own agent behind its socket, whatever earlier sessions and processes left, and if
ending it takes away what it set up and only what it set up, in an order that
does not fail the requests being served.

`zfstool web` is the same proxy as a process of its own, with optional
authentication (`internal/web/auth.go`); `zfstool server` is the agent as one.

### The agent (internal/agent, internal/collector, internal/execzfs)

Stateless HTTP handlers. Each one runs a few read-only commands (`zpool`, `zfs`,
`lsblk`, `df`, `smartctl`) with a time limit and turns their output into JSON.
What is hard here is data: several commands that see different moments
(`ListDisks`, `Maintenance`), fallbacks when one fails, and numbers and names at
the edges of their format (history paging, whole-disk names, ZFS versions).

### How they interact

The page calls `/v1/...` through `fetch`; the proxy dials the socket; a handler
runs commands and answers. Nothing is pushed to the page, and nothing is
cancelled: a view that was left still gets its answers. The window tells the
process it was closed by returning from `w.Run`.

### What is hard

- renders in flight together, answered in any order (`ViewRender`);
- `hashchange` events that lag behind the address (`ViewHistory`);
- caches emptied while requests are out (`DataCache`);
- a sidebar rebuilt and refilled by several loops at once (`Sidebar`, `SidebarPools`);
- a comparison under way while selects, filters, snapshots and views change (`SnapshotDiff`);
- an agent, a server and a window set up and taken down in steps that fail, with
  signals, crashes and files left over in between (`LocalSession`).

The full list, line by line and with the property that covers each, is
`hazards` in `PROJECT.json`.

## 2. What is modelled

### ViewHistory (app.js 315-370, 4412-4417, 4457-4463)

The address (`hash`) changes at once when a link is followed or `goViewBack`
assigns it; the event (`pending`) is handled later and sees the address of that
moment. `NoteViewVisit` is `noteViewVisit` after its check of the flag,
`HandleHashChange` is `dispatch` up to `navigateRoute`, `RenderBreadcrumbs` any
later call of `updateBackButton`. `Norm` and `Spell` are what `normalizeHash` and
`'#' + prev` do: several hashes may be one view. The browser's own Back and
Forward are `FollowLink`, since to the page they are. A reload starts the script
again.

### ViewRender (app.js 446-463, 505-818, 1571-1644, 2893-4447)

A render function is described by what it does with the page around its awaits:
whether it mounts its own panes, waits, sets breadcrumbs first, when the disk is
found or last, has diff controls, and shows errors. `Home` ... `File` are these
descriptions, one per function. `NavigateRoute` is a render up to its first
`await`, `Finish` and `Fail` the rest, including the `enhanceFilterableLists` of
whatever pane is in the document by then, and the look-up of the diff controls by
id (`WireDiff`). `FillBrowsePane` is the second, independent request of a split
view. What a view shows is only whether it is loading, content or an error, and
whose.

### DataCache (app.js 28-34, 1778-1849, 4419-4447)

A request is sent, answered with the version of that moment, and delivered later.
`Get` is `getPools` ... `getHost`: a cached value is returned at once, otherwise a
request of its own is sent, also if one is already out. `EnsureDiskSmart` shares the
one that is out. Errors are cached for SMART, thrown for listings. F5 forgets
everything but cannot take back what is in flight: an answer is assigned to whatever
map or variable there is by then. `floor`, `busy` and `lastRead` are history
variables the properties speak of.

### Sidebar (app.js 1851-1876, 2005-2071, 2184-2210, 2332-2347, 2707-2891, 4362-4438)

A job is one call that waits: a `renderSidebar` for its listings (`DeliverSidebar`), or a
fill for what is in a box (`DeliverKids`), which goes on as the refill loop over the
directories that were open when it began (`OpenDirs`, `Rest`, `Continue`). `Rebuild`
replaces the document, so that boxes found before it are out of it (`Detach`, `live`): a
job writes to the box it found, but finds its next box in the document of then. With
cached listings `renderSidebar` only waits for microtasks, and is one step with the click
that calls it. The tree is a volume's; a dataset's files are filled by functions that
differ in the flag they read and the request they send. `late` and `raced` are history
variables for the provisos of two properties.

### SidebarPools (app.js 1851-2007, 2332-2612, 2681-2705, 2814-2891)

The levels above: a pool's box, its datasets' boxes and their snapshots'. `jobs` is a
sequence, since the answers of one fill start several others. `DeliverPool` is the rest
of `fillPoolKids` after its answer: it writes the box if that is still in the document,
and then starts a `fillDatasetKids` for every open dataset whose box is there *now*,
with its own snapshots (`FillDatasets`), so that the answer of a replaced box fills the
boxes that replaced it (`crossed`). `fillDatasetKids` draws twists, waits if there are
files to list, and reads the open flags after (`DeliverDataset`). `Refilled` is the end
of `refillOpenDirs`, whose loop is `Sidebar`'s, with the filter it applies; `unfiltered`
says that rows were written since. `AnswerPool` takes the listing at the agent, where
snapshots come and go (`Change`). Boxes of disks are filled without waiting and left out.

### SnapshotDiff, DiffConsole (app.js 1393-1461, 1618-1640, 3145-3282, 3628-3738, 4093-4176)

The controls of a pool's Diff tab and those of a snapshot. `RebuildDiffSelects` is
`rebuildDiffSelects`: To's options follow From's value, and both a filter. A click is
an entry of `runs`; `Check`, `Answer`, `Send` are the extra request of
`runSnapshotDiff`, in which snapshots may be created again (`Recreate`) before their
order is known, and `Diff`, `Finish` are `runZfsDiff`. `ShowDiffOutput` writes the text;
a diff is left to `applyDiffResultFilter`, which writes it through the filter typed by
then, and not at all if the element has left its box.

A late render of a view that was left does up to two things to the controls of now. All
of them take a long text out of the document (`EndLate`, `taken`). One with diff controls
of its own finds those of the page by their ids: a snapshot's gives the button its own
handler, with its snapshot and the properties of then (`LateSnapshot`, `handler`); a Diff
tab's adds a handler to the filter and replaces From's, each with its own listing, and may
fill the selects from it at once (`LatePoolDiff`, `lists`, `listing`). A run keeps the
handler that was called (`by`).

`DiffConsole` is the abstract specification: one comparison at a time, which ends, and
whose outcome is what is shown, until the place it is shown in is lost (`Lose`) with an
outcome in it. `SnapshotDiff` implements it (`ImplementsConsole`): `asked` is the last
click while the button is disabled, `shown` what is to be seen, and `lost` that a late
render has taken it.

### ListFilters, VdevTree, PageLinks, UsageBars, HistoryPage, composed by PageFunctions

Pure functions as operators and recursive functions. A behaviour of `PageFunctions` is
given one case and computes it, so that a run goes through every bounded input.

- `ListFilters` (app.js 1182-1214, 1323-1391, 2212-2318): a text is the set of terms that
  occur in it, what is typed a sequence of terms, negated or blank.
- `VdevTree` (app.js 1742-1776, `disks.go`, `smart.go` 326-335): a configuration is its
  lines' indents.
- `PageLinks` (app.js 82-84, 239-301, 372-444): a name is a sequence of `Characters`,
  whatever they are. In an address a character is itself or, if the address is split at
  it, its code; a word such as `pool` is one character. `Split`, `Joined` and `NonEmpty`
  are the methods of JavaScript's strings and arrays. `Href` writes an address,
  `ParseRoute` cuts it at the first "?" (`Before`, `After`) and reads the pairs
  (`Value`) and the segments (`Route`).
- `UsageBars` (app.js 924-936, 1019-1180): a bar is a sequence of segments with bytes;
  `Drawn` leaves those of nothing out.
- `HistoryPage` (`history.go` 38-48, `handlers.go` 102-118): offsets and limits wrap
  around at the width of an int; a slice out of its bounds is a panic.

### LocalSession (internal/gui, internal/agent/server.go, internal/web/server.go)

`pc` is where the main goroutine is. A process resolves its agent, builds the proxy,
listens, opens a window or a browser, and stops; each step that can fail in the
code can fail here (`ResolveFails`, `SetupFails`, `NoWindow`), and the native
build's fall-back to a browser runs a second session in the same process. The
agent of a session is bound before it serves (`ServeAgent`), so that a stop may come
in between. Requests go through the UI server to the agent and may take for ever. A
process may be interrupted or crash at any step, and another one with the same id
may start on the same path. The 50 ms sleep of `startEmbeddedAgent` promises nothing
and is left out. `ResolveFails` is each way `ListenUnix` fails: before it removes what is at
the path, at removing it, or after; so what an earlier process left may stay (`earlier`
tells its sessions from those of this one). Once a socket could be made in the
directory, removing it is taken to succeed.

## 3. Runs

| Run | Shows |
|---|---|
| `view_history` | four invariants and `HistoryCatchesUp` with 7 hashes of 4 views, 3 queued events, histories of up to 5 |
| `view_render` | 8 views of every kind that behaves differently, 3 renders: split views are never stale, diff controls have handlers of their kind, nothing is stuck or unfiltered, split views alone rest on the address |
| `view_render_stale` | finding: a late plain view stays on the page |
| `view_render_diff` | finding: a late snapshot takes the Diff button of another |
| `data_cache` | freshness after F5 and under force; one SMART request per disk, which ends |
| `data_cache_f5` | finding: a request in flight survives F5 |
| `local_session` | teardown of whatever was set up, reachability, no start failing over a left-over socket, drained requests; quitting ends the process |
| `sidebar` | overlapping refills fill the open boxes; boxes are those of the flags; refills end; the active link is the address's |
| `sidebar_pools` | the same for pools, datasets and snapshots; datasets list their pool's listing; late rows are filtered |
| `snapshot_diff` | with late renders changing handlers, listings and output: what the view's own handler sends can be compared, pairs go oldest first, results are filtered, and the controls implement `DiffConsole`, liveness included |
| `snapshot_diff_shown` | finding: a diff's output is taken out of the page |
| `page_functions` | filters, device trees, links, bars and history pages against reference definitions |

`TypeOK` is proved for every module with proofs (section 4), and no run checks it again.

**Bounds.** Two `hashchange` events are what the flag can confuse; three leave room
for a third that must not be. A history of 5 holds the longest pattern the code
compares (3) and two more. Three renders are two that race and one that follows, on
8 kinds of view. Three requests are two that race and one after; one F5 lets requests
begin before it and end after it. The sidebar's volume has a directory in a
directory and one beside it, so that a loop has something before and after what it
rewrites; three jobs are an old refill, a newer one and a waiting rebuild, and five clicks,
views or F5s open all three with refills of two sidebars about. `sidebar_pools` has a
mounted and an unmounted file system and a volume, two of them with a snapshot, which
are the cases `fillDatasetKids` tells apart; four jobs are a pool's fill, the two
dataset fills it starts and an older one, and one change lets two listings differ. The
diff run has a pair of one dataset and a snapshot of another whose order is unknown,
one filter, listings with all, one and none of them, two clicks in a view, one snapshot
created again and one late render at a time: each is what its property needs to fail,
and views may be opened, with new late renders, without bound. The
functions get lists and trees of four rows, five lines of devices, names and queries of
two characters with every separator among them, two partitions and four snapshots against a cap of
two, and five entries of history with ints of five bits. Two processes are one that leaves
something behind and one that finds it; each has the two sessions a process can
have; two requests let one finish while the other hangs. No run uses symmetry or a state
constraint: most of them check liveness.

`CHECK_DEADLOCK FALSE` is set where a bound or the end of the process leaves nothing
to do.

**Fairness.** The event loop handles queued events (`ViewHistory`, `ViewRender`) and
answers (`Sidebar`, `SidebarPools`). Every request is answered or fails: `execzfs.run`
and the diff handler give each command a time limit, and a lost connection rejects the
`fetch` (`ViewRender`, `DataCache`, `Sidebar`, `SidebarPools`, `SnapshotDiff`). In
`LocalSession` the goroutines run and the graces end, but nothing is assumed of requests,
since a grace is much shorter than a command's limit. Users, signals and faults promise
nothing anywhere.

## 4. What is proved

`ViewHistoryProofs` proves for every set of hashes and views, every normalisation
with `Norm[Spell[v]] = v`, and every bound:

- `TypeCorrect`, `HistorySpaced`, `IgnorePaired`, `BackButton`, `Settled`: the type
  invariant and the four that `view_history` checks.

The inductive invariant is `TypeOK /\ NoPingPong /\ IgnoreIsPaired /\
BackButtonTruthful`. `SettledTop` is not inductive alone. That a handled event leaves
the history at the address needs to know how many events are queued when one is to be
ignored (`IgnoreIsPaired`); and that `goViewBack` has an event to be ignored needs the
entry it goes to to differ from the one it leaves, or the address to be ahead with its
event queued, which is where `NoPingPong` comes in. `NoPingPong` itself needs only what
`PopSpaced` and `NoteFact` say of the two operators.

The assumptions are `HashAssumption` (of `normalizeHash`) and that the bounds are
natural numbers. `NoteViewVisit` and `Pop` are not recursive, so nothing is left to
induction over data.

`ViewRenderProofs` proves for every set of views, every assignment of render functions
to them (`ViewAssumption`) and any number of renders in flight:

- `TypeCorrect`, `SplitCurrent`, `DiffWired`, `LoadingGone`, `Filterable`,
  `SplitSettles`: the type invariant and the five properties of `view_render` that are
  invariants.

None of the five is inductive. The invariant relates the page to the renders that may
still write to it: the last render started is for the address unless an event is queued
(`LastIsCurrent`), the panes on the page are those of the last render (`LiveIsLast`),
only the render that mounted a pane writes to it and not before it ends (`PanesOwned`),
a page that says "Loading..." belongs to a plain render that has yet to end
(`LoadingEnds`), and whatever else is shown has its filters (`ShownFilterable`). That
panes are never shared is why a late render cannot spoil a split view; that the diff
controls are looked up in the document, and not in the pane, is why `DiffWired` says
"of its kind" and not "its own" (finding 2). `SplitSettles` needs, beside all this, that on a
page of split views the breadcrumbs and the layout are the last render's (`SplitLayout`),
proved on top of the first invariant. Each action has a lemma or a step: a render
starts, a plain one ends, a split one ends, and the two that write no pane.

`DataCacheProofs` proves, for every set of listings and disks (`ResourceAssumption`: a
disk is no listing) and any number of changes, requests and F5s, `TypeCorrect`, `QuietRefresh`,
`ForcedRead` and `OneSmart`. The invariant dates every request: it was sent no earlier
than the F5 that began its epoch, its answer is no older than its sending, and unless an
F5 found requests in flight, what is in flight now is of this epoch (`RequestFresh`); so
the cache is as new as the last F5 (`CacheFresh`). That a disk has one request out needs
the case that makes it subtle: an answer from before an F5 clears the new entry's pending
request, but it leaves a value there, so no other is sent (`SmartKnown`).

`LocalSessionProofs` proves, for every set of requests and any number of processes and
faults, `TypeCorrect`, `TornDown`, `Reachable`, `FatalHasFault` and `Drained`. The invariant says, for
each point of the main goroutine, whose the path is and which agents live (`Agents`), that
only a native session is followed by another in its process (`Planned`, `Counted`), and
that a request is active past the UI server's drain only if its grace ran out (`Quiet`).
Together with `Agents` that makes a refused `Dial` impossible before.

`SnapshotDiffProofs` proves, for every set of snapshots, datasets and filters, any order
of the options (`SnapAssumption`, `QueryAssumption`) and any number of clicks:

- `TypeCorrect`, `PairsComparable`, `PairsOrdered`, `Filtered`: the type invariant and the
  invariants of `snapshot_diff`; `LastWritten`, that with the button enabled and nothing
  taken out of the page the text is of the last click. `PairsComparable` is about the
  handlers of a Diff tab and of the snapshot that is shown: the one a late render of
  another snapshot leaves on the button is finding 2;
- `ConsoleSafe`: the safety part of the refinement. The initial states are
  `DiffConsole`'s, and every step is a step of `DiffConsole` or a stutter.

The invariant has three parts. Only the last comparison is under way, exactly while the
button is disabled (`OneRun`), and the text is its own (`Written`): this is what the
refinement rests on. What the selects hold can be compared and so can every pair under
way (`SelectsComparable`, `RunsComparable`), which needs `SelectedIsOption`, that a select
shows one of its options, and that To's options are never computed for another From. An
order that was read is the snapshot's as long as it was not created again, also if it was
read before the click or by another render (`Wired`, `RunsKnow`), and no two snapshots have
the same time (`TimesApart`), from which `OldestFirst` follows at `Send` and survives
`Recreate`. `Wired` also says that the handlers on the page are of the kind of its view,
whoever attached them.

`SidebarProofs` proves, for every tree of directories (`TreeAssumption`; `OrderAssumption`:
a directory's path is longer than its parent's), any number of jobs under way and any
number of clicks, views and F5s, `TypeCorrect`, `OpenFilled`, `BoxesMatch` and `Marked`.
None of the three is inductive, since they speak of a page at rest. The invariant says
what keeps them on the way there:

- a job writes to boxes of the page or to none (`LiveInPage`), so filling a box never
  brings one back, and with no rebuild to come the boxes fit the flags already
  (`BoxesFit`);
- a box on "Loading..." has a job that is at it or will come to it (`LoadingAwaited`).
  That a fill which empties the boxes below its own has them ahead of it is `RestsAfter`
  and `Covered`: a loop goes on to longer paths only, and passes by no open directory
  that was open when it began. This is why short paths come first, and why a directory
  opened under way is an exception;
- one sidebar at a time is waited for unless one was asked for too early (`OneWaits`),
  and it marks the address of now (`MarksAddress`).

`BelowFact` is the one fact about the tree: what is in a box is what is listed in it or
in what is in it, with longer paths. `Below` is the least set closed under that, so that
no induction is needed.

`SidebarPoolsProofs` proves, for a pool with any finite number of datasets and snapshots
(`TreeAssumption`) and any number of calls, clicks and changes, `TypeCorrect`,
`OpenFilled`, `ListsAgree` and `Filtered`. Its invariant has four parts besides the types:

- `Tended`: a call whose box is on the page has the box it waits to fill, and a box on
  "Loading..." has such a call, for the pool's box exactly one. Snapshots' boxes that were
  never filled are allowed while a rebuild is to come, which replaces them;
- `Fitting`: with no rebuild to come the flags are those the rows were drawn with, and
  those the waiting calls will be drawn with. This is what `Toggle` keeps, which changes
  a flag and asks for a rebuild in one step;
- `Matching`: rows, and those that wait, are of the listing the pool's row shows, until
  an answer of a replaced box has filled the boxes that replaced it (`crossed`);
- `FilterToCome`: rows written since the filter was applied have a loop to come.

An answer that starts several calls appends the sequence of a finite set; what it adds is
`SpawnFact`, and what a rebuild detaches is `DetachFact`.

`PageFunctionsProofs` proves the six properties of `page_functions` for every input: a
list, a tree or a configuration of any length, names of any characters, sizes and
histories without a bound.

- `Computed` is the inductive invariant: what a function is given is one of the cases it
  was written for, and what it returned is its value. Each of the six says something of
  that value, which is a lemma about the function; `Headed`, `NavFound`, `OneTree`,
  `LedBack`, `Accounted` and `Paged` put the two together.
- The loops of the code are recursive functions and folds, and both are a CHOOSE of a
  function that solves an equation. `Loop` and `Recursion` say that there is one, where
  a value depends on values of lower rank only, and `SplitUnique`, `JoinUnique`,
  `SumUnique` and the like that it is the one chosen. What it computes is proved by
  induction. The library's induction theorems take an operator, which no prover here can
  instantiate, so `NatInSet` states induction for a set of numbers; it follows from
  `LeastNat`, the least counterexample, and the library's well-founded order of `Nat`.
- `OneTree`: after line i the stack holds the lines before it that are shallower than
  every line since (`Stacks`), which are the ones whose children it may be.
- `NavFound`: a row matches if its way to the pool has a found row with nothing excluded
  below it (`MatchFact`, along `PathTo`); it is shown if a row inside of it matches
  (`ShownFact`, from the last row up), so the ways to what is shown are shown.
- `LedBack`: what was joined by a character that is in none of the parts is split into
  them (`SplitJoined`), and no encoded name holds a character an address is split at
  (`PlainFact`, `EncodeFact`). So the first "?" ends the path (`CutAt`), the pairs are
  those written (`UsedFact`), and each kind of link has its own segments (`RouteInPool`,
  `RouteOfName`). `..` finds the last slash of a path that has none at its ends.
- `Accounted`: sums of segments do not change when those of nothing are left out
  (`DrawnFact`) nor when those above the cap are put together (`SnapSegsFact`).
- `Paged`: an offset within the history plus the limit does not wrap (`WrapFact`), so
  each page begins where the last one ended (`PagesFact`).

It assumes what `PageFunctions` states of its constants: entries of lists and trees have
their fields, a row is inside of an earlier one that is no remark (`TreesAssumption`);
links are written for names that are not empty, with the queries their kind can say, a
vdev being a number (`PlacesAssumption`); directories have no slash at either end
(`PathsAssumption`); sizes are not negative (`BarsAssumption`); and a history and a page
more can be counted by an int (`HistoriesAssumption`). A code such as `%2F` is no
character (`CharactersAssumption`): it is three. TLC evaluates all of them.

Model-checked only: the liveness properties (`HistoryCatchesUp`, `ComesToRest`,
`SmartIsDelivered`, `SidebarRests`, `PoolsRest`, `QuitEnds`, and that a comparison ends,
the fairness of `ImplementsConsole`), since fairness and ENABLED are beyond the prover.
Every invariant that a passing run checks is proved.

## 5. Findings

1. *A slow view replaces the current one* (`view_render_stale`). Plain renders write to
   `#app` after their awaits without looking at the address.
2. *A slow snapshot hijacks a Diff button* (`view_render_diff`). The controls of all
   snapshots have the same ids.
3. *F5 can be undone* (`data_cache_f5`). A request in flight fills the emptied cache with
   older data.
4. *A diff is written where nobody sees it* (`snapshot_diff_shown`). A late render of
   another view takes the output element out of the page; later output goes to it.

What the properties are conditioned on, because the code does not do better and states
no promise against it:

- Back skips a view when a link led to the view before the last one: `noteViewVisit` takes
  that visit for a step back (app.js 322).
- A signal in a native session, or before `signal.Notify`, leaves the socket, and a later
  process on the same path that cannot make the directory or remove the file leaves it
  too (`OrderlyExitTearsDown` speaks of orderly exits, and of a process that had an agent).
- A refill begun before a directory was opened can rewrite its parent and leave it on
  "Loading…" (`late` in `Sidebar`); a sidebar asked for while another waits may mark the
  view that was left (`raced`); a replaced pool box's answer fills the new datasets'
  boxes (`crossed` in `SidebarPools`).
- Snapshots created again after the view was opened, or without `createtxg` and
  `creation`, are sent in the order given (`stale`, `Unordered` in `SnapshotDiff`). A
  snapshot with one of the two only, whose order would be on another scale than its
  partner's (app.js 3253-3259), does not occur: `zfs get all` has both.
- The handler a late render of another snapshot leaves on the button sends that snapshot
  with whatever target is chosen, of another dataset too (`PairComparable` has `by.of =
  view`; finding 2).
- A usage bar adds up what its rows' fields say; space that snapshots share is in none.
- A limit so great that adding an offset overflows makes `PoolHistory` slice out of its
  bounds; `net/http` drops that connection (`HistoryPaged` excludes it). The page asks
  for 200 entries from the start (app.js 3354), which are the oldest ones.
- A disk without partitions has an "unallocated" bar (app.js 1043-1058), and a mount with
  nothing available shows what is reserved as free (app.js 1160).
- A vdev's link holds its place in the configuration (app.js 3745) and shows another one
  after a device was added or removed.

## 6. What could be added

Two servers started by hand on one path. An application that has an agent exactly between
start and exit, as an abstract specification of `LocalSession`.

## 7. Not modelled

- The content and look of the views, column widths, zoom and the sidebar's width: each is
  a value clamped and stored by one event handler.
- The collectors (block devices, mounts, pools, datasets, graph, host, browsing, SMART):
  parsers of one command's text, without state and without recursion worth a model, apart
  from `VdevTree` and `HistoryPage`. What several commands that see different moments
  bring together is not promised to agree anywhere.
- The handlers' status codes and partial answers, `execzfs.run` with its time limits,
  `auth.go` and `zfsname`: checks of one call, without state. Clocks are abstracted to
  "ends".
- The agent as `zfstool server` and the proxy as `zfstool web`: processes of their own that
  run the code `LocalSession` models, without the start and stop that make it hard.
- The client library, which the program does not use; the vendored webview; packaging,
  scripts and CI.
