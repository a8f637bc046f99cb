------------------------------- MODULE Sidebar -------------------------------
(***************************************************************************)
(* The sidebar and its file tree (src/internal/web/static/app.js).         *)
(*                                                                         *)
(* renderSidebar() waits for the three listings unless they are cached,    *)
(* then replaces the whole sidebar; every box that is open starts as       *)
(* "Loading..." and is filled by a request of its own.  A filled box has a *)
(* box for each of its open directories, and a refill goes through those,  *)
(* one request after the other.                                            *)
(*                                                                         *)
(* Any number of these jobs overlap, with each other and with clicks.  A   *)
(* job keeps the box it found before it waited, which may have left the    *)
(* document since, and looks the next one up in the document of then.      *)
(*                                                                         *)
(* The tree is that of one mounted volume (fillVolumeKids ...). A dataset's *)
(* files are filled by the same functions under other names.               *)
(***************************************************************************)
EXTENDS Naturals

CONSTANTS
  View,        \* what the active link can stand for
  Root,        \* the volume's own box
  Dir,         \* its directories
  Parent,      \* the box each directory is listed in
  Order,       \* their places by the length of their path
  Job,         \* identities of jobs: how many can be under way
  MaxSteps     \* bound: clicks, views visited and F5s

Box == Dir \cup {Root}

ASSUME TreeAssumption == Root \notin Dir /\ Parent \in [Dir -> Box]
ASSUME OrderAssumption ==
  /\ Order \in [Dir -> Nat] /\ \A c, d \in Dir : Order[c] = Order[d] => c = d
  /\ \A d \in Dir : Parent[d] # Root => Order[Parent[d]] < Order[d]
ASSUME BoundAssumption == MaxSteps \in Nat

\* The directories in box b: the least set that has those listed in b and
\* those listed in one of the set.
Below(b) ==
  {d \in Dir : \A S \in SUBSET Dir :
     (\A c \in Dir : Parent[c] \in S \cup {b} => c \in S) => d \in S}

VARIABLES
  route,    \* what the address says
  rendering,\* views whose render has not yet come to renderSidebar()
  cached,   \* the three listings are cached
  files,    \* nav.includeFiles
  open,     \* nav.volKids and nav.volDirOpen
  shown,    \* what the sidebar is: empty, an error, without volumes, complete
  marked,   \* what its active link stands for
  box,      \* what each box in the document shows
  jobs,     \* the jobs under way
  steps,    \* clicks, views and F5s so far
  raced,    \* history: a sidebar was asked for while another was waited for
  late      \* history: directories opened during a refill that may still write

nav  == <<cached, files, open>>
page == <<shown, marked, box>>
vars == <<route, rendering, nav, page, jobs, steps, raced, late>>

Idle == [at |-> "idle"]

\* A job that waits for the listings, to mark what the address was.
SidebarJob == [at : {"sidebar"}, marks : View]

\* One that waits to fill box of, and then the directories in rest; live: the
\* box it found is in the document; asks: there is a request, Files was on.
FillJob == [at : {"fill"}, of : Box, rest : SUBSET Dir, live : BOOLEAN, asks : BOOLEAN]

TypeOK ==
  /\ route \in View /\ rendering \in Nat /\ steps \in Nat
  /\ cached \in BOOLEAN /\ files \in BOOLEAN /\ open \in [Box -> BOOLEAN]
  /\ shown \in {"empty", "error", "partial", "tree"} /\ marked \in View
  /\ box \in [Box -> {"absent", "loading", "rows", "bare"}]
  /\ jobs \in [Job -> {Idle} \cup SidebarJob \cup FillJob]
  /\ raced \in BOOLEAN /\ late \subseteq Dir

Init ==
  /\ route \in View /\ rendering = 1 /\ steps = 0
  /\ cached = FALSE /\ files \in BOOLEAN /\ open = [b \in Box |-> FALSE]
  /\ shown = "empty" /\ marked = route /\ box = [b \in Box |-> "absent"]
  /\ jobs = [j \in Job |-> Idle]
  /\ raced = FALSE /\ late = {}

-----------------------------------------------------------------------------
Filling(js) == {j \in Job : js[j].at = "fill"}
Waiting(js) == {j \in Job : js[j].at = "sidebar"}

\* jobs js with one more; the bound Job stops what would be one too many.
Spawn(js, new) ==
  /\ \E j \in Job : js[j] = Idle
  /\ jobs' = [js EXCEPT ![CHOOSE j \in Job : js[j] = Idle] = new]

\* What jobs js are when the boxes bs have left the document.
Detach(js, bs) ==
  [j \in Job |-> IF j \in Filling(js) /\ js[j].of \in bs
                 THEN [js[j] EXCEPT !.live = FALSE] ELSE js[j]]

Fill(b, rest) ==
  [at |-> "fill", of |-> b, rest |-> rest, live |-> TRUE, asks |-> files']

\* renderSidebar() after its awaits, what says what came of them: it reads
\* the flags of now, replaces everything, and starts to fill the volume.
Rebuild(js, what, mark) ==
  LET canBrowse == what = "tree" /\ files' /\ open'[Root]
      old == Detach(js, Box)
  IN
  /\ shown' = what /\ marked' = mark
  /\ box' = [b \in Box |-> IF b = Root /\ canBrowse THEN "loading" ELSE "absent"]
  /\ IF canBrowse THEN Spawn(old, Fill(Root, {})) ELSE jobs' = old
  /\ late' = IF Filling(js) = {} THEN {} ELSE {d \in Dir : d \in late \/ (open'[d] /\ ~open[d])}

\* renderSidebar(): cached listings take no time.
RenderSidebar ==
  /\ raced' = (raced \/ Waiting(jobs) # {})
  /\ IF cached
     THEN Rebuild(jobs, "tree", route)
     ELSE
       /\ Spawn(jobs, [at |-> "sidebar", marks |-> route])
       /\ late' = late \cup {d \in Dir : open'[d] /\ ~open[d] /\ Filling(jobs) # {}}
       /\ UNCHANGED page

Step == steps < MaxSteps /\ steps' = steps + 1

-----------------------------------------------------------------------------
\* The address changes; its view is rendered.
Visit(v) ==
  /\ Step /\ route' = v /\ rendering' = rendering + 1
  /\ UNCHANGED <<nav, page, jobs, raced, late>>

\* F5: refreshCurrentView() empties the caches and renders the view again.
RefreshCurrentView ==
  /\ Step /\ cached' = FALSE /\ rendering' = rendering + 1
  /\ UNCHANGED <<route, files, open, page, jobs, raced, late>>

\* A mutant: the sidebar is left as it is.
ViewRenderedAlone ==
  /\ rendering > 0 /\ rendering' = rendering - 1
  /\ UNCHANGED <<route, nav, page, jobs, steps, raced, late>>

\* navigateRoute() has rendered its view; errors are shown by the view.
ViewRendered ==
  /\ rendering > 0 /\ rendering' = rendering - 1
  /\ UNCHANGED <<route, nav, steps>>
  /\ RenderSidebar

\* The views between them have read all three listings.
ListingsCached ==
  /\ ~cached /\ cached' = TRUE
  /\ UNCHANGED <<route, rendering, files, open, page, jobs, steps, raced, late>>

\* A twist is there for the volume, and for each directory of a filled box.
HasTwist(b) == IF b = Root THEN shown = "tree" /\ files ELSE box[Parent[b]] = "rows"

\* A mutant: the twist turns, the sidebar is not rendered.
ToggleOnly(b) ==
  /\ HasTwist(b) /\ Step
  /\ open' = [open EXCEPT ![b] = ~@]
  /\ UNCHANGED <<route, rendering, cached, files, page, jobs, raced, late>>

\* wireSidebarClicks: a twist.
Toggle(b) ==
  /\ HasTwist(b) /\ Step
  /\ open' = [open EXCEPT ![b] = ~@]
  /\ UNCHANGED <<route, rendering, cached, files>>
  /\ RenderSidebar

\* wireNavIncludeFiles: the Files box; without files no directory is open.
ToggleFiles ==
  /\ shown \in {"partial", "tree"} /\ Step
  /\ files' = ~files
  /\ open' = IF files' THEN open ELSE [b \in Box |-> b = Root /\ open[b]]
  /\ UNCHANGED <<route, rendering, cached>>
  /\ RenderSidebar

\* The listings arrive: all, all but the mounts (whose error is swallowed), or
\* an error in the sidebar's place.
DeliverSidebar(j) ==
  /\ jobs[j].at = "sidebar"
  /\ UNCHANGED <<route, rendering, files, open, steps, raced>>
  /\ \E what \in {"tree", "partial", "error"} :
       /\ cached' = (cached \/ what = "tree")
       /\ Rebuild([jobs EXCEPT ![j] = Idle], what, jobs[j].marks)

-----------------------------------------------------------------------------
\* The keys of refillOpenVolDirs: the open directories.
OpenDirs == {d \in Dir : open[d]}

\* Box b is given what the answer held: a row for each directory, and a box
\* that is "Loading..." for each open one.
FillBox(b, what) ==
  [c \in Box |-> IF c = b THEN what
                 ELSE IF c \notin Below(b) THEN box[c]
                 ELSE IF what = "rows" /\ Parent[c] = b /\ open[c] THEN "loading"
                 ELSE "absent"]

\* A mutant: the box just filled is looked up once more.
RestAgain(job) == IF job.of = Root THEN OpenDirs ELSE job.rest \cup {job.of}

\* What is left of the loop of a job that has filled its box.
Rest(job) == IF job.of = Root THEN OpenDirs ELSE job.rest

\* A mutant: long paths, the inner directories, first.
ContinueInnerFirst(rest) ==
  LET there == {d \in rest : box'[d] # "absent"}
      first == CHOOSE d \in there : \A e \in there : Order[d] >= Order[e]
  IN IF there = {} THEN Idle ELSE Fill(first, {d \in rest : Order[d] < Order[first]})

\* The next directory whose box is in the document, short paths first, and
\* those after it.
Continue(rest) ==
  LET there == {d \in rest : box'[d] # "absent"}
      first == CHOOSE d \in there : \A e \in there : Order[d] <= Order[e]
  IN IF there = {} THEN Idle ELSE Fill(first, {d \in rest : Order[d] > Order[first]})

\* fillVolumeKids, fillVolDirKids: what arrives (rows; or an error, nothing,
\* or '' if Files was off) goes to the box found before, and the loop goes on.
DeliverKids(j) ==
  /\ jobs[j].at = "fill"
  /\ UNCHANGED <<route, rendering, nav, shown, marked, steps, raced, late>>
  /\ LET b == jobs[j].of IN
     /\ \E what \in IF jobs[j].asks THEN {"rows", "bare"} ELSE {"bare"} :
          box' = IF jobs[j].live THEN FillBox(b, what) ELSE box
     /\ jobs' = [Detach(jobs, IF jobs[j].live THEN Below(b) ELSE {})
                   EXCEPT ![j] = Continue(Rest(jobs[j]))]

Next ==
  \/ \E v \in View : Visit(v)
  \/ RefreshCurrentView \/ ViewRendered \/ ListingsCached
  \/ \E b \in Box : Toggle(b)
  \/ ToggleFiles
  \/ \E j \in Job : DeliverSidebar(j) \/ DeliverKids(j)

Spec == Init /\ [][Next]_vars

\* Views come to an end, every request is answered or fails, and the event
\* loop delivers the answers.
Fairness ==
  /\ WF_vars(ViewRendered)
  /\ \A j \in Job : WF_vars(DeliverSidebar(j) \/ DeliverKids(j))

FairSpec == Spec /\ Fairness

-----------------------------------------------------------------------------
AtRest == rendering = 0 /\ \A j \in Job : jobs[j] = Idle

\* However many refills overlap, on this sidebar or begun on an earlier one,
\* no box is left on "Loading..."; except that of a directory opened while a
\* refill was under way, which can rewrite its parent without knowing it.
OpenBoxesFilled ==
  AtRest => \A b \in Box : box[b] = "loading" => b \in late

\* At rest the boxes are those of the open flags, also if the twists and the
\* Files box were clicked while listings were waited for.
BoxesMatchFlags ==
  AtRest /\ shown = "tree" =>
    /\ box[Root] # "absent" <=> files /\ open[Root]
    /\ \A d \in Dir : box[d] # "absent" <=> box[Parent[d]] = "rows" /\ open[d]

\* At rest the active link is that of the address, unless a sidebar was asked
\* for while an earlier one waited for its listings.
MarkedIsAddress ==
  AtRest /\ ~raced /\ shown # "error" => marked = route

\* Clicks aside, the sidebar comes to rest: no refill goes round for ever.
SidebarRests == []<>AtRest
=============================================================================
