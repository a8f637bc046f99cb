----------------------------- MODULE ViewRender -----------------------------
(***************************************************************************)
(* Rendering in the web UI (src/internal/web/static/app.js).               *)
(*                                                                         *)
(* dispatch() and F5 start a render of the view the address bar shows.  A  *)
(* render captures its route, prepares the page at once, waits for the API *)
(* and then writes.  Nothing cancels it when the user moves on, so several *)
(* may be in flight, and each writes to the page whenever its own answers  *)
(* arrive.  Two layouts behave differently:                                *)
(*                                                                         *)
(*   plain  writes appEl.innerHTML, whatever is shown by then;             *)
(*   split  mounts a browse and a detail pane when it starts and writes    *)
(*          only to those two elements, but it looks its diff controls up  *)
(*          by element id after it has waited.                             *)
(*                                                                         *)
(* A render is numbered by its position in the order they were started,    *)
(* and the panes a split render mounts bear its number.                    *)
(***************************************************************************)
EXTENDS Naturals, Sequences

CONSTANTS
  View,       \* routes, with their query (tab, browsed path and file)
  Renderer,   \* for each view, the description of the function rendering it
  MaxRenders  \* bound: renders started in a behaviour

-----------------------------------------------------------------------------
(* What each render function does with the page around its awaits:          *)
(*   split    it mounts panes                                               *)
(*   waits    it calls the API before it writes the content                 *)
(*   crumbs   when it sets the breadcrumbs: before it waits, as soon as the *)
(*            disk is found, or with the content                            *)
(*   control  the diff controls its content has, if any                     *)
(*   fails    an error of the API reaches the page                          *)
Plain == [split |-> FALSE, waits |-> TRUE, crumbs |-> "first",
          control |-> "none", fails |-> TRUE]
Split == [Plain EXCEPT !.split = TRUE]

Home     == Plain
Host     == Plain
Volumes  == Plain
Remote   == [Plain EXCEPT !.waits = FALSE, !.fails = FALSE]
Vdev     == [Plain EXCEPT !.crumbs = "last"]
Disk     == [Plain EXCEPT !.crumbs = "found"]
Pool     == Split
PoolDiff == [Split EXCEPT !.control = "diff-run"]
Dataset  == Split
Snapshot == [Split EXCEPT !.control = "snapshot-diff-run"]
Volume   == Split
File     == [Split EXCEPT !.fails = FALSE]

Renderers == {Home, Host, Volumes, Remote, Vdev, Disk, Pool, PoolDiff, Dataset,
              Snapshot, Volume, File}

ASSUME ViewAssumption == Renderer \in [View -> Renderers]
ASSUME BoundAssumption == MaxRenders \in Nat

-----------------------------------------------------------------------------
VARIABLES
  hash,      \* the view the address bar shows
  pending,   \* hashchange events queued, the script's first dispatch() included
  renders,   \* the renders started, in order
  app,       \* what appEl.innerHTML was last set to, and by which render
  hasSplit,  \* appEl has the class has-split
  crumbs     \* the render that set the breadcrumbs last; 0 at first

vars == <<hash, pending, renders, app, hasSplit, crumbs>>

\* Content of an element: written by a render, filterable once
\* enhanceFilterableLists has seen it.
Content(By) == [by : By, shows : {"nothing", "loading", "content", "error"},
                filterable : BOOLEAN]
Write(i, s) == [by |-> i, shows |-> s, filterable |-> FALSE]

\* phase: where the render is; pane, browse: its detail and browse pane;
\* wired: the render whose handlers the diff controls in the pane call
Render(By) == [view : View, phase : {"waits", "found", "done"},
               pane : Content(By), browse : {"none", "loading", "filled"},
               wired : By]

Started == DOMAIN renders

TypeOK ==
  /\ hash \in View
  /\ pending \in Nat
  /\ renders \in Seq(Render(0 .. Len(renders)))
  /\ app \in [by : 0 .. Len(renders), split : BOOLEAN,
              shows : {"nothing", "loading", "content", "error"},
              filterable : BOOLEAN]
  /\ hasSplit \in BOOLEAN
  /\ crumbs \in 0 .. Len(renders)

Init ==
  /\ hash \in View
  /\ pending = 1
  /\ renders = <<>>
  /\ app = [by |-> 0, split |-> FALSE, shows |-> "nothing", filterable |-> FALSE]
  /\ hasSplit = FALSE
  /\ crumbs = 0

-----------------------------------------------------------------------------
Of(i) == Renderer[renders[i].view]

AppWrite(i, s) == [by |-> i, split |-> FALSE, shows |-> s, filterable |-> FALSE]

\* appEl after mountSplitView() by render i.
MountSplitView(i) == [AppWrite(i, "content") EXCEPT !.split = TRUE]

\* The detail pane in the document when appEl is a: the one of the render
\* that mounted it, 0 if there is none.
LivePane(a) == IF a.split THEN a.by ELSE 0

\* Mutant: the lists of a split view are left to wireListFilters(), which
\* does not find any.
EnhanceOnlyPlain(rs, a) ==
  /\ renders' = rs
  /\ app' = IF LivePane(a) = 0 /\ a.shows # "loading"
            THEN [a EXCEPT !.filterable = TRUE] ELSE a

\* enhanceFilterableLists(detail-pane || appEl), with whatever they hold now.
EnhanceLists(rs, a) ==
  LET d == LivePane(a) IN
  /\ renders' = IF d # 0 /\ rs[d].pane.shows # "loading"
                THEN [rs EXCEPT ![d].pane.filterable = TRUE] ELSE rs
  /\ app' = IF d = 0 /\ a.shows # "loading"
            THEN [a EXCEPT !.filterable = TRUE] ELSE a

\* Mutant: the pool view and the snapshot view use the same element ids.
WireSameIds(rs, i) ==
  LET d == LivePane(app)
  IN IF /\ Of(i).control # "none"
        /\ d # 0
        /\ rs[d].pane.shows = "content"
        /\ Renderer[rs[rs[d].pane.by].view].control # "none"
     THEN [rs EXCEPT ![d].wired = i] ELSE rs

\* The handlers of render i are attached to the diff controls found by id in
\* the document, if the live pane has such controls.
WireDiff(rs, i) ==
  LET d == LivePane(app)
      control == Of(i).control
  IN IF /\ control # "none"
        /\ d # 0
        /\ rs[d].pane.shows = "content"
        /\ Renderer[rs[rs[d].pane.by].view].control = control
     THEN [rs EXCEPT ![d].wired = i] ELSE rs

\* navigateRoute(parseRoute()) up to its first await.
NavigateRoute ==
  LET i == Len(renders) + 1
      r == Renderer[hash]
      new == [view |-> hash,
              phase |-> IF r.waits THEN "waits" ELSE "done",
              pane |-> Write(i, IF r.split THEN "loading" ELSE "nothing"),
              browse |-> IF r.split THEN "loading" ELSE "none",
              wired |-> 0]
  IN /\ Len(renders) < MaxRenders
     /\ hasSplit' = r.split
     /\ crumbs' = IF r.crumbs = "first" THEN i ELSE crumbs
     /\ IF r.waits
        THEN /\ renders' = Append(renders, new)
             /\ app' = IF r.split THEN MountSplitView(i) ELSE AppWrite(i, "loading")
        ELSE EnhanceLists(Append(renders, new), AppWrite(i, "content"))

\* A link, the browser's Back, goViewBack: the address moves at once.
FollowLink(v) ==
  /\ v # hash
  /\ Len(renders) + pending < MaxRenders
  /\ hash' = v
  /\ pending' = pending + 1
  /\ UNCHANGED <<renders, app, hasSplit, crumbs>>

\* dispatch() on an event: it renders the view of the address as it is now.
Dispatch ==
  /\ pending > 0
  /\ pending' = pending - 1
  /\ NavigateRoute
  /\ UNCHANGED hash

\* F5: refreshCurrentView() renders the view again, beside what is in flight.
RefreshCurrentView ==
  /\ Len(renders) + pending < MaxRenders
  /\ NavigateRoute
  /\ UNCHANGED <<hash, pending>>

\* renderDisk has its list of disks: breadcrumbs now, content after SMART.
FindDisk(i) ==
  /\ renders[i].phase = "waits"
  /\ Of(i).crumbs = "found"
  /\ renders' = [renders EXCEPT ![i].phase = "found"]
  /\ crumbs' = i
  /\ UNCHANGED <<hash, pending, app, hasSplit>>

\* The last answer render i waits for arrives, or one of its requests fails:
\* it writes and navigateRoute goes on to the lists.
FinishPlain(i, s) ==
  /\ ~Of(i).split
  /\ EnhanceLists([renders EXCEPT ![i].phase = "done"], AppWrite(i, s))
  /\ crumbs' = IF Of(i).crumbs = "last" \/ (Of(i).crumbs = "found" /\ s = "error")
               THEN i ELSE crumbs

\* Mutant: the detail pane is looked up in the document instead of captured.
FinishSplitById(i, s) ==
  /\ Of(i).split
  /\ LET d == LivePane(app)
         done == [renders EXCEPT ![i].phase = "done"]
         written == IF d = 0 THEN done ELSE [done EXCEPT ![d].pane = Write(i, s)]
     IN EnhanceLists(IF s = "content" THEN WireDiff(written, i) ELSE written, app)
  /\ UNCHANGED crumbs

\* Mutant: the breadcrumbs are set with the content.
FinishSplitLateCrumbs(i, s) ==
  /\ Of(i).split
  /\ LET written == [renders EXCEPT ![i].phase = "done", ![i].pane = Write(i, s)]
     IN EnhanceLists(IF s = "content" THEN WireDiff(written, i) ELSE written, app)
  /\ crumbs' = i

FinishSplit(i, s) ==
  /\ Of(i).split
  /\ LET written == [renders EXCEPT ![i].phase = "done", ![i].pane = Write(i, s)]
     IN EnhanceLists(IF s = "content" THEN WireDiff(written, i) ELSE written, app)
  /\ UNCHANGED crumbs

Finish(i) ==
  /\ renders[i].phase = IF Of(i).crumbs = "found" THEN "found" ELSE "waits"
  /\ FinishPlain(i, "content") \/ FinishSplit(i, "content")
  /\ UNCHANGED <<hash, pending, hasSplit>>

\* Mutant: the error is not caught, nothing is written.
FailUncaught(i) ==
  /\ renders[i].phase # "done"
  /\ Of(i).fails
  /\ renders' = [renders EXCEPT ![i].phase = "done"]
  /\ UNCHANGED <<hash, pending, app, hasSplit, crumbs>>

Fail(i) ==
  /\ renders[i].phase # "done"
  /\ Of(i).fails
  /\ FinishPlain(i, "error") \/ FinishSplit(i, "error")
  /\ UNCHANGED <<hash, pending, hasSplit>>

\* Mutant: a pane that has left the document is not filled, and waits on.
FillLivePane(i) ==
  /\ renders[i].browse = "loading"
  /\ LivePane(app) = i
  /\ renders' = [renders EXCEPT ![i].browse = "filled"]
  /\ UNCHANGED <<hash, pending, app, hasSplit, crumbs>>

\* fillBrowsePane writes its listing, or its error, to the pane it was given.
FillBrowsePane(i) ==
  /\ renders[i].browse = "loading"
  /\ renders' = [renders EXCEPT ![i].browse = "filled"]
  /\ UNCHANGED <<hash, pending, app, hasSplit, crumbs>>

Next ==
  \/ \E v \in View : FollowLink(v)
  \/ Dispatch
  \/ RefreshCurrentView
  \/ \E i \in Started : FindDisk(i) \/ Finish(i) \/ Fail(i) \/ FillBrowsePane(i)

Spec == Init /\ [][Next]_vars

\* Events are handled and every request is answered or fails in the end: the
\* agent runs each command with a time limit, and a lost connection rejects.
Fairness ==
  /\ WF_vars(Dispatch)
  /\ \A i \in 1 .. MaxRenders :
       /\ WF_vars(i \in Started /\ (FindDisk(i) \/ Finish(i) \/ Fail(i)))
       /\ WF_vars(i \in Started /\ FillBrowsePane(i))

FairSpec == Spec /\ Fairness

-----------------------------------------------------------------------------
\* Nothing is queued and nothing is in flight.
Settled ==
  /\ pending = 0
  /\ \A i \in Started : renders[i].phase = "done" /\ renders[i].browse # "loading"

\* What the main column shows: the detail pane if there is one.
Shown == IF app.split THEN renders[app.by].pane
         ELSE [by |-> app.by, shows |-> app.shows, filterable |-> app.filterable]

\* A split view on the page is never a stale one: as soon as the events are
\* handled it belongs to the address shown, and so does what its detail pane
\* holds, however many older renders are still to write (mountSplitView hands
\* every render its own panes).
SplitNeverStale ==
  pending = 0 /\ app.split =>
    /\ renders[app.by].view = hash
    /\ renders[Shown.by].view = hash

\* A diff control on the page always has a handler: the control is written
\* before it is looked up, and no later write removes the handler.  It is of a
\* view with the same kind of controls: a pool's Diff tab never runs a snapshot
\* view's comparison.
DiffButtonWired ==
  LET control == Renderer[renders[Shown.by].view].control
      wired == renders[app.by].wired
  IN app.split /\ Shown.shows = "content" /\ control # "none"
       => wired # 0 /\ Of(wired).control = control

\* When nothing is in flight any more the page shows no "Loading..." in the
\* main column or the browse pane, in whatever order the answers came and
\* whichever of them failed.
NoStuckLoading ==
  Settled => /\ Shown.shows # "loading"
             /\ app.split => renders[app.by].browse = "filled"

\* The content left on the page has its list filters, although the render
\* that wrote it and the one that enhanced the lists may be different ones.
ListsFilterable ==
  Settled /\ Shown.shows = "content" => Shown.filterable

\* The page comes to rest.
ComesToRest == <>[]Settled

\* Once the page rests it shows the view of the address, with its breadcrumbs
\* and in its layout.
SettledShowsCurrentView ==
  Settled => /\ renders[Shown.by].view = hash
             /\ renders[crumbs].view = hash
             /\ hasSplit = app.split

\* So it does if every view that was rendered has panes; a plain one that comes
\* late is written over whatever is there.
SplitViewsSettle ==
  (\A i \in Started : Of(i).split) => SettledShowsCurrentView

\* "Compare this snapshot ...": the handlers of the diff controls on the page
\* are those of the view the controls belong to.
DiffComparesShownSnapshot ==
  app.split /\ renders[app.by].wired # 0 =>
    renders[renders[app.by].wired].view = renders[app.by].view
=============================================================================
