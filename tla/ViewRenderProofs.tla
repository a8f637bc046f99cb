-------------------------- MODULE ViewRenderProofs --------------------------
(* ViewRender proved for every set of views, every assignment of render     *)
(* functions to them and any number of renders in flight.                   *)
EXTENDS ViewRender, TLAPS

Shows == {"nothing", "loading", "content", "error"}
App(By) == [by : By, split : BOOLEAN, shows : Shows, filterable : BOOLEAN]

\* What the proofs need to know of the render functions.
Sane(r) == /\ r.split \in BOOLEAN /\ r.waits \in BOOLEAN
           /\ r.split => r.waits /\ r.crumbs = "first"

LEMMA RendererFact ==
  ASSUME NEW v \in View
  PROVE  Sane(Renderer[v])
<1>1. Sane(Plain)
  BY DEF Sane, Plain
<1>2. Sane(Split) /\ Sane(PoolDiff) /\ Sane(Snapshot) /\ Sane(File)
  BY DEF Sane, Split, PoolDiff, Snapshot, File, Plain
<1>3. Sane(Remote) /\ Sane(Vdev) /\ Sane(Disk)
  BY DEF Sane, Remote, Vdev, Disk, Plain
<1>4. Renderer[v] \in Renderers
  BY ViewAssumption
<1>5. \/ Renderer[v] \in {Plain, Split, PoolDiff, Snapshot, File}
      \/ Renderer[v] \in {Remote, Vdev, Disk}
  BY <1>4, Zenon DEF Renderers, Home, Host, Volumes, Pool, Dataset, Volume
<1>6. QED BY <1>1, <1>2, <1>3, <1>5, Zenon

\* enhanceFilterableLists touches nothing but the filters of what is shown.
LEMMA EnhanceFact ==
  ASSUME NEW By, NEW rs \in Seq(Render(By)), NEW a \in App(By),
         LivePane(a) # 0 => LivePane(a) \in DOMAIN rs,
         EnhanceLists(rs, a)
  PROVE  /\ renders' \in Seq(Render(By)) /\ Len(renders') = Len(rs)
         /\ \A i \in DOMAIN rs :
              /\ renders'[i].view = rs[i].view
              /\ renders'[i].phase = rs[i].phase
              /\ renders'[i].browse = rs[i].browse
              /\ renders'[i].wired = rs[i].wired
              /\ renders'[i].pane.by = rs[i].pane.by
              /\ renders'[i].pane.shows = rs[i].pane.shows
              /\ rs[i].pane.filterable => renders'[i].pane.filterable
         /\ app' \in App(By) /\ app'.by = a.by /\ app'.split = a.split
         /\ app'.shows = a.shows
         /\ LivePane(a) = 0 /\ a.shows # "loading" => app'.filterable
         /\ LivePane(a) # 0 /\ rs[LivePane(a)].pane.shows # "loading"
              => renders'[LivePane(a)].pane.filterable
<1> DEFINE d == LivePane(a)
<1>1. /\ app' \in App(By) /\ app'.by = a.by /\ app'.split = a.split
      /\ app'.shows = a.shows
      /\ d = 0 /\ a.shows # "loading" => app'.filterable
  BY DEF EnhanceLists, App, Shows
<1>2. CASE d # 0 /\ rs[d].pane.shows # "loading"
  <2>1. d \in DOMAIN rs /\ rs[d] \in Render(By)
    BY <1>2
  <2>2. renders' = [rs EXCEPT ![d].pane.filterable = TRUE]
    BY <1>2 DEF EnhanceLists
  <2> DEFINE r == [rs[d] EXCEPT !.pane.filterable = TRUE]
  <2>3. /\ r \in Render(By)
        /\ r.view = rs[d].view /\ r.phase = rs[d].phase
        /\ r.browse = rs[d].browse /\ r.wired = rs[d].wired
        /\ r.pane.by = rs[d].pane.by /\ r.pane.shows = rs[d].pane.shows
        /\ r.pane.filterable = TRUE
    BY <2>1 DEF Render, Content
  <2>4. /\ renders' \in Seq(Render(By)) /\ Len(renders') = Len(rs)
        /\ renders'[d] = r
        /\ \A i \in DOMAIN rs : i # d => renders'[i] = rs[i]
    <3> HIDE DEF r
    <3>1. renders' = [rs EXCEPT ![d] = r]
      BY <2>2 DEF r
    <3>2. QED BY <2>1, <2>3, <3>1
  <2>5. QED
    <3> HIDE DEF r, d
    <3>1. QED BY <1>1, <1>2, <2>3, <2>4 DEF d
<1>3. CASE ~(d # 0 /\ rs[d].pane.shows # "loading")
  <2>1. renders' = rs
    BY <1>3 DEF EnhanceLists
  <2>2. QED BY <1>1, <1>3, <2>1
<1>4. QED BY <1>2, <1>3

\* WireDiff changes the handlers of one pane, and reaches that pane's own
\* controls if it belongs to the render that wires.
LEMMA WireFact ==
  ASSUME NEW By, NEW rs \in Seq(Render(By)), NEW i \in By,
         LivePane(app) # 0 => LivePane(app) \in DOMAIN rs
  PROVE  /\ WireDiff(rs, i) \in Seq(Render(By))
         /\ Len(WireDiff(rs, i)) = Len(rs)
         /\ \A k \in DOMAIN rs :
              /\ WireDiff(rs, i)[k].view = rs[k].view
              /\ WireDiff(rs, i)[k].phase = rs[k].phase
              /\ WireDiff(rs, i)[k].browse = rs[k].browse
              /\ WireDiff(rs, i)[k].pane = rs[k].pane
              /\ \/ WireDiff(rs, i)[k].wired = rs[k].wired
                 \/ /\ WireDiff(rs, i)[k].wired = i
                    /\ Renderer[rs[rs[k].pane.by].view].control = Of(i).control
         /\ LivePane(app) = i /\ rs[i].pane.shows = "content"
              /\ rs[i].pane.by = i /\ rs[i].view = renders[i].view
              /\ Of(i).control # "none"
              => i = 0 \/ WireDiff(rs, i)[i].wired = i
<1> DEFINE d == LivePane(app)
           found == /\ Of(i).control # "none"
                    /\ d # 0
                    /\ rs[d].pane.shows = "content"
                    /\ Renderer[rs[rs[d].pane.by].view].control = Of(i).control
<1>1. CASE found
  <2>1. d \in DOMAIN rs /\ rs[d] \in Render(By)
    BY <1>1
  <2> DEFINE r == [rs[d] EXCEPT !.wired = i]
  <2>2. WireDiff(rs, i) = [rs EXCEPT ![d] = r]
    BY <1>1 DEF WireDiff
  <2>3. /\ r \in Render(By)
        /\ r.view = rs[d].view /\ r.phase = rs[d].phase
        /\ r.browse = rs[d].browse /\ r.pane = rs[d].pane /\ r.wired = i
    BY <2>1 DEF Render
  <2>4. /\ WireDiff(rs, i) \in Seq(Render(By)) /\ Len(WireDiff(rs, i)) = Len(rs)
        /\ WireDiff(rs, i)[d] = r
        /\ \A k \in DOMAIN rs : k # d => WireDiff(rs, i)[k] = rs[k]
    <3> HIDE DEF r, d
    <3>1. QED BY <2>1, <2>2, <2>3
  <2>5. Renderer[rs[rs[d].pane.by].view].control = Of(i).control
    BY <1>1
  <2>6. QED
    <3> HIDE DEF r, d, found
    <3>1. QED BY <2>1, <2>3, <2>4, <2>5 DEF d
<1>2. CASE ~found
  <2>1. WireDiff(rs, i) = rs
    BY <1>2 DEF WireDiff
  <2>2. ~(/\ d = i /\ rs[i].pane.shows = "content" /\ rs[i].pane.by = i
          /\ rs[i].view = renders[i].view /\ Of(i).control # "none" /\ i # 0)
    BY <1>2 DEF Of
  <2>3. QED BY <2>1, <2>2
<1>3. QED BY <1>1, <1>2

-----------------------------------------------------------------------------
\* The inductive invariant. That a split view is never stale follows from two
\* facts: the page holds the panes of no render but the last one started
\* (LiveIsLast), and once the events are handled the last render was started
\* for the view of the address (LastIsCurrent).

LastIsCurrent ==
  pending = 0 => Len(renders) > 0 /\ renders[Len(renders)].view = hash

LiveIsLast ==
  app.split => /\ app.by = Len(renders) /\ app.by > 0
               /\ Renderer[renders[app.by].view].split

\* Nobody but its render writes to a pane, and a finished one has written.
PaneOwned(r, i) ==
  /\ r.pane.by = i
  /\ Renderer[r.view].split =>
       /\ r.phase = "done" => r.pane.shows # "loading"
       /\ r.browse \in {"loading", "filled"}

PanesOwned == \A i \in Started : PaneOwned(renders[i], i)

\* A plain page says "Loading..." only until the render that wrote it ends.
LoadingEnds ==
  ~app.split /\ app.shows = "loading" =>
    /\ app.by \in Started /\ renders[app.by].phase # "done"
    /\ ~Renderer[renders[app.by].view].split

ShownFilterable == Shown.shows = "content" => Shown.filterable

IInv ==
  /\ TypeOK
  /\ LastIsCurrent /\ LiveIsLast /\ PanesOwned /\ LoadingEnds
  /\ ShownFilterable /\ DiffButtonWired

LEMMA InitInv == Init => IInv
<1> SUFFICES ASSUME Init PROVE IInv
  OBVIOUS
<1>1. /\ renders = <<>> /\ Len(renders) = 0 /\ Started = {}
      /\ pending = 1 /\ hash \in View /\ hasSplit = FALSE /\ crumbs = 0
  BY DEF Init, Started
<1>2. app = [by |-> 0, split |-> FALSE, shows |-> "nothing", filterable |-> FALSE]
  BY DEF Init
<1>3. /\ app.by = 0 /\ app.split = FALSE /\ app.shows = "nothing"
      /\ Shown.shows = "nothing"
  BY <1>2 DEF Shown
<1>4. TypeOK
  <2>1. app \in [by : 0 .. Len(renders), split : BOOLEAN,
                 shows : {"nothing", "loading", "content", "error"},
                 filterable : BOOLEAN]
    BY <1>1, <1>2
  <2>2. renders \in Seq(Render(0 .. Len(renders)))
    BY <1>1
  <2>3. pending \in Nat /\ crumbs \in 0 .. Len(renders)
    BY <1>1
  <2>4. hasSplit \in BOOLEAN
    BY <1>1, Zenon
  <2>5. QED BY <1>1, <2>1, <2>2, <2>3, <2>4, Zenon DEF TypeOK
<1>5. LastIsCurrent /\ LiveIsLast /\ PanesOwned /\ LoadingEnds
  BY <1>1, <1>3 DEF LastIsCurrent, LiveIsLast, PanesOwned, LoadingEnds
<1>6. ShownFilterable /\ DiffButtonWired
  BY <1>3 DEF ShownFilterable, DiffButtonWired
<1>7. QED BY <1>4, <1>5, <1>6 DEF IInv

\* In terms of the lemmas above.
LEMMA Typing ==
  ASSUME IInv
  PROVE  /\ renders \in Seq(Render(0 .. Len(renders)))
         /\ app \in App(0 .. Len(renders))
         /\ LivePane(app) # 0 => LivePane(app) = Len(renders) /\ Len(renders) > 0
         /\ Started = 1 .. Len(renders)
  BY DEF IInv, TypeOK, App, Shows, LiveIsLast, LivePane, Started

\* A render may be told of renders started after it.
LEMMA WiderRender ==
  ASSUME NEW n \in Nat, NEW s \in Seq(Render(0 .. n))
  PROVE  s \in Seq(Render(0 .. n + 1))
<1>1. \A r \in Render(0 .. n) : r \in Render(0 .. n + 1)
  BY DEF Render, Content
<1>2. \A k \in 1 .. Len(s) : s[k] \in Render(0 .. n + 1)
  BY <1>1
<1>3. QED BY <1>2

-----------------------------------------------------------------------------
\* A plain render ends: it takes the whole page.
LEMMA PlainEnds ==
  ASSUME IInv, NEW i \in Started, NEW s \in {"content", "error"},
         FinishPlain(i, s), UNCHANGED <<hash, pending, hasSplit>>
  PROVE  IInv'
<1> DEFINE By == 0 .. Len(renders)
           rs == [renders EXCEPT ![i].phase = "done"]
           a == AppWrite(i, s)
<1>1. /\ renders \in Seq(Render(By)) /\ Started = 1 .. Len(renders)
      /\ i \in By /\ i # 0 /\ renders[i] \in Render(By)
  BY Typing
<1>2. /\ rs \in Seq(Render(By)) /\ Len(rs) = Len(renders)
      /\ \A k \in Started :
           /\ rs[k].view = renders[k].view /\ rs[k].browse = renders[k].browse
           /\ rs[k].pane = renders[k].pane
           /\ k # i => rs[k] = renders[k]
  BY <1>1 DEF Render
<1>3. /\ a \in App(By) /\ a.by = i /\ a.split = FALSE /\ a.shows = s
      /\ LivePane(a) = 0
  BY <1>1 DEF AppWrite, App, Shows, LivePane
<1>4. EnhanceLists(rs, a)
  BY DEF FinishPlain
<1>5. renders' = rs
  BY <1>3, <1>4 DEF EnhanceLists
<1>6. /\ app' \in App(By) /\ app'.by = i /\ app'.split = FALSE /\ app'.shows = s
      /\ app'.filterable
  <2> HIDE DEF rs, a, By
  <2>1. QED BY <1>2, <1>3, <1>4, EnhanceFact
<1>7. TypeOK'
  <2>1. crumbs' \in By
    BY <1>1 DEF FinishPlain, IInv, TypeOK
  <2>2. Len(renders') = Len(renders)
    BY <1>2, <1>5
  <2>3. QED BY <1>2, <1>5, <1>6, <2>1, <2>2 DEF IInv, TypeOK, App, Shows
<1>8. LastIsCurrent' /\ LiveIsLast'
  BY <1>1, <1>2, <1>5, <1>6 DEF IInv, LastIsCurrent, LiveIsLast
<1>9. PanesOwned' /\ LoadingEnds'
  BY <1>1, <1>2, <1>5, <1>6 DEF IInv, PanesOwned, PaneOwned, LoadingEnds, Started, FinishPlain, Of
<1>10. ShownFilterable' /\ DiffButtonWired'
  BY <1>6 DEF ShownFilterable, DiffButtonWired, Shown
<1>11. QED BY <1>7, <1>8, <1>9, <1>10 DEF IInv

\* A split render ends: it takes its own pane, wherever that is.
LEMMA SplitEnds ==
  ASSUME IInv, NEW i \in Started, NEW s \in {"content", "error"},
         FinishSplit(i, s), UNCHANGED <<hash, pending, hasSplit>>
  PROVE  IInv'
<1> DEFINE By == 0 .. Len(renders)
           rs == [renders EXCEPT ![i].phase = "done", ![i].pane = Write(i, s)]
           ws == IF s = "content" THEN WireDiff(rs, i) ELSE rs
           d == LivePane(app)
<1>1. /\ renders \in Seq(Render(By)) /\ Started = 1 .. Len(renders)
      /\ i \in By /\ i # 0 /\ renders[i] \in Render(By) /\ app \in App(By)
      /\ d # 0 => d = Len(renders) /\ d \in Started
  BY Typing
<1>2. /\ rs \in Seq(Render(By)) /\ Len(rs) = Len(renders)
      /\ \A k \in Started :
           /\ rs[k].view = renders[k].view /\ rs[k].browse = renders[k].browse
           /\ rs[k].wired = renders[k].wired
           /\ k # i => rs[k] = renders[k]
      /\ rs[i].phase = "done" /\ rs[i].pane = Write(i, s)
  <2> DEFINE r == [renders[i] EXCEPT !.phase = "done", !.pane = Write(i, s)]
  <2>1. Write(i, s) \in Content(By)
    BY <1>1 DEF Write, Content
  <2>2. /\ r \in Render(By) /\ r.view = renders[i].view
        /\ r.browse = renders[i].browse /\ r.wired = renders[i].wired
        /\ r.phase = "done" /\ r.pane = Write(i, s)
    BY <1>1, <2>1 DEF Render
  <2>3. rs = [renders EXCEPT ![i] = r]
    OBVIOUS
  <2>4. QED
    <3> HIDE DEF r, rs
    <3>1. QED BY <1>1, <2>2, <2>3
<1>3. /\ ws \in Seq(Render(By)) /\ Len(ws) = Len(renders)
      /\ \A k \in Started :
           /\ ws[k].view = renders[k].view /\ ws[k].browse = renders[k].browse
           /\ \/ ws[k].wired = renders[k].wired
              \/ /\ ws[k].wired = i
                 /\ Renderer[rs[rs[k].pane.by].view].control = Of(i).control
           /\ k # i => ws[k].phase = renders[k].phase /\ ws[k].pane = renders[k].pane
      /\ ws[i].phase = "done" /\ ws[i].pane = Write(i, s)
      /\ d = i /\ s = "content" /\ Of(i).control # "none" => ws[i].wired = i
  <2>1. CASE s = "content"
    <3>1. ws = WireDiff(rs, i)
      BY <2>1
    <3>2. rs[i].pane.by = i /\ rs[i].pane.shows = s
      BY <1>2 DEF Write
    <3>3. QED
      <4> HIDE DEF rs, ws
      <4>1. /\ ws \in Seq(Render(By)) /\ Len(ws) = Len(rs)
            /\ \A k \in DOMAIN rs :
                 /\ ws[k].view = rs[k].view /\ ws[k].phase = rs[k].phase
                 /\ ws[k].browse = rs[k].browse /\ ws[k].pane = rs[k].pane
                 /\ \/ ws[k].wired = rs[k].wired
                    \/ /\ ws[k].wired = i
                       /\ Renderer[rs[rs[k].pane.by].view].control = Of(i).control
            /\ d = i /\ Of(i).control # "none" => ws[i].wired = i
        BY <1>1, <1>2, <2>1, <3>1, <3>2, WireFact
      <4>2. DOMAIN rs = Started
        BY <1>1, <1>2
      <4>3. QED BY <1>1, <1>2, <2>1, <4>1, <4>2
  <2>2. CASE s # "content"
    <3>1. ws = rs
      BY <2>2
    <3>2. QED
      <4> HIDE DEF rs, ws
      <4>1. QED BY <1>1, <1>2, <2>2, <3>1
  <2>3. QED BY <2>1, <2>2
<1>4. EnhanceLists(ws, app) /\ crumbs' = crumbs /\ Of(i).split
  BY DEF FinishSplit
<1> HIDE DEF ws, rs, d, By
<1>5. /\ renders' \in Seq(Render(By)) /\ Len(renders') = Len(renders)
      /\ \A k \in Started :
           /\ renders'[k].view = renders[k].view
           /\ renders'[k].browse = renders[k].browse
           /\ renders'[k].wired = ws[k].wired
           /\ renders'[k].pane.by = ws[k].pane.by
           /\ renders'[k].pane.shows = ws[k].pane.shows
           /\ ws[k].pane.filterable => renders'[k].pane.filterable
           /\ k # i => renders'[k].phase = renders[k].phase
      /\ renders'[i].phase = "done"
      /\ renders'[i].pane.by = i /\ renders'[i].pane.shows = s
      /\ d = i /\ s = "content" /\ Of(i).control # "none" => renders'[i].wired = i
      /\ d = i => renders'[i].pane.filterable
      /\ app' \in App(By) /\ app'.by = app.by /\ app'.split = app.split
      /\ app'.shows = app.shows
      /\ d = 0 /\ app.shows # "loading" => app'.filterable
  <2>1. Write(i, s).by = i /\ Write(i, s).shows = s /\ s # "loading"
    BY DEF Write
  <2>2. d # 0 => d \in DOMAIN ws
    BY <1>1, <1>3
  <2>3. QED BY <1>1, <1>3, <1>4, <2>1, <2>2, EnhanceFact DEF d
<1>6. TypeOK'
  <2>1. crumbs' \in 0 .. Len(renders')
    BY <1>4, <1>5 DEF IInv, TypeOK
  <2>2. QED BY <1>5, <2>1 DEF IInv, TypeOK, App, Shows, By
<1>7. LastIsCurrent' /\ LiveIsLast'
  BY <1>1, <1>5 DEF IInv, LastIsCurrent, LiveIsLast
<1>8. PanesOwned'
  <2>1. ASSUME NEW k \in Started PROVE PaneOwned(renders'[k], k)
    <3>1. PaneOwned(renders[k], k)
      BY DEF IInv, PanesOwned
    <3>2. CASE k = i
      BY <1>5, <3>1, <3>2 DEF PaneOwned
    <3>3. CASE k # i
      BY <1>3, <1>5, <3>1, <3>3 DEF PaneOwned
    <3>4. QED BY <3>2, <3>3
  <2>2. Started' = Started
    BY <1>1, <1>5 DEF Started
  <2>3. QED BY <2>1, <2>2 DEF PanesOwned
<1>9. LoadingEnds'
  BY <1>1, <1>4, <1>5 DEF IInv, LoadingEnds, Started, Of
<1>10. ShownFilterable'
  <2>1. CASE app.split
    <3>1. d = app.by /\ d \in Started
      BY <1>1, <2>1 DEF d, LivePane, IInv, LiveIsLast
    <3>2. Shown' = renders'[d].pane /\ Shown = renders[d].pane
      BY <1>5, <2>1, <3>1 DEF Shown
    <3>3. CASE d = i
      BY <1>5, <3>2, <3>3 DEF ShownFilterable
    <3>4. CASE d # i
      BY <1>3, <1>5, <3>1, <3>2, <3>4 DEF IInv, ShownFilterable
    <3>5. QED BY <3>3, <3>4
  <2>2. CASE ~app.split
    <3>1. d = 0
      BY <2>2 DEF d, LivePane
    <3>2. QED BY <1>5, <2>2, <3>1 DEF ShownFilterable, Shown
  <2>3. QED BY <2>1, <2>2
<1>11. DiffButtonWired'
  <2> DEFINE w == renders'[d].wired
  <2> SUFFICES ASSUME app'.split, Shown'.shows = "content",
                      Renderer[renders'[Shown'.by].view].control # "none"
               PROVE  LET wired == renders'[app'.by].wired
                      IN /\ wired # 0
                         /\ Renderer[renders'[wired].view].control
                              = Renderer[renders'[Shown'.by].view].control
    BY DEF DiffButtonWired, Of
  <2>1. app.split /\ d = app.by /\ d \in Started /\ app'.by = d
    BY <1>1, <1>5 DEF d, LivePane, IInv, LiveIsLast
  <2>2. Shown' = renders'[d].pane /\ Shown = renders[d].pane
    BY <1>5, <2>1 DEF Shown
  <2>3. PaneOwned(renders[d], d)
    BY <2>1 DEF IInv, PanesOwned
  <2>4. CASE d = i
    <3>1. Shown'.by = i /\ s = "content" /\ Of(i).control # "none"
      BY <1>5, <2>1, <2>2, <2>4 DEF Of
    <3>2. w = i
      BY <1>5, <2>4, <3>1
    <3>3. QED BY <1>1, <2>1, <3>1, <3>2
  <2>5. CASE d # i
    <3>1. Shown.by = d /\ Shown'.by = d /\ Shown.shows = "content"
      BY <1>3, <1>5, <2>1, <2>2, <2>3, <2>5 DEF PaneOwned
    <3>2. /\ renders'[d].view = renders[d].view
          /\ Renderer[renders[d].view].control # "none"
      BY <1>5, <2>1, <3>1
    <3>3. /\ renders[d].wired # 0
          /\ Of(renders[d].wired).control = Renderer[renders[d].view].control
      BY <2>1, <3>1, <3>2 DEF IInv, DiffButtonWired
    <3>4. renders[d].wired \in Started
      <4>1. renders[d] \in Render(By)
        BY <1>1, <2>1
      <4>2. renders[d].wired \in By
        BY <4>1 DEF Render
      <4>3. QED BY <1>1, <3>3, <4>2 DEF By
    <3>5. CASE w = renders[d].wired
      BY <1>5, <2>1, <3>1, <3>2, <3>3, <3>4, <3>5 DEF Of
    <3>6. CASE /\ w = i
               /\ Renderer[rs[rs[d].pane.by].view].control = Of(i).control
      <4>1. rs[d].pane.by = d /\ rs[d].view = renders[d].view
        BY <1>2, <2>1, <2>3, <2>5 DEF PaneOwned
      <4>2. QED BY <1>1, <1>5, <2>1, <3>1, <3>2, <3>6, <4>1 DEF Of
    <3>7. QED BY <1>3, <1>5, <2>1, <3>5, <3>6
  <2>6. QED BY <2>4, <2>5
<1>12. QED BY <1>6, <1>7, <1>8, <1>9, <1>10, <1>11 DEF IInv

-----------------------------------------------------------------------------
\* A render starts: the page is its own, loading or, if it need not wait,
\* complete.
LEMMA NavigateInv ==
  ASSUME IInv, NavigateRoute, UNCHANGED hash, pending' \in Nat
  PROVE  IInv'
<1> DEFINE n == Len(renders) + 1
           r == Renderer[hash]
           By == 0 .. n
           new == [view |-> hash,
                   phase |-> IF r.waits THEN "waits" ELSE "done",
                   pane |-> Write(n, IF r.split THEN "loading" ELSE "nothing"),
                   browse |-> IF r.split THEN "loading" ELSE "none",
                   wired |-> 0]
           rs == Append(renders, new)
<1>1. /\ renders \in Seq(Render(0 .. Len(renders))) /\ Started = 1 .. Len(renders)
      /\ Len(renders) \in Nat /\ n \in By /\ hash \in View
  BY Typing DEF IInv, TypeOK
<1>2. Sane(r)
  BY <1>1, RendererFact
<1>3. /\ new \in Render(By) /\ new.view = hash /\ new.wired = 0
      /\ new.phase = IF r.waits THEN "waits" ELSE "done"
      /\ new.pane.by = n
      /\ new.pane.shows = IF r.split THEN "loading" ELSE "nothing"
      /\ new.browse = IF r.split THEN "loading" ELSE "none"
  <2>1. Write(n, IF r.split THEN "loading" ELSE "nothing") \in Content(By)
    BY <1>1 DEF Write, Content
  <2>2. QED BY <1>1, <2>1 DEF Render, Write
<1>4. /\ rs \in Seq(Render(By)) /\ Len(rs) = n /\ rs[n] = new
      /\ \A k \in Started : rs[k] = renders[k]
  <2> HIDE DEF new
  <2>1. renders \in Seq(Render(By))
    BY <1>1, WiderRender
  <2>2. QED BY <1>1, <1>3, <2>1
<1>5. /\ hasSplit' = r.split /\ crumbs' = IF r.crumbs = "first" THEN n ELSE crumbs
      /\ IF r.waits
         THEN /\ renders' = rs
              /\ app' = IF r.split THEN MountSplitView(n) ELSE AppWrite(n, "loading")
         ELSE EnhanceLists(rs, AppWrite(n, "content"))
  BY DEF NavigateRoute
<1> HIDE DEF rs, new, By
<1>6. /\ renders' = rs /\ app' \in App(By)
      /\ app'.by = n /\ (app'.split <=> r.split)
      /\ app'.shows = IF r.waits /\ ~r.split THEN "loading" ELSE "content"
      /\ ~r.waits => app'.filterable
  <2>1. CASE r.waits /\ r.split
    BY <1>1, <1>5, <2>1 DEF MountSplitView, AppWrite, App, Shows, By
  <2>2. CASE r.waits /\ ~r.split
    <3>1. renders' = rs /\ app' = AppWrite(n, "loading")
      BY <1>5, <2>2
    <3>2. /\ app' \in App(By) /\ app'.by = n /\ app'.split = FALSE
          /\ app'.shows = "loading"
      BY <1>1, <3>1 DEF AppWrite, App, Shows, By
    <3>3. QED BY <2>2, <3>1, <3>2
  <2>3. CASE ~r.waits
    <3> DEFINE a == AppWrite(n, "content")
    <3>1. /\ a \in App(By) /\ a.by = n /\ a.split = FALSE /\ a.shows = "content"
          /\ LivePane(a) = 0
      BY <1>1 DEF AppWrite, App, Shows, LivePane, By
    <3>2. r.split = FALSE
      BY <1>2, <2>3 DEF Sane
    <3>3. EnhanceLists(rs, a)
      BY <1>5, <2>3
    <3>4. renders' = rs
      BY <3>1, <3>3 DEF EnhanceLists
    <3> HIDE DEF a
    <3>5. QED BY <1>4, <2>3, <3>1, <3>2, <3>3, <3>4, EnhanceFact
  <2>4. QED BY <1>2, <2>1, <2>2, <2>3 DEF Sane
<1>7. Len(renders') = n /\ Started' = 1 .. n /\ n > 0
  BY <1>1, <1>4, <1>6 DEF Started
<1>8. TypeOK'
  <2>1. crumbs' \in By
    BY <1>1, <1>5 DEF IInv, TypeOK, By
  <2>2. hasSplit' \in BOOLEAN
    BY <1>2, <1>5, Zenon DEF Sane
  <2>3. hash' \in View
    BY <1>1
  <2>4. QED BY <1>4, <1>6, <1>7, <2>1, <2>2, <2>3 DEF TypeOK, App, Shows, By
<1>9. LastIsCurrent' /\ LiveIsLast'
  BY <1>3, <1>4, <1>6, <1>7 DEF LastIsCurrent, LiveIsLast
<1>10. PanesOwned'
  <2>1. \A k \in Started : PaneOwned(renders'[k], k)
    BY <1>4, <1>6 DEF IInv, PanesOwned
  <2>2. PaneOwned(renders'[n], n)
    BY <1>2, <1>3, <1>4, <1>6 DEF PaneOwned, Sane
  <2>3. QED BY <1>1, <1>7, <2>1, <2>2 DEF PanesOwned
<1>11. LoadingEnds'
  BY <1>3, <1>4, <1>6, <1>7 DEF LoadingEnds
<1>12. ShownFilterable' /\ DiffButtonWired'
  <2>1. CASE r.split
    BY <1>3, <1>4, <1>6, <2>1 DEF ShownFilterable, DiffButtonWired, Shown
  <2>2. CASE ~r.split
    BY <1>2, <1>6, <2>2 DEF ShownFilterable, DiffButtonWired, Shown, Sane
  <2>3. QED BY <2>1, <2>2
<1>13. QED BY <1>8, <1>9, <1>10, <1>11, <1>12 DEF IInv

\* A step that writes to no pane and ends no render.
LEMMA QuietInv ==
  ASSUME IInv, UNCHANGED <<hash, pending, app, hasSplit>>,
         crumbs' \in 0 .. Len(renders),
         renders' \in Seq(Render(0 .. Len(renders))),
         Len(renders') = Len(renders),
         \A k \in Started :
           /\ renders'[k].view = renders[k].view
           /\ renders'[k].pane = renders[k].pane
           /\ renders'[k].wired = renders[k].wired
           /\ renders'[k].browse \in {renders[k].browse, "filled"}
           /\ renders'[k].phase = "done" => renders[k].phase = "done"
  PROVE  IInv'
<1>1. Started = 1 .. Len(renders) /\ Started' = Started /\ Len(renders) \in Nat
  BY Typing DEF Started
<1>2. TypeOK'
  BY DEF IInv, TypeOK
<1>3. LastIsCurrent' /\ LiveIsLast'
  BY <1>1 DEF IInv, LastIsCurrent, LiveIsLast
<1>4. PanesOwned'
  BY <1>1 DEF IInv, PanesOwned, PaneOwned
<1>5. LoadingEnds'
  BY <1>1 DEF IInv, LoadingEnds
<1>6. app.split => app.by \in Started /\ renders[app.by].pane.by = app.by
  BY <1>1 DEF IInv, LiveIsLast, PanesOwned, PaneOwned
<1>7. ShownFilterable'
  BY <1>1, <1>6 DEF IInv, ShownFilterable, Shown
<1>8. DiffButtonWired'
  <2>1. \A k \in Started : renders[k].wired \in Started \cup {0}
    <3>1. \A k \in Started : renders[k] \in Render(0 .. Len(renders))
      BY <1>1, Typing
    <3>2. QED BY <1>1, <3>1 DEF Render
  <2>2. /\ UNCHANGED app
        /\ \A k \in Started : /\ renders'[k].view = renders[k].view
                              /\ renders'[k].pane = renders[k].pane
                              /\ renders'[k].wired = renders[k].wired
    OBVIOUS
  <2>3. app.split => Shown' = Shown /\ Shown.by = app.by
    BY <1>6, <2>2 DEF Shown
  <2>4. DiffButtonWired
    BY DEF IInv
  <2>5. QED BY <1>6, <2>1, <2>2, <2>3, <2>4 DEF DiffButtonWired, Of
<1>9. QED BY <1>2, <1>3, <1>4, <1>5, <1>7, <1>8 DEF IInv

\* Every action keeps the inductive invariant.
LEMMA NextInv == IInv /\ [Next]_vars => IInv'
<1> SUFFICES ASSUME IInv, [Next]_vars PROVE IInv'
  OBVIOUS
<1>1. ASSUME NEW v \in View, FollowLink(v) PROVE IInv'
  <2>1. /\ UNCHANGED <<renders, app, hasSplit, crumbs>>
        /\ hash' \in View /\ pending' = pending + 1 /\ pending \in Nat
    BY <1>1 DEF FollowLink, IInv, TypeOK
  <2>2. TypeOK'
    BY <2>1 DEF IInv, TypeOK
  <2>3. LastIsCurrent'
    BY <2>1 DEF LastIsCurrent
  <2>4. /\ LiveIsLast' /\ PanesOwned' /\ LoadingEnds'
        /\ ShownFilterable' /\ DiffButtonWired'
    BY <2>1 DEF IInv, LiveIsLast, PanesOwned, LoadingEnds, ShownFilterable,
                DiffButtonWired, Shown, Started, Of
  <2>5. QED BY <2>2, <2>3, <2>4 DEF IInv
<1>2. CASE Dispatch
  BY <1>2, NavigateInv DEF Dispatch, IInv, TypeOK
<1>3. CASE RefreshCurrentView
  BY <1>3, NavigateInv DEF RefreshCurrentView, IInv, TypeOK
<1>4. ASSUME NEW i \in Started, FindDisk(i) PROVE IInv'
  \* It changes a phase, and not to "done".
  <2> DEFINE By == 0 .. Len(renders)
  <2>1. /\ renders \in Seq(Render(By)) /\ Started = 1 .. Len(renders)
        /\ i \in By /\ renders[i] \in Render(By)
    BY Typing
  <2>2. /\ renders' \in Seq(Render(By)) /\ Len(renders') = Len(renders)
        /\ \A k \in Started :
             /\ renders'[k].view = renders[k].view
             /\ renders'[k].browse = renders[k].browse
             /\ renders'[k].pane = renders[k].pane
             /\ renders'[k].wired = renders[k].wired
             /\ renders'[k].phase = "done" => renders[k].phase = "done"
    BY <1>4, <2>1 DEF FindDisk, Render
  <2>3. UNCHANGED <<hash, pending, app, hasSplit>> /\ crumbs' \in By
    BY <1>4, <2>1 DEF FindDisk
  <2>4. QED BY <2>1, <2>2, <2>3, QuietInv
<1>5. ASSUME NEW i \in Started, Finish(i) PROVE IInv'
  BY <1>5, PlainEnds, SplitEnds DEF Finish
<1>6. ASSUME NEW i \in Started, Fail(i) PROVE IInv'
  BY <1>6, PlainEnds, SplitEnds DEF Fail
<1>7. ASSUME NEW i \in Started, FillBrowsePane(i) PROVE IInv'
  <2> DEFINE By == 0 .. Len(renders)
  <2>1. /\ renders \in Seq(Render(By)) /\ Started = 1 .. Len(renders)
        /\ i \in By /\ renders[i] \in Render(By)
    BY Typing
  <2>2. /\ renders' \in Seq(Render(By)) /\ Len(renders') = Len(renders)
        /\ \A k \in Started :
             /\ renders'[k].view = renders[k].view
             /\ renders'[k].browse \in {renders[k].browse, "filled"}
             /\ renders'[k].pane = renders[k].pane
             /\ renders'[k].wired = renders[k].wired
             /\ renders'[k].phase = renders[k].phase
    BY <1>7, <2>1 DEF FillBrowsePane, Render
  <2>3. UNCHANGED <<hash, pending, app, hasSplit, crumbs>>
    BY <1>7 DEF FillBrowsePane
  <2>4. crumbs' \in By
    BY <2>3 DEF IInv, TypeOK
  <2>5. QED BY <2>1, <2>2, <2>3, <2>4, QuietInv
<1>8. CASE UNCHANGED vars
  BY <1>8
  DEF vars, IInv, TypeOK, LastIsCurrent, LiveIsLast, PanesOwned, LoadingEnds,
      ShownFilterable, DiffButtonWired, Shown, Started, Of
<1>9. QED BY <1>1, <1>2, <1>3, <1>4, <1>5, <1>6, <1>7, <1>8 DEF Next

LEMMA Inductive == Spec => []IInv
  BY InitInv, NextInv, PTL DEF Spec

-----------------------------------------------------------------------------
\* What a page of split views alone keeps: the breadcrumbs and the layout of the
\* render started last.
SplitLayout ==
  (\A k \in Started : Of(k).split) =>
    /\ crumbs = Len(renders)
    /\ Len(renders) > 0 => app.split /\ hasSplit

\* A render that ends leaves what the others are renders of.
LEMMA EndKeepsViews ==
  ASSUME IInv, NEW i \in Started, NEW s \in {"content", "error"},
         FinishPlain(i, s) \/ FinishSplit(i, s)
  PROVE  /\ Len(renders') = Len(renders)
         /\ \A k \in Started : renders'[k].view = renders[k].view
         /\ FinishSplit(i, s) => app'.split = app.split
<1> DEFINE By == 0 .. Len(renders)
<1>1. /\ renders \in Seq(Render(By)) /\ Started = 1 .. Len(renders)
      /\ i \in By /\ i # 0 /\ renders[i] \in Render(By) /\ app \in App(By)
      /\ LivePane(app) # 0 => LivePane(app) \in Started
  BY Typing
<1>2. CASE FinishPlain(i, s)
  <2>1. renders' = [renders EXCEPT ![i].phase = "done"]
    BY <1>2 DEF FinishPlain, EnhanceLists, LivePane, AppWrite
  <2>2. QED BY <1>1, <1>2, <2>1 DEF Render, FinishPlain, FinishSplit
<1>3. CASE FinishSplit(i, s)
  <2> DEFINE r == [renders[i] EXCEPT !.phase = "done", !.pane = Write(i, s)]
             rs == [renders EXCEPT ![i].phase = "done", ![i].pane = Write(i, s)]
             ws == IF s = "content" THEN WireDiff(rs, i) ELSE rs
  <2>1. r \in Render(By) /\ r.view = renders[i].view
    <3>1. Write(i, s) \in Content(By)
      BY <1>1 DEF Write, Content
    <3>2. QED BY <1>1, <3>1 DEF Render
  <2>2. /\ rs \in Seq(Render(By)) /\ Len(rs) = Len(renders)
        /\ \A k \in Started : rs[k].view = renders[k].view
    <3>1. rs = [renders EXCEPT ![i] = r]
      OBVIOUS
    <3>2. QED
      <4> HIDE DEF r, rs
      <4>1. QED BY <1>1, <2>1, <3>1
  <2>3. EnhanceLists(ws, app)
    BY <1>3 DEF FinishSplit
  <2> HIDE DEF rs
  <2>4. /\ ws \in Seq(Render(By)) /\ Len(ws) = Len(renders)
        /\ \A k \in Started : ws[k].view = renders[k].view
    BY <1>1, <2>2, WireFact
  <2> HIDE DEF ws
  <2>5. QED BY <1>1, <2>3, <2>4, EnhanceFact
<1>4. QED BY <1>2, <1>3

LEMMA LayoutInit == Init => SplitLayout
  BY DEF Init, SplitLayout

LEMMA LayoutNext == IInv /\ SplitLayout /\ [Next]_vars => SplitLayout'
<1> SUFFICES ASSUME IInv, SplitLayout, [Next]_vars PROVE SplitLayout'
  OBVIOUS
<1>1. Started = 1 .. Len(renders) /\ renders \in Seq(Render(0 .. Len(renders)))
  BY Typing
<1>2. ASSUME Len(renders') = Len(renders),
             \A k \in Started : renders'[k].view = renders[k].view,
             \/ UNCHANGED <<crumbs, hasSplit>> /\ app'.split = app.split
             \/ \E i \in Started : ~Of(i).split
      PROVE  SplitLayout'
  BY <1>1, <1>2 DEF SplitLayout, Started, Of
<1>3. ASSUME NavigateRoute, UNCHANGED hash PROVE SplitLayout'
  <2> DEFINE r == Renderer[hash]
             n == Len(renders) + 1
  <2> SUFFICES ASSUME \A k \in Started' : Of(k)'.split
               PROVE  crumbs' = Len(renders') /\ app'.split /\ hasSplit'
    BY DEF SplitLayout
  <2>1. Sane(r)
    BY RendererFact DEF IInv, TypeOK
  <2>2. \A k \in Started' : Renderer[renders'[k].view].split
    BY DEF Of
  <2>3. CASE r.split
    <3>1. crumbs' = n /\ hasSplit' /\ app' = MountSplitView(n)
      BY <1>3, <2>1, <2>3 DEF NavigateRoute, Sane
    <3>2. app'.split
      BY <3>1 DEF MountSplitView, AppWrite
    <3>3. \E x : renders' = Append(renders, x)
      BY <1>3, <2>1, <2>3 DEF NavigateRoute, Sane
    <3>4. Len(renders') = n
      BY <1>1, <3>3
    <3>5. QED BY <3>1, <3>2, <3>4
  <2>4. CASE ~r.split
    <3> DEFINE new == [view |-> hash,
                       phase |-> IF r.waits THEN "waits" ELSE "done",
                       pane |-> Write(n, IF r.split THEN "loading" ELSE "nothing"),
                       browse |-> IF r.split THEN "loading" ELSE "none",
                       wired |-> 0]
    <3>1. IF r.waits THEN renders' = Append(renders, new)
          ELSE EnhanceLists(Append(renders, new), AppWrite(n, "content"))
      BY <1>3 DEF NavigateRoute
    <3>2. renders' = Append(renders, new) /\ new.view = hash
      BY <3>1 DEF EnhanceLists, LivePane, AppWrite
    <3> HIDE DEF new
    <3>3. n \in Started' /\ renders'[n].view = hash
      BY <1>1, <3>2 DEF Started
    <3>4. QED BY <2>2, <2>4, <3>3
  <2>5. QED BY <2>3, <2>4
<1>4. ASSUME NEW v \in View, FollowLink(v) PROVE SplitLayout'
  BY <1>2, <1>4 DEF FollowLink
<1>5. CASE Dispatch
  BY <1>3, <1>5 DEF Dispatch
<1>6. CASE RefreshCurrentView
  BY <1>3, <1>6 DEF RefreshCurrentView
<1>7. ASSUME NEW i \in Started, FindDisk(i) PROVE SplitLayout'
  <2>1. Sane(Of(i))
    <3>1. renders[i] \in Render(0 .. Len(renders))
      BY <1>1
    <3>2. QED BY <3>1, RendererFact DEF Of, Render
  <2>2. ~Of(i).split
    BY <1>7, <2>1 DEF FindDisk, Sane
  <2>3. /\ Len(renders') = Len(renders)
        /\ \A k \in Started : renders'[k].view = renders[k].view
    BY <1>1, <1>7 DEF FindDisk, Render
  <2>4. QED BY <1>2, <2>2, <2>3
<1>8. ASSUME NEW i \in Started, Finish(i) \/ Fail(i) PROVE SplitLayout'
  <2>1. PICK s \in {"content", "error"} : FinishPlain(i, s) \/ FinishSplit(i, s)
    BY <1>8 DEF Finish, Fail
  <2>2. UNCHANGED hasSplit
    BY <1>8 DEF Finish, Fail
  <2>3. \/ ~Of(i).split
        \/ FinishSplit(i, s) /\ crumbs' = crumbs
    BY <2>1 DEF FinishPlain, FinishSplit
  <2>4. QED BY <1>2, <2>1, <2>2, <2>3, EndKeepsViews
<1>9. ASSUME NEW i \in Started, FillBrowsePane(i) PROVE SplitLayout'
  <2>1. /\ Len(renders') = Len(renders)
        /\ \A k \in Started : renders'[k].view = renders[k].view
    BY <1>1, <1>9 DEF FillBrowsePane, Render
  <2>2. QED BY <1>2, <1>9, <2>1 DEF FillBrowsePane
<1>10. CASE UNCHANGED vars
  BY <1>2, <1>10 DEF vars
<1>11. QED BY <1>4, <1>5, <1>6, <1>7, <1>8, <1>9, <1>10 DEF Next

LEMMA LayoutInductive == Spec => []SplitLayout
  BY LayoutInit, LayoutNext, Inductive, PTL DEF Spec

-----------------------------------------------------------------------------
\* The variables keep their types.
THEOREM TypeCorrect == Spec => []TypeOK
  BY Inductive, PTL DEF IInv

\* However many renders are in flight, a split view on the page is the one of
\* the address once the events are handled, and so is its detail pane.
THEOREM SplitCurrent == Spec => []SplitNeverStale
<1>1. IInv => SplitNeverStale
  <2> SUFFICES ASSUME IInv, pending = 0, app.split
               PROVE  /\ renders[app.by].view = hash
                      /\ renders[Shown.by].view = hash
    BY DEF SplitNeverStale
  <2>1. app.by = Len(renders) /\ app.by \in Started /\ renders[app.by].view = hash
    BY Typing DEF IInv, LiveIsLast, LastIsCurrent
  <2>2. Shown.by = app.by
    BY <2>1 DEF Shown, IInv, PanesOwned, PaneOwned
  <2>3. QED BY <2>1, <2>2
<1>2. QED BY <1>1, Inductive, PTL

\* The diff controls on the page have a handler, of a view with such controls.
THEOREM DiffWired == Spec => []DiffButtonWired
  BY Inductive, PTL DEF IInv

\* Nothing on a page at rest says "Loading...".
THEOREM LoadingGone == Spec => []NoStuckLoading
<1>1. IInv => NoStuckLoading
  <2> SUFFICES ASSUME IInv, Settled
               PROVE  /\ Shown.shows # "loading"
                      /\ app.split => renders[app.by].browse = "filled"
    BY DEF NoStuckLoading
  <2>1. CASE app.split
    <3>1. app.by \in Started /\ Renderer[renders[app.by].view].split
      BY <2>1, Typing DEF IInv, LiveIsLast
    <3>2. PaneOwned(renders[app.by], app.by)
      BY <3>1 DEF IInv, PanesOwned
    <3>3. QED BY <2>1, <3>1, <3>2 DEF PaneOwned, Settled, Shown
  <2>2. CASE ~app.split
    BY <2>2 DEF IInv, LoadingEnds, Settled, Shown
  <2>3. QED BY <2>1, <2>2
<1>2. QED BY <1>1, Inductive, PTL

\* The content left on a page at rest has its list filters.
THEOREM Filterable == Spec => []ListsFilterable
<1>1. IInv => ListsFilterable
  BY DEF IInv, ShownFilterable, ListsFilterable
<1>2. QED BY <1>1, Inductive, PTL

\* A page that was given split views alone comes to rest on the one of the
\* address, with its breadcrumbs and in its layout.
THEOREM SplitSettles == Spec => []SplitViewsSettle
<1>1. IInv /\ SplitLayout => SplitViewsSettle
  <2> SUFFICES ASSUME IInv, SplitLayout, \A k \in Started : Of(k).split, Settled
               PROVE  /\ renders[Shown.by].view = hash
                      /\ renders[crumbs].view = hash
                      /\ hasSplit = app.split
    BY DEF SplitViewsSettle, SettledShowsCurrentView
  <2>1. Len(renders) > 0 /\ renders[Len(renders)].view = hash
    BY DEF IInv, LastIsCurrent, Settled
  <2>2. crumbs = Len(renders) /\ app.split /\ hasSplit
    BY <2>1 DEF SplitLayout
  <2>3. app.by = Len(renders) /\ app.by \in Started
    BY <2>2, Typing DEF IInv, LiveIsLast
  <2>4. Shown.by = app.by
    BY <2>2, <2>3 DEF Shown, IInv, PanesOwned, PaneOwned
  <2>5. hasSplit \in BOOLEAN /\ app.split \in BOOLEAN
    BY DEF IInv, TypeOK
  <2>6. QED BY <2>1, <2>2, <2>3, <2>4, <2>5
<1>2. QED BY <1>1, Inductive, LayoutInductive, PTL
=============================================================================
