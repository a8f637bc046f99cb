---------------------------- MODULE SidebarProofs ----------------------------
(* Sidebar proved for every tree of directories, any number of jobs under   *)
(* way and any number of clicks, views and F5s.                             *)
EXTENDS Sidebar, TLAPS, NaturalsInduction, WellFoundedInduction

Jobs == [Job -> {Idle} \cup SidebarJob \cup FillJob]

\* A job that waits for the listings marks what was the address when it was
\* asked for, which is the address of now as long as there is only one.
OneWaits == ~raced => \A j, k \in Waiting(jobs) : j = k

MarksAddress ==
  ~raced /\ rendering = 0 =>
    /\ \A j \in Waiting(jobs) : jobs[j].marks = route
    /\ Waiting(jobs) = {} /\ shown # "error" => marked = route

\* With no rebuild to come the boxes are those of the flags already.
BoxesFit ==
  Waiting(jobs) = {} /\ shown = "tree" =>
    /\ box[Root] # "absent" <=> files /\ open[Root]
    /\ \A d \in Dir : box[d] # "absent" <=> box[Parent[d]] = "rows" /\ open[d]

\* A job writes to boxes of the page or to none.
LiveInPage == \A j \in Filling(jobs) : jobs[j].live => box[jobs[j].of] # "absent"

\* A loop goes on to longer paths, and passes no open directory by that was
\* open when it began.
RestsAfter ==
  \A j \in Filling(jobs) :
    IF jobs[j].of = Root THEN jobs[j].rest = {}
    ELSE \A d \in jobs[j].rest : Order[d] > Order[jobs[j].of]

Covered ==
  \A j \in Filling(jobs) : jobs[j].of # Root =>
    \A d \in Dir : open[d] /\ d \notin late /\ Order[d] > Order[jobs[j].of]
                     => d \in jobs[j].rest

\* A box on "Loading..." has a job that is at it or will come to it.
Awaited(b) ==
  \E j \in Filling(jobs) : (jobs[j].of = b /\ jobs[j].live) \/ b \in jobs[j].rest

LoadingAwaited ==
  /\ box[Root] = "loading" => Awaited(Root)
  /\ \A d \in Dir : box[d] = "loading" /\ d \notin late => Awaited(d)

IInv ==
  /\ TypeOK
  /\ OneWaits /\ MarksAddress
  /\ BoxesFit /\ LiveInPage
  /\ RestsAfter /\ Covered /\ LoadingAwaited

-----------------------------------------------------------------------------
\* What is in a box: what is listed in it and in what is in it, nothing else,
\* and all of it with longer paths.
LEMMA BelowFact ==
  ASSUME NEW b \in Box
  PROVE  /\ Below(b) \subseteq Dir
         /\ \A c \in Dir : c \in Below(b) <=> Parent[c] \in Below(b) \cup {b}
         /\ b \in Dir => \A c \in Below(b) : Order[c] > Order[b]
         /\ b \notin Below(b) /\ Root \notin Below(b)
<1> DEFINE Closed(S) == \A c \in Dir : Parent[c] \in S \cup {b} => c \in S
<1>1. Below(b) \subseteq Dir
  BY DEF Below
<1>2. \A S \in SUBSET Dir : Closed(S) => Below(b) \subseteq S
  BY DEF Below
<1>3. Closed(Below(b))
  <2> SUFFICES ASSUME NEW c \in Dir, Parent[c] \in Below(b) \cup {b},
                      NEW S \in SUBSET Dir, Closed(S)
               PROVE  c \in S
    BY DEF Below
  <2>1. Below(b) \subseteq S
    BY <1>2
  <2>2. QED BY <2>1
<1>4. ASSUME NEW c \in Dir, c \in Below(b) PROVE Parent[c] \in Below(b) \cup {b}
  <2> DEFINE S == {d \in Dir : Parent[d] \in Below(b) \cup {b}}
  <2>1. Closed(S)
    BY <1>1, <1>3
  <2>2. S \subseteq Dir
    OBVIOUS
  <2> HIDE DEF S, Closed
  <2>3. c \in S
    BY <1>2, <1>4, <2>1, <2>2
  <2>4. QED BY <2>3 DEF S
<1>5. ASSUME b \in Dir PROVE \A c \in Below(b) : Order[c] > Order[b]
  <2> DEFINE S == {d \in Dir : Order[d] > Order[b]}
  <2>1. ASSUME NEW c \in Dir, Parent[c] \in S \cup {b} PROVE c \in S
    <3>1. Parent[c] \in Dir /\ Parent[c] # Root
      BY <1>5, <2>1, TreeAssumption
    <3>2. Order[Parent[c]] < Order[c] /\ Order[Parent[c]] >= Order[b]
      BY <1>5, <2>1, <3>1, OrderAssumption
    <3>3. QED BY <1>5, <3>1, <3>2, OrderAssumption
  <2>2. S \subseteq Dir /\ Closed(S)
    BY <2>1
  <2> HIDE DEF S, Closed
  <2>3. Below(b) \subseteq S
    BY <1>2, <2>2
  <2>4. QED BY <2>3 DEF S
<1>6. Root \notin Below(b)
  BY <1>1, TreeAssumption
<1>7. b \notin Below(b)
  BY <1>5, <1>6, OrderAssumption DEF Box
<1> HIDE DEF Closed
<1>8. QED
  <2>1. \A c \in Dir : Parent[c] \in Below(b) \cup {b} => c \in Below(b)
    BY <1>3 DEF Closed
  <2>2. QED BY <1>1, <1>4, <1>5, <1>6, <1>7, <2>1

\* What a job is, by where it waits.
LEMMA JobFact ==
  ASSUME NEW js \in Jobs, NEW j \in Job
  PROVE  /\ js[j] = Idle \/ js[j] \in SidebarJob \/ js[j] \in FillJob
         /\ js[j] = Idle => j \notin Filling(js) /\ j \notin Waiting(js)
         /\ j \in Waiting(js) <=> js[j] \in SidebarJob
         /\ j \in Filling(js) <=> js[j] \in FillJob
         /\ j \in Filling(js) => /\ js[j].of \in Box /\ js[j].rest \subseteq Dir
                                 /\ js[j].live \in BOOLEAN /\ js[j].asks \in BOOLEAN
                                 /\ j \notin Waiting(js)
<1>1. js[j] = Idle \/ js[j] \in SidebarJob \/ js[j] \in FillJob
  BY DEF Jobs
<1>2. CASE js[j] = Idle
  BY <1>2 DEF Idle, SidebarJob, FillJob, Filling, Waiting
<1>3. CASE js[j] \in SidebarJob
  BY <1>3 DEF Idle, SidebarJob, FillJob, Filling, Waiting
<1>4. CASE js[j] \in FillJob
  BY <1>4 DEF Idle, SidebarJob, FillJob, Filling, Waiting
<1>5. QED BY <1>1, <1>2, <1>3, <1>4

\* Detaching changes nothing of a job but that it is live, and only where its
\* box has left the page.
LEMMA DetachFact ==
  ASSUME NEW js \in Jobs, NEW bs
  PROVE  /\ Detach(js, bs) \in Jobs
         /\ Filling(Detach(js, bs)) = Filling(js)
         /\ Waiting(Detach(js, bs)) = Waiting(js)
         /\ \A j \in Job : j \notin Filling(js) => Detach(js, bs)[j] = js[j]
         /\ \A j \in Filling(js) :
              /\ Detach(js, bs)[j].of = js[j].of /\ Detach(js, bs)[j].rest = js[j].rest
              /\ Detach(js, bs)[j].live = (js[j].live /\ js[j].of \notin bs)
<1> DEFINE ds == Detach(js, bs)
<1>1. ASSUME NEW j \in Job
      PROVE  /\ ds[j] \in {Idle} \cup SidebarJob \cup FillJob
             /\ ds[j].at = js[j].at
             /\ j \notin Filling(js) => ds[j] = js[j]
             /\ j \in Filling(js) => /\ ds[j].of = js[j].of /\ ds[j].rest = js[j].rest
                                     /\ ds[j].live = (js[j].live /\ js[j].of \notin bs)
  <2>1. ds[j] = IF j \in Filling(js) /\ js[j].of \in bs
                THEN [js[j] EXCEPT !.live = FALSE] ELSE js[j]
    BY DEF Detach
  <2> HIDE DEF ds
  <2>2. CASE j \in Filling(js) /\ js[j].of \in bs
    <3>1. js[j] \in FillJob
      BY <2>2, JobFact
    <3>2. ds[j] = [js[j] EXCEPT !.live = FALSE]
      BY <2>1, <2>2
    <3>3. /\ ds[j] \in FillJob /\ ds[j].at = js[j].at /\ ds[j].of = js[j].of
          /\ ds[j].rest = js[j].rest /\ ds[j].live = FALSE
      BY <3>1, <3>2 DEF FillJob
    <3>4. QED BY <2>2, <3>3
  <2>3. CASE ~(j \in Filling(js) /\ js[j].of \in bs)
    <3>1. ds[j] = js[j]
      BY <2>1, <2>3
    <3>2. j \in Filling(js) => js[j].live \in BOOLEAN /\ js[j].of \notin bs
      BY <2>3, JobFact
    <3>3. QED BY <3>1, <3>2, JobFact
  <2>4. QED BY <2>2, <2>3
<1>2. ds \in Jobs
  <2>1. ds = [j \in Job |-> ds[j]]
    BY DEF Detach
  <2> HIDE DEF ds
  <2>2. QED BY <1>1, <2>1 DEF Jobs
<1> HIDE DEF ds
<1>3. Filling(ds) = Filling(js) /\ Waiting(ds) = Waiting(js)
  BY <1>1 DEF Filling, Waiting
<1>4. QED BY <1>1, <1>2, <1>3 DEF ds, Filling

\* A new job takes the place of none.
LEMMA SpawnFact ==
  ASSUME NEW js \in Jobs, NEW new \in SidebarJob \cup FillJob, Spawn(js, new)
  PROVE  \E n \in Job : /\ js[n] = Idle /\ jobs' = [js EXCEPT ![n] = new]
                        /\ jobs' \in Jobs
                        /\ n \notin Filling(js) /\ n \notin Waiting(js)
<1> DEFINE n == CHOOSE j \in Job : js[j] = Idle
<1>1. n \in Job /\ js[n] = Idle /\ jobs' = [js EXCEPT ![n] = new]
  BY DEF Spawn
<1> HIDE DEF n
<1>2. jobs' \in Jobs
  BY <1>1 DEF Jobs
<1>3. QED BY <1>1, <1>2, JobFact

-----------------------------------------------------------------------------
\* A new sidebar: no job from before it writes to it, and its only box has a
\* job of its own.
LEMMA RebuildKeeps ==
  ASSUME TypeOK, RestsAfter, Covered,
         files' \in BOOLEAN, open' \in [Box -> BOOLEAN],
         NEW js \in Jobs, Filling(js) = Filling(jobs),
         \A j \in Filling(js) : js[j] = jobs[j],
         NEW what \in {"tree", "partial", "error"}, NEW mark \in View,
         Rebuild(js, what, mark)
  PROVE  /\ shown' = what /\ marked' = mark
         /\ box' \in [Box -> {"absent", "loading", "rows", "bare"}]
         /\ jobs' \in Jobs /\ late' \subseteq Dir
         /\ Waiting(jobs') = Waiting(js)
         /\ \A j \in Waiting(js) : jobs'[j] = js[j]
         /\ BoxesFit' /\ LiveInPage' /\ RestsAfter' /\ Covered' /\ LoadingAwaited'
<1> DEFINE can == what = "tree" /\ files' /\ open'[Root]
           old == Detach(js, Box)
           new == [at |-> "fill", of |-> Root, rest |-> {}, live |-> TRUE, asks |-> files']
<1>1. /\ shown' = what /\ marked' = mark
      /\ box' = [b \in Box |-> IF b = Root /\ can THEN "loading" ELSE "absent"]
      /\ IF can THEN Spawn(old, new) ELSE jobs' = old
      /\ late' = IF Filling(js) = {} THEN {}
                 ELSE {d \in Dir : d \in late \/ (open'[d] /\ ~open[d])}
  BY DEF Rebuild, Fill
<1>2. /\ old \in Jobs /\ Filling(old) = Filling(js) /\ Waiting(old) = Waiting(js)
      /\ \A j \in Job : j \notin Filling(js) => old[j] = js[j]
      /\ \A j \in Filling(js) : /\ old[j].of = jobs[j].of /\ old[j].rest = jobs[j].rest
                                /\ old[j].live = FALSE
  <2>1. \A j \in Filling(js) : j \in Job /\ js[j].of \in Box
    BY JobFact DEF Filling
  <2>2. /\ old \in Jobs /\ Filling(old) = Filling(js) /\ Waiting(old) = Waiting(js)
        /\ \A j \in Job : j \notin Filling(js) => old[j] = js[j]
        /\ \A j \in Filling(js) :
             /\ old[j].of = js[j].of /\ old[j].rest = js[j].rest
             /\ old[j].live = (js[j].live /\ js[j].of \notin Box)
    BY DetachFact, Zenon
  <2> HIDE DEF old
  <2>3. \A j \in Filling(js) : old[j].live = FALSE
    BY <2>1, <2>2
  <2>4. QED BY <2>2, <2>3
<1>3. Root \in Box /\ Root \notin Dir /\ Dir \subseteq Box
  BY TreeAssumption DEF Box
<1>4. /\ box' \in [Box -> {"absent", "loading", "rows", "bare"}]
      /\ \A d \in Dir : box'[d] = "absent"
      /\ box'[Root] = IF can THEN "loading" ELSE "absent"
      /\ late' \subseteq Dir
  BY <1>1, <1>3 DEF TypeOK
\* Jobs on the page of now: the new one at most.
<1>5. /\ jobs' \in Jobs /\ Waiting(jobs') = Waiting(js)
      /\ \A j \in Waiting(js) : jobs'[j] = js[j]
      /\ can => \E n \in Filling(jobs') : jobs'[n].of = Root /\ jobs'[n].live
      /\ \A j \in Filling(jobs') :
           \/ can /\ jobs'[j].of = Root /\ jobs'[j].rest = {}
           \/ /\ j \in Filling(js) /\ j \in Filling(jobs) /\ ~jobs'[j].live
              /\ jobs'[j].of = jobs[j].of /\ jobs'[j].rest = jobs[j].rest
  <2> HIDE DEF old
  <2>1. CASE can
    <3>1. new \in FillJob
      BY <1>3 DEF FillJob
    <3>2. /\ new.at = "fill" /\ new.of = Root /\ new.rest = {} /\ new.live = TRUE
      OBVIOUS
    <3> HIDE DEF new
    <3>3. Spawn(old, new)
      BY <1>1, <2>1
    <3>4. PICK n \in Job : /\ old[n] = Idle /\ jobs' = [old EXCEPT ![n] = new]
                           /\ jobs' \in Jobs
                           /\ n \notin Filling(old) /\ n \notin Waiting(old)
      BY <1>2, <3>1, <3>3, SpawnFact
    <3>5. /\ jobs'[n] = new /\ \A j \in Job : j # n => jobs'[j] = old[j]
      BY <1>2, <3>4 DEF Jobs
    <3>6. Filling(jobs') = Filling(old) \cup {n} /\ Waiting(jobs') = Waiting(old)
      BY <3>2, <3>4, <3>5 DEF Filling, Waiting
    <3>7. \A j \in Waiting(js) : j \in Job /\ j \notin Filling(js)
      BY JobFact DEF Waiting
    <3>8. QED BY <1>2, <2>1, <3>2, <3>4, <3>5, <3>6, <3>7 DEF Filling
  <2>2. CASE ~can
    <3>1. jobs' = old
      BY <1>1, <2>2
    <3>2. \A j \in Waiting(js) : j \in Job /\ j \notin Filling(js)
      BY JobFact DEF Waiting
    <3>3. QED BY <1>2, <2>2, <3>1, <3>2
  <2>3. QED BY <2>1, <2>2
<1>6. BoxesFit'
  <2>1. \A d \in Dir : box'[Parent[d]] # "rows"
    <3>1. \A d \in Dir : Parent[d] \in Box
      BY TreeAssumption
    <3>2. QED BY <1>3, <1>4, <3>1 DEF Box
  <2>2. QED BY <1>1, <1>4, <2>1 DEF BoxesFit
<1>7. LiveInPage'
  BY <1>4, <1>5 DEF LiveInPage
<1>8. RestsAfter'
  BY <1>5 DEF RestsAfter
<1>9. Covered'
  <2> SUFFICES ASSUME NEW j \in Filling(jobs'), jobs'[j].of # Root,
                      NEW d \in Dir, open'[d], d \notin late',
                      Order[d] > Order[jobs'[j].of]
               PROVE  d \in jobs'[j].rest
    BY DEF Covered
  <2>1. /\ j \in Filling(js) /\ j \in Filling(jobs)
        /\ jobs'[j].of = jobs[j].of /\ jobs'[j].rest = jobs[j].rest
    BY <1>5
  <2>2. d \notin late /\ open[d]
    BY <1>1, <2>1
  <2>3. QED BY <2>1, <2>2 DEF Covered
<1>10. LoadingAwaited'
  BY <1>4, <1>5 DEF LoadingAwaited, Awaited
<1>11. QED BY <1>1, <1>4, <1>5, <1>6, <1>7, <1>8, <1>9, <1>10

\* The sidebar at the start is empty, and nothing is under way.
LEMMA InitInv == Init => IInv
<1> SUFFICES ASSUME Init PROVE IInv
  OBVIOUS
<1>1. Root \in Box /\ Dir \subseteq Box /\ \A d \in Dir : Parent[d] \in Box
  BY TreeAssumption DEF Box
<1>2. Filling(jobs) = {} /\ Waiting(jobs) = {}
  BY DEF Init, Idle, Filling, Waiting
<1>3. TypeOK
  BY DEF Init, TypeOK
<1>4. OneWaits /\ LiveInPage /\ RestsAfter /\ Covered
  BY <1>2 DEF OneWaits, LiveInPage, RestsAfter, Covered
<1>5. MarksAddress /\ BoxesFit
  BY DEF Init, MarksAddress, BoxesFit
<1>6. LoadingAwaited
  BY <1>1 DEF Init, LoadingAwaited
<1>7. QED BY <1>3, <1>4, <1>5, <1>6 DEF IInv

\* renderSidebar() for the address of now, whatever flags have just changed.
LEMMA RenderSidebarInv ==
  ASSUME IInv, RenderSidebar, route' = route, rendering' \in Nat, steps' \in Nat,
         cached' \in BOOLEAN, files' \in BOOLEAN, open' \in [Box -> BOOLEAN]
  PROVE  IInv'
<1>1. TypeOK /\ RestsAfter /\ Covered /\ jobs \in Jobs /\ route \in View
  BY DEF IInv, TypeOK, Jobs
<1>2. raced' = (raced \/ Waiting(jobs) # {}) /\ raced' \in BOOLEAN
  BY <1>1 DEF RenderSidebar, TypeOK
<1>3. CASE cached
  <2>1. Rebuild(jobs, "tree", route)
    BY <1>3 DEF RenderSidebar
  <2>2. /\ shown' = "tree" /\ marked' = route
        /\ box' \in [Box -> {"absent", "loading", "rows", "bare"}]
        /\ jobs' \in Jobs /\ late' \subseteq Dir
        /\ Waiting(jobs') = Waiting(jobs)
        /\ BoxesFit' /\ LiveInPage' /\ RestsAfter' /\ Covered' /\ LoadingAwaited'
    BY <1>1, <2>1, RebuildKeeps
  <2>3. TypeOK'
    BY <1>1, <1>2, <2>2 DEF TypeOK, Jobs
  <2>4. OneWaits' /\ MarksAddress'
    BY <1>2, <2>2 DEF OneWaits, MarksAddress
  <2>5. QED BY <2>2, <2>3, <2>4 DEF IInv
<1>4. CASE ~cached
  <2> DEFINE new == [at |-> "sidebar", marks |-> route]
  <2>1. /\ Spawn(jobs, new)
        /\ late' = late \cup {d \in Dir : open'[d] /\ ~open[d] /\ Filling(jobs) # {}}
        /\ shown' = shown /\ marked' = marked /\ box' = box
    BY <1>4 DEF RenderSidebar, page
  <2>2. new \in SidebarJob /\ new.at = "sidebar" /\ new.marks = route
    BY <1>1 DEF SidebarJob
  <2> HIDE DEF new
  <2>3. PICK n \in Job : /\ jobs[n] = Idle /\ jobs' = [jobs EXCEPT ![n] = new]
                         /\ jobs' \in Jobs
                         /\ n \notin Filling(jobs) /\ n \notin Waiting(jobs)
    BY <1>1, <2>1, <2>2, SpawnFact
  <2>4. jobs'[n] = new /\ \A j \in Job : j # n => jobs'[j] = jobs[j]
    BY <1>1, <2>3 DEF Jobs
  <2>5. Filling(jobs') = Filling(jobs) /\ Waiting(jobs') = Waiting(jobs) \cup {n}
    BY <2>2, <2>3, <2>4 DEF Filling, Waiting
  <2>6. \A j \in Filling(jobs) : jobs'[j] = jobs[j]
    BY <2>3, <2>4 DEF Filling
  <2>7. TypeOK'
    BY <1>1, <1>2, <2>1, <2>3 DEF TypeOK, Jobs
  <2>8. OneWaits'
    BY <1>2, <2>5 DEF OneWaits
  <2>9. MarksAddress'
    BY <1>2, <2>2, <2>4, <2>5 DEF MarksAddress
  <2>10. BoxesFit'
    BY <2>5 DEF BoxesFit
  <2>11. LiveInPage' /\ RestsAfter'
    BY <1>1, <2>1, <2>5, <2>6 DEF IInv, LiveInPage, RestsAfter
  <2>12. Covered'
    <3> SUFFICES ASSUME NEW j \in Filling(jobs), jobs[j].of # Root,
                        NEW d \in Dir, open'[d], d \notin late',
                        Order[d] > Order[jobs[j].of]
                 PROVE  d \in jobs[j].rest
      BY <2>5, <2>6 DEF Covered
    <3>1. d \notin late /\ open[d]
      BY <2>1
    <3>2. QED BY <1>1, <3>1 DEF Covered
  <2>13. LoadingAwaited'
    <3>1. \A b \in Box : Awaited(b) => Awaited(b)'
      BY <2>5, <2>6 DEF Awaited
    <3>2. late \subseteq late' /\ Root \in Box /\ Dir \subseteq Box
      BY <2>1 DEF Box
    <3>3. QED BY <2>1, <3>1, <3>2 DEF IInv, LoadingAwaited
  <2>14. QED BY <2>7, <2>8, <2>9, <2>10, <2>11, <2>12, <2>13 DEF IInv
<1>5. QED BY <1>3, <1>4

\* The listings arrive, or do not: the one job that waited for them is over.
LEMMA DeliverSidebarInv ==
  ASSUME IInv, NEW j \in Job, DeliverSidebar(j)
  PROVE  IInv'
<1> DEFINE js == [jobs EXCEPT ![j] = Idle]
<1>1. /\ jobs[j].at = "sidebar"
      /\ route' = route /\ rendering' = rendering /\ files' = files /\ open' = open
      /\ steps' = steps /\ raced' = raced
  BY DEF DeliverSidebar
<1>2. PICK what \in {"tree", "partial", "error"} :
        cached' = (cached \/ what = "tree") /\ Rebuild(js, what, jobs[j].marks)
  BY DEF DeliverSidebar
<1>3. /\ TypeOK /\ RestsAfter /\ Covered /\ jobs \in Jobs
      /\ files' \in BOOLEAN /\ open' \in [Box -> BOOLEAN]
  BY <1>1 DEF IInv, TypeOK, Jobs
<1>4. j \in Waiting(jobs) /\ j \notin Filling(jobs) /\ jobs[j].marks \in View
  BY <1>1, <1>3, JobFact DEF Waiting, Filling, SidebarJob
<1>5. /\ js \in Jobs /\ js[j] = Idle
      /\ \A k \in Job : k # j => js[k] = jobs[k]
  BY <1>3 DEF Jobs
<1> HIDE DEF js
<1>6. Filling(js) = Filling(jobs) /\ Waiting(js) = Waiting(jobs) \ {j}
  BY <1>4, <1>5 DEF Filling, Waiting, Idle
<1>7. \A k \in Filling(js) : js[k] = jobs[k]
  BY <1>4, <1>5, <1>6 DEF Filling
<1>8. /\ shown' = what /\ marked' = jobs[j].marks
      /\ box' \in [Box -> {"absent", "loading", "rows", "bare"}]
      /\ jobs' \in Jobs /\ late' \subseteq Dir
      /\ Waiting(jobs') = Waiting(js) /\ \A k \in Waiting(js) : jobs'[k] = js[k]
      /\ BoxesFit' /\ LiveInPage' /\ RestsAfter' /\ Covered' /\ LoadingAwaited'
  BY <1>2, <1>3, <1>4, <1>5, <1>6, <1>7, RebuildKeeps
<1>9. cached' \in BOOLEAN
  BY <1>2, <1>3 DEF TypeOK
<1>10. TypeOK'
  BY <1>1, <1>3, <1>4, <1>8, <1>9 DEF TypeOK, Jobs
<1>11. OneWaits'
  BY <1>1, <1>6, <1>8 DEF IInv, OneWaits
<1>12. MarksAddress'
  <2> SUFFICES ASSUME ~raced, rendering = 0
               PROVE  /\ \A k \in Waiting(jobs') : jobs'[k].marks = route
                      /\ marked' = route
    BY <1>1 DEF MarksAddress
  <2>1. Waiting(jobs') = {}
    BY <1>4, <1>6, <1>8 DEF IInv, OneWaits
  <2>2. jobs[j].marks = route
    BY <1>4 DEF IInv, MarksAddress
  <2>3. QED BY <1>8, <2>1, <2>2
<1>13. QED BY <1>8, <1>10, <1>11, <1>12 DEF IInv

-----------------------------------------------------------------------------
\* Every nonempty set of numbers has a least element.
LEMMA LeastExists ==
  ASSUME NEW N \in SUBSET Nat, N # {}
  PROVE  \E n \in N : \A m \in N : n <= m
<1>1. IsWellFoundedOn(OpToRel(<, Nat), Nat)
  BY NatLessThanWellFounded
<1>2. PICK n \in N : \A m \in N : <<m, n>> \notin OpToRel(<, Nat)
  BY <1>1, WFMin
<1>3. \A m \in N : ~(m < n)
  BY <1>2 DEF OpToRel
<1>4. QED BY <1>3

\* The loop goes on to the first box of rest that is in the document, and no
\* such box is passed by.
LEMMA ContinueFact ==
  ASSUME NEW rest \in SUBSET Dir, files' \in BOOLEAN
  PROVE  \/ Continue(rest) = Idle /\ \A d \in rest : box'[d] = "absent"
         \/ /\ Continue(rest) \in FillJob /\ Continue(rest).live
            /\ Continue(rest).of \in rest /\ box'[Continue(rest).of] # "absent"
            /\ \A d \in rest : d \in Continue(rest).rest
                                 <=> Order[d] > Order[Continue(rest).of]
            /\ Continue(rest).rest \subseteq rest
            /\ \A d \in rest : box'[d] # "absent" =>
                 d = Continue(rest).of \/ d \in Continue(rest).rest
<1> DEFINE there == {d \in rest : box'[d] # "absent"}
           first == CHOOSE d \in there : \A e \in there : Order[d] <= Order[e]
           after == {d \in rest : Order[d] > Order[first]}
<1>1. Continue(rest) = IF there = {} THEN Idle ELSE Fill(first, after)
  BY DEF Continue
<1>2. CASE there = {}
  BY <1>1, <1>2
<1>3. CASE there # {}
  <2>1. \E d \in there : \A e \in there : Order[d] <= Order[e]
    <3> DEFINE N == {Order[d] : d \in there}
    <3>1. N \in SUBSET Nat /\ N # {}
      BY <1>3, OrderAssumption
    <3>2. \E n \in N : \A m \in N : n <= m
      <4> HIDE DEF N
      <4> QED BY <3>1, LeastExists
    <3>3. QED BY <3>2
  <2>2. first \in there /\ \A e \in there : Order[first] <= Order[e]
    BY <2>1
  <2> HIDE DEF first
  <2>3. first \in rest /\ first \in Dir /\ box'[first] # "absent"
    BY <2>2
  <2>4. \A d \in there : d = first \/ d \in after
    <3> SUFFICES ASSUME NEW d \in there, d # first PROVE Order[d] > Order[first]
      OBVIOUS
    <3>1. d \in Dir /\ Order[d] \in Nat /\ Order[first] \in Nat /\ Order[first] <= Order[d]
      BY <2>2, <2>3, OrderAssumption
    <3>2. Order[d] # Order[first]
      BY <2>3, <3>1, OrderAssumption
    <3>3. QED BY <3>1, <3>2
  <2>5. after \subseteq rest /\ \A d \in rest : d \in after <=> Order[d] > Order[first]
    OBVIOUS
  <2>6. \A d \in rest : box'[d] # "absent" => d = first \/ d \in after
    BY <2>4
  <2> HIDE DEF after
  <2>7. Continue(rest) = [at |-> "fill", of |-> first, rest |-> after,
                          live |-> TRUE, asks |-> files']
    BY <1>1, <1>3 DEF Fill
  <2>8. /\ Continue(rest) \in FillJob /\ Continue(rest).live
        /\ Continue(rest).of = first /\ Continue(rest).rest = after
    BY <2>3, <2>5, <2>7 DEF FillJob, Box
  <2>9. QED BY <2>3, <2>5, <2>6, <2>8
<1>4. QED BY <1>2, <1>3

\* What a filled box shows, what is in it, and all else, which is as it was.
LEMMA FillBoxFact ==
  ASSUME TypeOK, NEW b \in Box, NEW what \in {"rows", "bare"}
  PROVE  /\ FillBox(b, what) \in [Box -> {"absent", "loading", "rows", "bare"}]
         /\ FillBox(b, what)[b] = what
         /\ \A c \in Box : c # b /\ c \notin Below(b) => FillBox(b, what)[c] = box[c]
         /\ \A c \in Below(b) :
              FillBox(b, what)[c] = IF what = "rows" /\ Parent[c] = b /\ open[c]
                                    THEN "loading" ELSE "absent"
<1>1. b \notin Below(b) /\ Below(b) \subseteq Box
  BY BelowFact DEF Box
<1>2. QED BY <1>1 DEF FillBox, TypeOK

\* The boxes fit the flags after a box has been filled if they did before.
LEMMA FillBoxFits ==
  ASSUME TypeOK, NEW b \in Box, NEW what \in {"rows", "bare"}, box[b] # "absent",
         box' = FillBox(b, what), files' = files, open' = open,
         box[Root] # "absent" <=> files /\ open[Root],
         \A d \in Dir : box[d] # "absent" <=> box[Parent[d]] = "rows" /\ open[d]
  PROVE  /\ box'[Root] # "absent" <=> files /\ open[Root]
         /\ \A d \in Dir : box'[d] # "absent" <=> box'[Parent[d]] = "rows" /\ open[d]
<1>1. Root \in Box /\ Dir \subseteq Box /\ \A d \in Dir : Parent[d] \in Box
  BY TreeAssumption DEF Box
<1>2. /\ box'[b] = what
      /\ \A c \in Box : c # b /\ c \notin Below(b) => box'[c] = box[c]
      /\ \A c \in Below(b) : box'[c] = IF what = "rows" /\ Parent[c] = b /\ open[c]
                                       THEN "loading" ELSE "absent"
  BY FillBoxFact
<1>3. /\ \A c \in Dir : c \in Below(b) <=> Parent[c] \in Below(b) \cup {b}
      /\ b \notin Below(b) /\ Root \notin Below(b)
  BY BelowFact
<1>4. box'[Root] # "absent" <=> files /\ open[Root]
  BY <1>1, <1>2, <1>3
<1>5. ASSUME NEW d \in Dir PROVE box'[d] # "absent" <=> box'[Parent[d]] = "rows" /\ open[d]
  <2>1. CASE d \in Below(b) /\ Parent[d] = b
    BY <1>2, <2>1
  <2>2. CASE d \in Below(b) /\ Parent[d] # b
    <3>1. Parent[d] \in Below(b)
      BY <1>3, <2>2
    <3>2. box'[Parent[d]] # "rows" /\ box'[d] = "absent"
      BY <1>2, <2>2, <3>1
    <3>3. QED BY <3>2
  <2>3. CASE d \notin Below(b)
    <3>1. Parent[d] # b /\ Parent[d] \notin Below(b)
      BY <1>3, <2>3
    <3>2. box'[Parent[d]] = box[Parent[d]]
      BY <1>1, <1>2, <3>1
    <3>3. d = b \/ box'[d] = box[d]
      BY <1>1, <1>2, <2>3
    <3>4. QED BY <1>2, <3>2, <3>3
  <2>4. QED BY <2>1, <2>2, <2>3
<1>6. QED BY <1>4, <1>5

\* A box of the volume or of a directory is filled, on the page or beside it,
\* and the loop goes on.
LEMMA DeliverKidsInv ==
  ASSUME IInv, NEW j \in Job, DeliverKids(j)
  PROVE  IInv'
<1> DEFINE b == jobs[j].of
           gone == IF jobs[j].live THEN Below(b) ELSE {}
           old == Detach(jobs, gone)
           left == Rest(jobs[j])
           next == Continue(left)
<1>1. /\ jobs[j].at = "fill"
      /\ route' = route /\ rendering' = rendering /\ steps' = steps /\ raced' = raced
      /\ cached' = cached /\ files' = files /\ open' = open
      /\ shown' = shown /\ marked' = marked /\ late' = late
      /\ jobs' = [old EXCEPT ![j] = next]
  BY DEF DeliverKids, nav
<1>2. PICK what \in {"rows", "bare"} :
        box' = IF jobs[j].live THEN FillBox(b, what) ELSE box
  BY DEF DeliverKids
<1>3. /\ TypeOK /\ OneWaits /\ MarksAddress /\ BoxesFit /\ LiveInPage
      /\ RestsAfter /\ Covered /\ LoadingAwaited /\ jobs \in Jobs
  BY DEF IInv, TypeOK, Jobs
<1>4. j \in Filling(jobs)
  BY <1>1 DEF Filling
<1>5. b \in Box /\ jobs[j].rest \subseteq Dir /\ jobs[j].live \in BOOLEAN /\ j \notin Waiting(jobs)
  BY <1>3, <1>4, JobFact
<1>6. /\ Root \in Box /\ Root \notin Dir /\ Dir \subseteq Box
      /\ \A d \in Dir : Parent[d] \in Box
  BY TreeAssumption DEF Box
<1>7. /\ Below(b) \subseteq Dir /\ b \notin Below(b) /\ Root \notin Below(b)
      /\ b \in Dir => \A c \in Below(b) : Order[c] > Order[b]
  BY <1>5, BelowFact
<1>8. left \in SUBSET Dir
  BY <1>5 DEF Rest, OpenDirs
<1>9. /\ old \in Jobs
      /\ Filling(old) = Filling(jobs) /\ Waiting(old) = Waiting(jobs)
      /\ \A k \in Job : k \notin Filling(jobs) => old[k] = jobs[k]
      /\ \A k \in Filling(jobs) :
           /\ old[k].of = jobs[k].of /\ old[k].rest = jobs[k].rest
           /\ old[k].live = (jobs[k].live /\ jobs[k].of \notin gone)
  <2> HIDE DEF gone
  <2>1. QED BY <1>3, DetachFact, Zenon
<1>10. \/ next = Idle /\ \A d \in left : box'[d] = "absent"
       \/ /\ next \in FillJob /\ next.live
          /\ next.of \in left /\ box'[next.of] # "absent"
          /\ \A d \in left : d \in next.rest <=> Order[d] > Order[next.of]
          /\ next.rest \subseteq left
          /\ \A d \in left : box'[d] # "absent" => d = next.of \/ d \in next.rest
  <2>1. files' \in BOOLEAN
    BY <1>1, <1>3 DEF TypeOK
  <2> HIDE DEF left
  <2>2. QED BY <1>8, <2>1, ContinueFact
<1>11. jobs[j].of # Root => left = jobs[j].rest
  BY DEF Rest
<1>12. jobs[j].of = Root => left = {d \in Dir : open[d]}
  BY DEF Rest, OpenDirs
<1> HIDE DEF old, left, next
\* The jobs after it.
<1>13. jobs'[j] = next /\ \A k \in Job : k # j => jobs'[k] = old[k]
  BY <1>1, <1>9 DEF Jobs
<1>14. jobs' \in Jobs
  BY <1>1, <1>9, <1>10 DEF Jobs
<1>15. Waiting(jobs') = Waiting(jobs) /\ \A k \in Waiting(jobs) : jobs'[k] = jobs[k]
  <2>1. j \notin Waiting(jobs')
    BY <1>10, <1>13 DEF Waiting, Idle, FillJob
  <2>2. \A k \in Job : k # j => (k \in Waiting(jobs') <=> k \in Waiting(old))
    BY <1>13 DEF Waiting
  <2>3. \A k \in Waiting(jobs) : k \in Job /\ k # j /\ k \notin Filling(jobs)
    BY <1>3, <1>5, JobFact DEF Waiting
  <2>4. Waiting(jobs') = Waiting(jobs)
    BY <1>5, <1>9, <2>1, <2>2 DEF Waiting
  <2>5. QED BY <1>9, <1>13, <2>3, <2>4
<1>16. ASSUME NEW k \in Filling(jobs')
       PROVE  \/ k = j /\ jobs'[k] = next /\ next # Idle
              \/ /\ k # j /\ k \in Filling(jobs)
                 /\ jobs'[k].of = jobs[k].of /\ jobs'[k].rest = jobs[k].rest
                 /\ jobs'[k].live = (jobs[k].live /\ jobs[k].of \notin gone)
  <2>1. CASE k = j
    BY <1>13, <2>1 DEF Filling, Idle
  <2>2. CASE k # j
    <3>1. k \in Filling(old) /\ jobs'[k] = old[k]
      BY <1>13, <2>2 DEF Filling
    <3>2. QED BY <1>9, <2>2, <3>1
  <2>3. QED BY <2>1, <2>2
<1>17. ASSUME NEW k \in Filling(jobs), k # j
       PROVE  /\ k \in Filling(jobs')
              /\ jobs'[k].of = jobs[k].of /\ jobs'[k].rest = jobs[k].rest
              /\ jobs'[k].live = (jobs[k].live /\ jobs[k].of \notin gone)
  <2>1. k \in Job /\ jobs'[k] = old[k] /\ k \in Filling(old)
    BY <1>9, <1>13, <1>17 DEF Filling
  <2>2. k \in Filling(jobs')
    BY <2>1 DEF Filling
  <2>3. QED BY <1>9, <2>1, <2>2
<1>18. next # Idle => j \in Filling(jobs')
  BY <1>10, <1>13 DEF Filling, FillJob
\* The boxes after it.
<1>19. /\ box' \in [Box -> {"absent", "loading", "rows", "bare"}]
       /\ \A c \in Box : c # b /\ c \notin gone => box'[c] = box[c]
       /\ jobs[j].live => box'[b] = what
       /\ ~jobs[j].live => box' = box
       /\ jobs[j].live => \A c \in Below(b) : box'[c] # "absent" => Parent[c] = b /\ open[c]
  <2>1. CASE jobs[j].live
    BY <1>2, <1>3, <1>5, <2>1, FillBoxFact
  <2>2. CASE ~jobs[j].live
    BY <1>2, <1>3, <2>2 DEF TypeOK
  <2>3. QED BY <2>1, <2>2
<1>20. \A c \in gone : c \in Dir /\ jobs[j].live /\ c \in Below(b)
  BY <1>7
<1> HIDE DEF gone
<1>21. TypeOK'
  BY <1>1, <1>3, <1>14, <1>19 DEF TypeOK, Jobs
<1>22. OneWaits' /\ MarksAddress'
  BY <1>1, <1>3, <1>15 DEF OneWaits, MarksAddress
<1>23. BoxesFit'
  <2>1. CASE jobs[j].live
    <3>1. box[b] # "absent"
      BY <1>3, <1>4, <2>1 DEF LiveInPage
    <3>2. SUFFICES ASSUME Waiting(jobs) = {}, shown = "tree"
                   PROVE  /\ box'[Root] # "absent" <=> files /\ open[Root]
                          /\ \A d \in Dir : box'[d] # "absent"
                                              <=> box'[Parent[d]] = "rows" /\ open[d]
      BY <1>1, <1>15 DEF BoxesFit
    <3>3. /\ box[Root] # "absent" <=> files /\ open[Root]
          /\ \A d \in Dir : box[d] # "absent" <=> box[Parent[d]] = "rows" /\ open[d]
      BY <1>3, <3>2 DEF BoxesFit
    <3>4. box' = FillBox(b, what) /\ files' = files /\ open' = open
      BY <1>1, <1>2, <2>1
    <3> HIDE DEF b
    <3>5. QED BY <1>3, <1>5, <3>1, <3>3, <3>4, FillBoxFits
  <2>2. CASE ~jobs[j].live
    BY <1>1, <1>3, <1>15, <1>19, <2>2 DEF BoxesFit
  <2>3. QED BY <2>1, <2>2
<1>24. LiveInPage'
  <2> SUFFICES ASSUME NEW k \in Filling(jobs'), jobs'[k].live
               PROVE  box'[jobs'[k].of] # "absent"
    BY DEF LiveInPage
  <2>1. CASE k = j
    BY <1>10, <1>16, <2>1
  <2>2. CASE k # j
    <3>1. /\ k \in Filling(jobs) /\ jobs'[k].of = jobs[k].of
          /\ jobs[k].live /\ jobs[k].of \notin gone
      BY <1>16, <2>2
    <3>2. jobs[k].of \in Box /\ box[jobs[k].of] # "absent"
      BY <1>3, <3>1, JobFact DEF LiveInPage, Filling
    <3>3. QED BY <1>19, <3>1, <3>2
  <2>3. QED BY <2>1, <2>2
<1>25. RestsAfter'
  <2> SUFFICES ASSUME NEW k \in Filling(jobs')
               PROVE  IF jobs'[k].of = Root THEN jobs'[k].rest = {}
                      ELSE \A d \in jobs'[k].rest : Order[d] > Order[jobs'[k].of]
    BY DEF RestsAfter
  <2>1. CASE k = j
    BY <1>6, <1>8, <1>10, <1>16, <2>1
  <2>2. CASE k # j
    <3>1. /\ k \in Filling(jobs) /\ jobs'[k].of = jobs[k].of
          /\ jobs'[k].rest = jobs[k].rest
      BY <1>16, <2>2
    <3>2. QED BY <1>3, <3>1 DEF RestsAfter
  <2>3. QED BY <2>1, <2>2
<1>26. Covered'
  <2> SUFFICES ASSUME NEW k \in Filling(jobs'), jobs'[k].of # Root,
                      NEW d \in Dir, open[d], d \notin late,
                      Order[d] > Order[jobs'[k].of]
               PROVE  d \in jobs'[k].rest
    BY <1>1 DEF Covered
  <2>1. CASE k = j
    <3>1. /\ jobs'[k] = next /\ next.of \in left
          /\ \A c \in left : c \in next.rest <=> Order[c] > Order[next.of]
      BY <1>10, <1>16, <2>1
    <3>2. d \in left
      <4>1. CASE jobs[j].of = Root
        BY <1>12, <4>1
      <4>2. CASE jobs[j].of # Root
        <5>1. jobs[j].of \in Dir /\ next.of \in jobs[j].rest /\ next.of \in Dir
          BY <1>5, <1>8, <1>11, <3>1, <4>2 DEF Box
        <5>2. Order[next.of] > Order[jobs[j].of]
          BY <1>3, <1>4, <4>2, <5>1 DEF RestsAfter
        <5>3. Order[d] > Order[jobs[j].of]
          BY <3>1, <5>1, <5>2, OrderAssumption
        <5>4. d \in jobs[j].rest
          BY <1>3, <1>4, <4>2, <5>3 DEF Covered
        <5>5. QED BY <1>11, <4>2, <5>4
      <4>3. QED BY <4>1, <4>2
    <3>3. QED BY <3>1, <3>2
  <2>2. CASE k # j
    <3>1. /\ k \in Filling(jobs) /\ jobs'[k].of = jobs[k].of
          /\ jobs'[k].rest = jobs[k].rest
      BY <1>16, <2>2
    <3>2. QED BY <1>3, <3>1 DEF Covered
  <2>3. QED BY <2>1, <2>2
<1>27. ASSUME NEW d \in left, box'[d] # "absent" PROVE Awaited(d)'
  <2>1. /\ next # Idle /\ jobs'[j] = next /\ next.live
        /\ d = next.of \/ d \in next.rest
    BY <1>10, <1>13, <1>27 DEF Idle, FillJob
  <2>2. QED BY <1>18, <2>1 DEF Awaited
<1>28. LoadingAwaited'
  <2>1. ASSUME NEW c \in Box, c \notin gone, box'[c] = "loading", c \in Dir => c \notin late
        PROVE  Awaited(c)'
    <3>1. box[c] = "loading" /\ ~(jobs[j].live /\ c = b)
      BY <1>2, <1>19, <2>1
    <3>2. Awaited(c)
      BY <1>3, <2>1, <3>1 DEF LoadingAwaited, Box
    <3>3. PICK k \in Filling(jobs) : (jobs[k].of = c /\ jobs[k].live) \/ c \in jobs[k].rest
      BY <3>2 DEF Awaited
    <3>4. CASE k = j
      <4>1. c \in jobs[j].rest
        BY <3>1, <3>3, <3>4
      <4>2. jobs[j].of # Root
        BY <1>3, <1>4, <4>1 DEF RestsAfter
      <4>3. c \in left /\ box'[c] # "absent"
        BY <1>11, <2>1, <4>1, <4>2
      <4>4. QED BY <1>27, <4>3
    <3>5. CASE k # j
      BY <1>17, <2>1, <3>3, <3>5 DEF Awaited
    <3>6. QED BY <3>4, <3>5
  <2>2. ASSUME NEW d \in gone, box'[d] = "loading", d \notin late
        PROVE  Awaited(d)'
    <3>1. d \in Dir /\ jobs[j].live /\ d \in Below(b)
      BY <1>20
    <3>2. Parent[d] = b /\ open[d]
      BY <1>19, <2>2, <3>1
    <3>3. d \in left
      <4>1. CASE b = Root
        BY <1>12, <3>1, <3>2, <4>1
      <4>2. CASE b # Root
        <5>1. b \in Dir /\ Order[d] > Order[b]
          BY <1>5, <1>7, <3>1, <4>2 DEF Box
        <5>2. d \in jobs[j].rest
          BY <1>3, <1>4, <2>2, <3>1, <3>2, <4>2, <5>1 DEF Covered
        <5>3. QED BY <1>11, <4>2, <5>2
      <4>3. QED BY <4>1, <4>2
    <3>4. QED BY <1>27, <2>2, <3>3
  <2>3. Root \notin gone
    BY <1>6, <1>20
  <2>4. box'[Root] = "loading" => Awaited(Root)'
    BY <1>6, <2>1, <2>3
  <2>5. ASSUME NEW d \in Dir, box'[d] = "loading", d \notin late PROVE Awaited(d)'
    BY <1>6, <2>1, <2>2, <2>5
  <2>6. QED BY <1>1, <2>4, <2>5 DEF LoadingAwaited, Awaited
<1>29. QED BY <1>21, <1>22, <1>23, <1>24, <1>25, <1>26, <1>28 DEF IInv

-----------------------------------------------------------------------------
\* Every step keeps it.
LEMMA NextInv == IInv /\ [Next]_vars => IInv'
<1> SUFFICES ASSUME IInv, [Next]_vars PROVE IInv'
  OBVIOUS
<1> USE DEF nav, page, Step
<1>1. /\ TypeOK /\ cached \in BOOLEAN /\ files \in BOOLEAN /\ open \in [Box -> BOOLEAN]
      /\ rendering \in Nat /\ steps \in Nat /\ rendering + 1 \in Nat /\ steps + 1 \in Nat
      /\ rendering > 0 => rendering - 1 \in Nat
  BY DEF IInv, TypeOK
<1>2. ASSUME NEW v \in View, Visit(v) PROVE IInv'
  <2>1. TypeOK'
    BY <1>1, <1>2 DEF Visit, TypeOK
  <2>2. MarksAddress'
    BY <1>1, <1>2 DEF Visit, MarksAddress
  <2>3. /\ OneWaits' /\ BoxesFit' /\ LiveInPage' /\ RestsAfter' /\ Covered'
        /\ LoadingAwaited'
    BY <1>2 DEF Visit, IInv, OneWaits, BoxesFit, LiveInPage, RestsAfter, Covered,
                LoadingAwaited, Awaited
  <2>4. QED BY <2>1, <2>2, <2>3 DEF IInv
<1>3. CASE RefreshCurrentView
  <2>1. TypeOK'
    BY <1>1, <1>3 DEF RefreshCurrentView, TypeOK
  <2>2. MarksAddress'
    BY <1>1, <1>3 DEF RefreshCurrentView, MarksAddress
  <2>3. /\ OneWaits' /\ BoxesFit' /\ LiveInPage' /\ RestsAfter' /\ Covered'
        /\ LoadingAwaited'
    BY <1>3 DEF RefreshCurrentView, IInv, OneWaits, BoxesFit, LiveInPage, RestsAfter,
                Covered, LoadingAwaited, Awaited
  <2>4. QED BY <2>1, <2>2, <2>3 DEF IInv
<1>4. CASE ViewRendered
  BY <1>1, <1>4, RenderSidebarInv DEF ViewRendered
<1>5. CASE ListingsCached
  BY <1>1, <1>5 DEF ListingsCached, IInv, TypeOK, OneWaits, MarksAddress, BoxesFit,
                    LiveInPage, RestsAfter, Covered, LoadingAwaited, Awaited
<1>6. ASSUME NEW b \in Box, Toggle(b) PROVE IInv'
  BY <1>1, <1>6, RenderSidebarInv DEF Toggle
<1>7. CASE ToggleFiles
  BY <1>1, <1>7, RenderSidebarInv DEF ToggleFiles
<1>8. ASSUME NEW j \in Job, DeliverSidebar(j) PROVE IInv'
  BY <1>8, DeliverSidebarInv
<1>9. ASSUME NEW j \in Job, DeliverKids(j) PROVE IInv'
  BY <1>9, DeliverKidsInv
<1>10. CASE UNCHANGED vars
  BY <1>1, <1>10 DEF vars, IInv, TypeOK, OneWaits, MarksAddress, BoxesFit,
                     LiveInPage, RestsAfter, Covered, LoadingAwaited, Awaited
<1>11. QED BY <1>2, <1>3, <1>4, <1>5, <1>6, <1>7, <1>8, <1>9, <1>10 DEF Next

\* The inductive invariant holds in every reachable state.
THEOREM Inductive == Spec => []IInv
<1>1. Init => IInv
  BY InitInv
<1>2. IInv /\ [Next]_vars => IInv'
  BY NextInv
<1>3. QED BY <1>1, <1>2, PTL DEF Spec

\* The sidebar, its boxes and the jobs under way are always of their types.
THEOREM TypeCorrect == Spec => []TypeOK
<1>1. IInv => TypeOK
  BY DEF IInv
<1>2. QED BY <1>1, Inductive, PTL

\* However many refills overlap, once all requests are answered no box of the
\* tree is left on "Loading...", except that of a directory that was opened
\* while a refill was under way.
THEOREM OpenFilled == Spec => []OpenBoxesFilled
<1>1. IInv => OpenBoxesFilled
  <2> SUFFICES ASSUME IInv, AtRest, NEW b \in Box, box[b] = "loading"
               PROVE  b \in late
    BY DEF OpenBoxesFilled
  <2>1. Filling(jobs) = {}
    BY DEF AtRest, Filling, Idle
  <2>2. ~Awaited(b)
    BY <2>1 DEF Awaited
  <2>3. QED BY <2>2 DEF IInv, LoadingAwaited, Box
<1>2. QED BY <1>1, Inductive, PTL

\* However clicks on twists and on the Files box fall between requests and
\* their answers, at rest the boxes in the document are those the flags open.
THEOREM BoxesMatch == Spec => []BoxesMatchFlags
<1>1. IInv => BoxesMatchFlags
  <2> SUFFICES ASSUME IInv, AtRest, shown = "tree"
               PROVE  /\ box[Root] # "absent" <=> files /\ open[Root]
                      /\ \A d \in Dir : box[d] # "absent"
                                          <=> box[Parent[d]] = "rows" /\ open[d]
    BY DEF BoxesMatchFlags
  <2>1. Waiting(jobs) = {}
    BY DEF AtRest, Waiting, Idle
  <2>2. QED BY <2>1 DEF IInv, BoxesFit
<1>2. QED BY <1>1, Inductive, PTL

\* At rest the link marked as active is that of the address, whatever views
\* were gone through, if no two sidebars were waited for at the same time.
THEOREM Marked == Spec => []MarkedIsAddress
<1>1. IInv => MarkedIsAddress
  <2> SUFFICES ASSUME IInv, AtRest, ~raced, shown # "error"
               PROVE  marked = route
    BY DEF MarkedIsAddress
  <2>1. Waiting(jobs) = {} /\ rendering = 0
    BY DEF AtRest, Waiting, Idle
  <2>2. QED BY <2>1 DEF IInv, MarksAddress
<1>2. QED BY <1>1, Inductive, PTL
=============================================================================
