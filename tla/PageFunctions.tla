---------------------------- MODULE PageFunctions ----------------------------
(***************************************************************************)
(* The functions that compute what is shown from what is known, side by    *)
(* side: the web UI's filters, its tree of a pool's devices, its links and *)
(* usage bars, and the agent's pages of a history.  A behaviour is given   *)
(* one case, and computes it.                                              *)
(***************************************************************************)
EXTENDS ListFilters, VdevTree, PageLinks, UsageBars, HistoryPage

CONSTANTS Lists, Trees, Typed, Configs, Places, Paths, Disks, Mounts, Datasets, Histories

\* Entries of a list as browsers have them.
ASSUME ListsAssumption ==
  Lists \subseteq Seq([is : {"heading", "row", "up", "remark"}, text : SUBSET STRING])

\* A row is written inside of one that is in the document, which is no remark.
ASSUME TreesAssumption ==
  /\ Trees \subseteq Seq([parent : Nat, text : SUBSET STRING, remark : BOOLEAN])
  /\ \A t \in Trees : \A n \in DOMAIN t :
       t[n].parent < n /\ (t[n].parent # 0 => ~t[t[n].parent].remark)

\* What links are written for: names are not empty, what a kind of link cannot
\* say is not asked of it, and a vdev is a number.
ASSUME PlacesAssumption ==
  \A p \in Places :
    /\ p = Place(p.kind, p.parts, p.query)
    /\ p.kind \in {"pool", "dataset", "zvol", "vdev", "volume", "disk"}
    /\ p.parts \in Seq(Name)
    /\ Len(p.parts) = IF p.kind \in {"dataset", "zvol", "vdev"} THEN 2 ELSE 1
    /\ p.kind = "vdev" => p.parts[2] \in Seq(Digits)
    /\ p.query \in [{"path", "file", "tab"} -> Seq(Characters)]
    /\ \A k \in {"path", "file", "tab"} \ ToSet(Keys(p.kind)) : p.query[k] = <<>>

\* Directories below the root of what is browsed.
ASSUME PathsAssumption ==
  \A p \in Paths : p \in Seq(Characters) /\ Trimmed(p) = p

ASSUME ConfigsAssumption == Configs \subseteq Seq(Nat)

\* Sizes are never negative.
ASSUME BarsAssumption ==
  /\ Disks \subseteq [size : Nat, parts : Seq(Nat), own : Nat]
  /\ Mounts \subseteq [size : Nat, used : Nat, avail : Nat]
  /\ Datasets \subseteq [kids : Seq(Nat), snaps : Seq(Nat), data : Nat, reservation : Nat,
                         free : Nat, total : Nat]

\* Histories held in memory, so never near as many entries as an int counts.
ASSUME HistoriesAssumption ==
  /\ Histories \subseteq Seq(Nat \ {0})
  /\ \A h \in Histories : Len(h) + DefaultLimit <= IntMax

\* The entries of the root.
Entries == {p \in Paths : p # <<>> /\ "/" \notin ToSet(p)}

VARIABLES
  given,    \* the case: of which function, and its arguments
  called,   \* whether the function has been called
  result    \* what it returned

pvars == <<given, called, result>>

Init ==
  /\ given \in [of : {"list"}, list : Lists, typed : Typed]
         \cup [of : {"tree"}, tree : Trees, typed : Typed]
         \cup [of : {"config"}, config : Configs]
         \cup [of : {"link"}, place : Places]
         \cup [of : {"path"}, path : Paths, name : Entries]
         \cup [of : {"disk"}, disk : Disks] \cup [of : {"mount"}, mount : Mounts]
         \cup [of : {"dataset"}, dataset : Datasets]
         \cup [of : {"history"}, all : Histories, limit : IntRange]
  /\ called = FALSE /\ result = <<>>

Compute(kind, r) ==
  /\ given.of = kind /\ ~called /\ called' = TRUE
  /\ result' = r
  /\ UNCHANGED given

FilterList   == Compute("list", ApplyListFilter(given.list, given.typed))
FilterTree   == Compute("tree", ApplyNavPoolFilter(given.tree, given.typed))
Enrich       == Compute("config", EnrichConfig(given.config))
FollowLink   == Compute("link", ParseRoute(Href(given.place)))
OpenAndUp    == Compute("path", BrowseParentPath(JoinBrowsePath(given.path, given.name)))
DrawDisk     == Compute("disk", DiskBar(given.disk.size, given.disk.parts, given.disk.own))
DrawMount    == Compute("mount", MountBar(given.mount.size, given.mount.used, given.mount.avail))
DrawDataset  == Compute("dataset",
                  LET d == given.dataset
                  IN DatasetBar(d.kids, d.snaps, d.data, d.reservation, d.free, d.total))
ReadHistory  == Compute("history", Pages(given.all, given.limit))

Next ==
  \/ FilterList \/ FilterTree \/ Enrich \/ FollowLink \/ OpenAndUp
  \/ DrawDisk \/ DrawMount \/ DrawDataset \/ ReadHistory

Spec == Init /\ [][Next]_pvars

Of(kind) == given.of = kind /\ called

-----------------------------------------------------------------------------
\* In a browser that is filtered every row has its heading, and no heading
\* stands alone.
HeadingsHold == Of("list") => HeadingsHoldRows(given.list, given.typed, result)

\* The sidebar's filter shows what is found and what leads there, and counts
\* what there is to see.
NavShowsFound ==
  Of("tree") => /\ NavShowsWhatIsFound(given.tree, given.typed, result.shown)
                /\ NavCountsWhatIsSeen(given.tree, result)

\* The pages of vdevs and the agent see one tree.
TreesAgree == Of("config") => SameTree(given.config, result)

\* Whatever characters are in a name, a link leads to what it was written for,
\* and ".." in a browser to where the directory was opened.
LinksLeadBack ==
  /\ Of("link") => result = given.place
  /\ Of("path") => result = given.path

\* A bar stands for the whole disk or volume; a dataset's adds up to what its
\* rows say, each child's and snapshot's own space, the data, the reservation
\* and what is free, and not to more or less when snapshots are put together.
\* (Space that several snapshots share is in no row's field, nor in the bar.)
BarsAccount ==
  /\ Of("disk") => DiskAccounted(given.disk.size, given.disk.parts, result)
  /\ Of("mount") => MountAccounted(given.mount.size, given.mount.used, given.mount.avail, result)
  /\ Of("dataset") =>
       LET d == given.dataset
       IN SnapshotsCounted(d.kids, d.snaps, d.data, d.reservation, d.free, result)

\* The pages of a history put together are the history, unless the limit is so
\* great that adding it to an offset overflows.
HistoryPaged ==
  Of("history") /\ given.limit <= IntMax - Len(given.all) => PagesTile(given.all, result)
=============================================================================
