---------------------------- MODULE MCViewRender ----------------------------
(* Instances of ViewRender: which view is rendered by which function.       *)
EXTENDS ViewRender

CONSTANTS overview, remote, vdev, disk, snapA, snapB, diffTab, file

\* One view of each kind that behaves differently, and two snapshots.
MCRenderer ==
  [v \in View |-> CASE v = overview -> Home
                    [] v = remote   -> Remote
                    [] v = vdev     -> Vdev
                    [] v = disk     -> Disk
                    [] v = snapA    -> Snapshot
                    [] v = snapB    -> Snapshot
                    [] v = diffTab  -> PoolDiff
                    [] v = file     -> File]
=============================================================================
