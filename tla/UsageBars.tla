------------------------------ MODULE UsageBars ------------------------------
(***************************************************************************)
(* The usage bars of the web UI (src/internal/web/static/app.js): of a     *)
(* disk and its partitions, of a mounted volume, and of a pool or dataset  *)
(* and what is in it.  A bar is the sequence of its segments [is, bytes].  *)
(***************************************************************************)
EXTENDS Integers, Sequences, SequencesExt, FiniteSetsExt

CONSTANTS
  Slack,     \* what of a disk may be left out (1 MiB)
  SnapCap    \* snapshots with a segment of their own

ASSUME SlackAssumption == Slack \in Nat /\ SnapCap \in Nat

Sum(segs) == FoldLeft(LAMBDA n, s : n + s.bytes, 0, segs)

Seg(is, bytes) == [is |-> is, bytes |-> bytes]

Segs(is, sizes) == [i \in DOMAIN sizes |-> Seg(is, sizes[i])]

\* Whether there is something to be drawn.
SegIf(is, bytes) == IF bytes > 0 THEN <<Seg(is, bytes)>> ELSE <<>>

\* Segments of nothing are left out unless their kind is in keep.
Drawn(segs, keep) ==
  FoldLeft(LAMBDA bar, s : IF s.bytes > 0 \/ s.is \in keep THEN Append(bar, s) ELSE bar, <<>>, segs)

\* usageBarHtml(): a bar of nothing, of no total, is not drawn.
UsageBar(segs, keep, total) ==
  LET some == Drawn(segs, keep)
  IN IF Max({total, Sum(some)}) = 0 THEN <<>> ELSE some

\* What the partitions leave.
RestOfDisk(size, parts) == size - Sum(Segs("part", parts))

\* diskPartitionBarHtml(), on the page of partition own (0: of the disk):
\* partitions may claim more than there is.
DiskBar(size, parts, own) ==
  LET claims == [i \in DOMAIN parts |-> Seg(IF i = own THEN "own" ELSE "part", parts[i])]
      rest   == RestOfDisk(size, parts)
      whole  == IF rest > Slack THEN <<Seg("unallocated", rest)>>
                ELSE IF parts = <<>> THEN <<Seg("disk", size)>> ELSE <<>>
  IN UsageBar(claims \o whole, {"own"}, size)

\* mountBarHtml(): with nothing available, what is not used.
MountBar(size, used, avail) ==
  LET free == IF avail # 0 THEN avail ELSE Max({0, size - used})
  IN IF size = 0 /\ used = 0 THEN <<>> ELSE UsageBar(<<Seg("used", used), Seg("free", free)>>, {}, size)

\* A mutant: the rest is what comes after the cap and one more.
SnapSegsShort(snaps) ==
  Segs("snap", SubSeq(snaps, 1, Min({SnapCap, Len(snaps)})))
    \o IF Len(snaps) <= SnapCap THEN <<>>
       ELSE <<Seg("snap", Sum(Segs("snap", SubSeq(snaps, SnapCap + 2, Len(snaps)))))>>

\* The snapshots: those after the cap are one segment.
SnapSegs(snaps) ==
  Segs("snap", SubSeq(snaps, 1, Min({SnapCap, Len(snaps)})))
    \o IF Len(snaps) <= SnapCap THEN <<>>
       ELSE <<Seg("snap", Sum(Segs("snap", SubSeq(snaps, SnapCap + 1, Len(snaps)))))>>

\* datasetUsageBarHtml(): what its children and snapshots use, its own data
\* and reservation, and what is free of it or of its pool.
DatasetBar(kids, snaps, data, reservation, free, total) ==
  UsageBar(Segs("dataset", kids) \o SnapSegs(snaps) \o SegIf("data", data)
             \o SegIf("reservation", reservation) \o SegIf("free", free), {"dataset", "snap"}, total)

\* A disk's bar stands for the whole disk, up to the slack; it is longer only
\* when the partitions claim more than the disk has.
DiskAccounted(size, parts, bar) ==
  LET claimed == Sum(Segs("part", parts))
  IN /\ Sum(bar) >= size - Slack
     /\ Sum(bar) <= Max({size, claimed})

\* What is free of a mounted volume is never more than what is not used, unless
\* df itself says so.
MountAccounted(size, used, avail, bar) ==
  used + avail <= size => Sum(bar) <= size

\* However many snapshots there are, and whatever is empty, nothing the rows
\* list is missing from the bar, which stays within the cap and one more.
SnapshotsCounted(kids, snaps, data, reservation, free, bar) ==
  /\ Sum(bar) = Sum(Segs("all", kids \o snaps)) + data + reservation + free
  /\ Cardinality({i \in DOMAIN bar : bar[i].is = "snap"}) <= SnapCap + 1
=============================================================================
