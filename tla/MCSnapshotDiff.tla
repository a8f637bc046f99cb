--------------------------- MODULE MCSnapshotDiff ---------------------------
(* Two snapshots of one dataset and one of another, and two filters.        *)
EXTENDS SnapshotDiff

CONSTANTS home1, home2, root1, home, root, all, some

MCOf      == [s \in Snap |-> IF s = root1 THEN root ELSE home]
MCListing == {Snap, {root1}, {}}
MCRank    == [x \in Snap \cup Dataset |-> CASE x = home1 -> 2 [] x = home2 -> 3 [] x = root1 -> 4 [] x = home -> 0 [] OTHER -> 1]
MCMatches == [q \in Query |-> IF q = all THEN Snap \cup Dataset ELSE {home2, root1, root} \cap (Snap \cup Dataset)]
=============================================================================
