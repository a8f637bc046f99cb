--------------------------- MODULE MCSidebarPools ---------------------------
(* The datasets and snapshots of the instances of SidebarPools.             *)
EXTENDS SidebarPools

CONSTANTS tank, fs, bare, vol, fs1, bare1, vol1

MCKind == [d \in Dataset |-> IF d = fs THEN "mounted" ELSE IF d = bare THEN "unmounted" ELSE "volume"]
MCOf   == [s \in Snap |-> IF s = fs1 THEN fs ELSE IF s = bare1 THEN bare ELSE vol]
=============================================================================
