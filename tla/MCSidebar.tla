------------------------------ MODULE MCSidebar ------------------------------
(* A volume with two directories, one of which has another in it.           *)
EXTENDS Sidebar

CONSTANTS vol, home, etc, src

MCParent == [d \in Dir |-> IF d = src THEN home ELSE vol]
MCOrder  == [d \in Dir |-> CASE d = etc -> 1 [] d = home -> 2 [] d = src -> 3]
=============================================================================
