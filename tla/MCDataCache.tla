---------------------------- MODULE MCDataCache ----------------------------
(* The names of the resources the instances of DataCache use.               *)
EXTENDS DataCache

CONSTANTS host, sda
=============================================================================
