---------------------------- MODULE MCSHAMapStore ----------------------------
(* Small instance of SHAMapStore for TLC.  Every validated ledger can start*)
(* a rotation, so up to three complete.  Node z belongs to every ledger    *)
(* and must be copied again and again; a is stored for ledger 3 while a    *)
(* rotation may be going on, and leaves the state in ledger 4.             *)
EXTENDS SHAMapStore

CONSTANTS node_a, node_z
MCNodes == {node_a, node_z}
MCStateMap == <<{node_z}, {node_z}, {node_z, node_a}, {node_z}>>
MCDirs == 1 .. 4
MCConfigs == {<<TRUE, FALSE>>, <<FALSE, TRUE>>}
MCSaveFails == [b \in BOOLEAN |-> IF b THEN {} ELSE {4}]
MCMaxCrashes == [b \in BOOLEAN |-> IF b THEN 0 ELSE 1]
==============================================================================
