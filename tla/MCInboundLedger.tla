---------------------------- MODULE MCInboundLedger --------------------------
(* Small instance of InboundLedger for TLC. *)
EXTENDS InboundLedger
CONSTANTS node_h, node_a, node_t
MCAsNodes == {node_a}
MCTxNodes == {node_t}
MCAtStart == {{}, {node_a, node_t}}
==============================================================================
