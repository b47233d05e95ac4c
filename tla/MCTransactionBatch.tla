--------------------------- MODULE MCTransactionBatch ---------------------------
(* Two clients, a relay and one worker for the jtBATCH jobs submit and     *)
(* apply the same few transactions.                                        *)
EXTENDS TransactionBatch
CONSTANTS tx_x, tx_y, tx_z, c1, c2, r1, w1
===============================================================================
