---------------------------- MODULE MCBatchWriter ----------------------------
(* Small instance of BatchWriter for TLC: two objects, two job threads.    *)
EXTENDS BatchWriter
==============================================================================
