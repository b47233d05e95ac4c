---------------------------- MODULE MCLedgerMaster ---------------------------
(* Small instance of LedgerMaster for TLC.  The network validates ledgers  *)
(* 2, 5 and 6: from 2 to 5 the two ledgers between must be fetched, one at *)
(* a time; from 2 to 6 the gap is too large.  Ledger 1 is in the database. *)
EXTENDS LedgerMaster
MCInDatabase == {1}
MCValidators == <<0, 1, 0, 0, 2, 1>>
MCBuilt == {5}
MCFaulty == {3, 5}
==============================================================================
