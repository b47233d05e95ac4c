---------------------------- MODULE MCValidations ----------------------------
(* Small instance of Validations for TLC: two trusted validators and one   *)
(* that is not, two ledgers, sign times around the clock plus the two ends *)
(* of the (scaled) 32-bit range.                                           *)
EXTENDS Validations
CONSTANTS a, b, u
MCNodes == {a, b, u}
MCUNL == {a, b}
==============================================================================
