------------------------------ MODULE MCCloseTime ------------------------------
(* Four participants and close times around the rounding boundaries of the *)
(* finer resolutions, over a chain long enough for two refinements.        *)
EXTENDS CloseTime
CONSTANTS p1, p2, p3, p4
Symmetry == Permutations(Participants)
===============================================================================
