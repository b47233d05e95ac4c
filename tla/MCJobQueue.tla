----------------------------- MODULE MCJobQueue -----------------------------
(* Instances of JobQueue for TLC: a type with limit 1 below one with limit *)
(* 2, the lower one skipped when stopping.                                 *)
EXTENDS JobQueue
CONSTANTS w1, w2, w3, c1, o1
MCLimit == [t \in Types |-> t]
=============================================================================
