------------------------------ MODULE DisputedTx ------------------------------
(***************************************************************************)
(* A transaction that is in some proposed sets and not in others, and the  *)
(* votes of the tracked peers on it: class DisputedTx (DisputedTx.cpp).    *)
(* The code keeps the votes in a map and their sums in two counters.       *)
(***************************************************************************)
EXTENDS ConsensusRules

CONSTANT Peers

Vote == {"none", "yes", "no"}
Dispute == [ourVote: BOOLEAN, yays: Nat, nays: Nat, votes: [Peers -> Vote]]

NewDispute(ourVote) ==
  [ourVote |-> ourVote, yays |-> 0, nays |-> 0,
   votes |-> [p \in Peers |-> "none"]]

Holding(d, S, v) == Cardinality({p \in S : d.votes[p] = v})
Recorded(d, S, v) == [p \in Peers |-> IF p \in S THEN v ELSE d.votes[p]]

(* The vote of a set: the Boolean votesYes of the code. *)
VoteOf(t, s) == IF t \in s THEN "yes" ELSE "no"

(* Mutant: a changed vote is counted without taking the old one back. *)
SetVoteNoUndo(d, S, vote) ==
  LET fresh == Cardinality(S) - Holding(d, S, vote) IN
  [d EXCEPT !.votes = Recorded(d, S, vote),
            !.yays = @ + (IF vote = "yes" THEN fresh ELSE 0),
            !.nays = @ + (IF vote = "no" THEN fresh ELSE 0)]

(* setVote, called with the same vote for every peer of S: a new vote is   *)
(* counted, a changed one moves a unit from one counter to the other.      *)
SetVote(d, S, vote) ==
  LET cast(v) == (IF vote = v THEN Cardinality(S) ELSE 0) - Holding(d, S, v) IN
  [d EXCEPT !.votes = Recorded(d, S, vote),
            !.yays = @ + cast("yes"),
            !.nays = @ + cast("no")]

(* unVote, called for every peer of S. *)
UnVote(d, S) ==
  [d EXCEPT !.votes = Recorded(d, S, "none"),
            !.yays = @ - Holding(d, S, "yes"),
            !.nays = @ - Holding(d, S, "no")]

(* The vote updateVote leaves in mOurVote. *)
UpdatedVote(d, percentTime, proposing) ==
  LET unanimous == IF d.ourVote THEN d.nays = 0 ELSE d.yays = 0
      weight == (d.yays * 100 + (IF d.ourVote THEN 100 ELSE 0))
                  \div (d.nays + d.yays + 1) IN
  CASE unanimous -> d.ourVote
    [] ~unanimous /\ proposing -> weight > AvalancheThreshold(percentTime)
    [] ~unanimous /\ ~proposing -> d.yays > d.nays
===============================================================================
