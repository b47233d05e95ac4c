----------------------------- MODULE WriteBehind -----------------------------
(***************************************************************************)
(* What a write-behind queue promises, independent of how it is built: a   *)
(* caller puts items and goes on; they are written in the order in which   *)
(* they were put, none is dropped and none is written twice; and a caller  *)
(* that waits returns only after everything put before is written.         *)
(*                                                                         *)
(* ValidationsImp (validations on their way to the database) and           *)
(* NodeStore::BatchWriter (node objects on their way to a backend) are two *)
(* implementations of it, each with its own lock, flag and job.            *)
(***************************************************************************)
EXTENDS Naturals, Sequences

CONSTANTS
  Items,     \* what can be put
  MaxItems   \* bound: number of items ever put

VARIABLES
  pending,   \* put and not yet written, oldest first
  written,   \* written, oldest first
  waiter,    \* the caller that waits: "away", "waiting" or "returned"
  mark       \* number of items the waiter waits for

vars == <<pending, written, waiter, mark>>

PutSoFar == Len(written) + Len(pending)

Init ==
  /\ pending = <<>>
  /\ written = <<>>
  /\ waiter = "away"
  /\ mark = 0

(* Items are appended to what is pending. *)
Appended ==
  /\ pending' \in Seq(Items)
  /\ Len(pending') >= Len(pending)
  /\ SubSeq(pending', 1, Len(pending)) = pending

Put ==
  /\ Appended
  /\ UNCHANGED <<written, waiter, mark>>

(* The oldest k items are written. *)
Write ==
  /\ \E k \in 1 .. Len(pending) :
       /\ written' = written \o SubSeq(pending, 1, k)
       /\ pending' = SubSeq(pending, k + 1, Len(pending))
  /\ UNCHANGED <<waiter, mark>>

(* The waiter may put some last items when it starts to wait. *)
Wait ==
  /\ waiter = "away"
  /\ waiter' = "waiting"
  /\ Appended
  /\ mark' = Len(written) + Len(pending')
  /\ UNCHANGED written

Return ==
  /\ waiter = "waiting"
  /\ Len(written) >= mark
  /\ waiter' = "returned"
  /\ UNCHANGED <<pending, written, mark>>

Next == Put \/ Write \/ Wait \/ Return

SafeSpec == Init /\ [][Next]_vars

(* Whatever is put gets written, and the waiter returns. *)
Live ==
  /\ \A n \in 1 .. MaxItems : (PutSoFar >= n) ~> (Len(written) >= n)
  /\ (waiter = "waiting") ~> (waiter = "returned")
==============================================================================
