------------------------------ MODULE RangeSet -------------------------------
(***************************************************************************)
(* The sparse set of integers RangeSet (src/ripple/basics/impl/            *)
(* RangeSet.cpp), in which LedgerMaster keeps the ledgers it has.  mRanges *)
(* maps the first value of every range to its last one; here it is the set *)
(* of those pairs.                                                         *)
(***************************************************************************)
EXTENDS Naturals

(* The members of the set. *)
Values(mRanges) == UNION {r[1] .. r[2] : r \in mRanges}

hasValue(mRanges, v) == \E r \in mRanges : r[1] <= v /\ v <= r[2]

(* simplify: ranges that overlap or touch become one. *)
simplify(mRanges) ==
  {<<p[1][1], p[2][2]>> : p \in
     {q \in mRanges \X mRanges :
        /\ \A v \in q[1][1] .. q[2][2] : hasValue(mRanges, v)
        /\ q[1][1] <= q[2][2]
        /\ q[1][1] = 0 \/ ~ hasValue(mRanges, q[1][1] - 1)
        /\ ~ hasValue(mRanges, q[2][2] + 1)}}

setValue(mRanges, v) ==
  IF hasValue(mRanges, v) THEN mRanges ELSE simplify(mRanges \union {<<v, v>>})

(* setRange: the lower end moves up over values that are present, to the   *)
(* first one that is not; nothing is done when it reaches the upper end    *)
(* that way.                                                               *)
setRange(mRanges, minV, maxV) ==
  LET first == {v \in minV .. maxV : /\ ~ hasValue(mRanges, v)
                                     /\ \A u \in minV .. (v - 1) :
                                          hasValue(mRanges, u)}
  IN IF first = {} \/ (first = {maxV} /\ minV # maxV)
       THEN mRanges
       ELSE simplify(mRanges \union {<<v, maxV>> : v \in first})

clearValue(mRanges, v) ==
  {r \in mRanges : ~ (r[1] <= v /\ v <= r[2])}
    \union {p \in UNION {{<<r[1], v - 1>>, <<v + 1, r[2]>>} :
                           r \in {q \in mRanges : q[1] <= v /\ v <= q[2]}} :
              p[1] <= p[2]}

(* prevMissing: the largest number below v that is not in the set; v is    *)
(* not 0 where it is called.                                               *)
prevMissing(mRanges, v) ==
  IF hasValue(mRanges, v - 1)
    THEN (CHOOSE r \in mRanges : r[1] <= v - 1 /\ v - 1 <= r[2])[1] - 1
    ELSE v - 1
==============================================================================
