------------------------- MODULE LedgerMaster_proofs -------------------------
(***************************************************************************)
(* Proofs about LedgerMaster for every chain, every number of validators   *)
(* and every setting: the advance job is not lost (AdvanceNotLost), what   *)
(* is announced as complete is saved (CompleteSaved), and subscribers see  *)
(* the validated ledgers in order (PublishedInOrder).                      *)
(***************************************************************************)
EXTENDS LedgerMaster, SequenceTheorems, Integers, TLAPS

-----------------------------------------------------------------------------
(* The range set.  Its ranges are canonical when none is empty, no two of  *)
(* them overlap and no two of them touch.                                  *)

Ranges == Seqs \X Seqs

Canonical(R) ==
  /\ \A r \in R : /\ r[1] <= r[2]
                  /\ ~ hasValue(R, r[1] - 1)
                  /\ ~ hasValue(R, r[2] + 1)
  /\ \A r, q \in R : r[1] <= q[2] /\ q[1] <= r[2] => r = q

LEMMA RangeType ==
  ASSUME NEW r \in Ranges
  PROVE  r = <<r[1], r[2]>> /\ r[1] \in Seqs /\ r[2] \in Seqs
  BY DEF Ranges

LEMMA SeqsType == MaxSeq \in Nat /\ Seqs \subseteq Nat /\ \A s \in Seqs : s >= 1
  BY ChainAssumption DEF Seqs

(* The members of a range set are what hasValue finds. *)
LEMMA ValuesHas ==
  ASSUME NEW R \in SUBSET Ranges, NEW v \in Nat
  PROVE  v \in Values(R) <=> hasValue(R, v)
  BY RangeType, SeqsType DEF Values, hasValue

(* A range of simplify(R) is a longest run of the values of R. *)
LEMMA SimplifyRange ==
  ASSUME NEW R \in SUBSET Ranges, NEW x \in simplify(R)
  PROVE  /\ x \in Ranges /\ x[1] <= x[2]
         /\ \E p, q \in R : x[1] = p[1] /\ x[2] = q[2]
         /\ \A v \in x[1] .. x[2] : hasValue(R, v)
         /\ ~ hasValue(R, x[1] - 1) /\ ~ hasValue(R, x[2] + 1)
  <1>1. PICK q \in R \X R :
          /\ x = <<q[1][1], q[2][2]>>
          /\ \A v \in q[1][1] .. q[2][2] : hasValue(R, v)
          /\ q[1][1] <= q[2][2]
          /\ q[1][1] = 0 \/ ~ hasValue(R, q[1][1] - 1)
          /\ ~ hasValue(R, q[2][2] + 1)
    BY DEF simplify
  <1>2. q[1] \in R /\ q[2] \in R
    BY <1>1
  <1>3. q[1][1] \in Seqs /\ q[2][2] \in Seqs /\ q[1][1] # 0
    BY <1>2, RangeType, SeqsType
  <1>4. x[1] = q[1][1] /\ x[2] = q[2][2] /\ x \in Ranges
    BY <1>1, <1>3 DEF Ranges
  <1> QED BY <1>1, <1>2, <1>3, <1>4

LEMMA SimplifyIntro ==
  ASSUME NEW R \in SUBSET Ranges, NEW p \in R, NEW q \in R, p[1] <= q[2],
         \A v \in p[1] .. q[2] : hasValue(R, v),
         ~ hasValue(R, p[1] - 1), ~ hasValue(R, q[2] + 1)
  PROVE  <<p[1], q[2]>> \in simplify(R)
  <1> DEFINE z == <<p, q>>
  <1>1. z \in R \X R /\ z[1] = p /\ z[2] = q
    OBVIOUS
  <1> HIDE DEF z
  <1>2. <<z[1][1], z[2][2]>> \in simplify(R)
    BY <1>1 DEF simplify
  <1> QED BY <1>1, <1>2

(* simplify returns canonical ranges, of values the set had. *)
LEMMA SimplifyCanonical ==
  ASSUME NEW R \in SUBSET Ranges
  PROVE  /\ simplify(R) \in SUBSET Ranges
         /\ Canonical(simplify(R))
         /\ \A v \in Nat : hasValue(simplify(R), v) => hasValue(R, v)
  <1>1. simplify(R) \in SUBSET Ranges
    BY SimplifyRange
  <1>2. ASSUME NEW v \in Nat, hasValue(simplify(R), v)
        PROVE  hasValue(R, v)
    <2>1. PICK x \in simplify(R) : x[1] <= v /\ v <= x[2]
      BY <1>2 DEF hasValue
    <2>2. x[1] \in Nat /\ x[2] \in Nat /\ \A u \in x[1] .. x[2] : hasValue(R, u)
      BY SimplifyRange, RangeType, SeqsType
    <2> QED BY <2>1, <2>2
  <1>3. ASSUME NEW x \in simplify(R)
        PROVE  /\ x[1] <= x[2]
               /\ ~ hasValue(simplify(R), x[1] - 1)
               /\ ~ hasValue(simplify(R), x[2] + 1)
    <2>1. x[1] - 1 \in Nat /\ x[2] + 1 \in Nat
      BY SimplifyRange, RangeType, SeqsType
    <2> QED BY <1>2, <2>1, SimplifyRange
  <1>4. ASSUME NEW x \in simplify(R), NEW y \in simplify(R),
               x[1] <= y[2], y[1] <= x[2]
        PROVE  x = y
    <2>1. /\ x = <<x[1], x[2]>> /\ x[1] \in Nat /\ x[2] \in Nat /\ x[1] >= 1
          /\ y = <<y[1], y[2]>> /\ y[1] \in Nat /\ y[2] \in Nat /\ y[1] >= 1
      BY SimplifyRange, RangeType, SeqsType
    <2>2. /\ \A v \in x[1] .. x[2] : hasValue(R, v)
          /\ \A v \in y[1] .. y[2] : hasValue(R, v)
      BY SimplifyRange
    <2>3. /\ ~ hasValue(R, x[1] - 1) /\ ~ hasValue(R, x[2] + 1)
          /\ ~ hasValue(R, y[1] - 1) /\ ~ hasValue(R, y[2] + 1)
      BY SimplifyRange
    <2>4. x[1] <= x[2] /\ y[1] <= y[2]
      BY SimplifyRange
    <2>5. ~ x[1] < y[1]
      BY <1>4, <2>1, <2>2, <2>3, <2>4
    <2>6. ~ y[1] < x[1]
      BY <1>4, <2>1, <2>2, <2>3, <2>4
    <2>7. ~ x[2] < y[2]
      BY <1>4, <2>1, <2>2, <2>3, <2>4
    <2>8. ~ y[2] < x[2]
      BY <1>4, <2>1, <2>2, <2>3, <2>4
    <2> QED BY <2>1, <2>5, <2>6, <2>7, <2>8
  <1> QED BY <1>1, <1>2, <1>3, <1>4 DEF Canonical

(* Canonical ranges are left as they are. *)
LEMMA CanonicalFixed ==
  ASSUME NEW R \in SUBSET Ranges, Canonical(R)
  PROVE  simplify(R) = R
  <1>1. ASSUME NEW r \in R PROVE r \in simplify(R)
    <2>1. r = <<r[1], r[2]>> /\ r[1] \in Nat /\ r[2] \in Nat /\ r[1] <= r[2]
      BY RangeType, SeqsType DEF Canonical
    <2>2. \A v \in r[1] .. r[2] : hasValue(R, v)
      BY <2>1 DEF hasValue
    <2> QED BY <2>1, <2>2, SimplifyIntro DEF Canonical
  <1>2. ASSUME NEW x \in simplify(R) PROVE x \in R
    <2>1. PICK p \in R, q \in R : x[1] = p[1] /\ x[2] = q[2]
      BY SimplifyRange
    <2>2. /\ x[1] <= x[2] /\ \A v \in x[1] .. x[2] : hasValue(R, v)
          /\ x = <<x[1], x[2]>>
      BY SimplifyRange, RangeType
    <2>3. /\ p = <<p[1], p[2]>> /\ p[1] \in Nat /\ p[2] \in Nat
          /\ q[1] \in Nat /\ q[2] \in Nat
      BY RangeType, SeqsType
    <2>4. p[1] <= p[2] /\ q[1] <= q[2] /\ ~ hasValue(R, p[2] + 1)
      BY DEF Canonical
    <2>5. ~ p[2] < q[2]
      BY <2>1, <2>2, <2>3, <2>4
    <2>6. p = q
      BY <2>1, <2>2, <2>3, <2>4, <2>5 DEF Canonical
    <2> QED BY <2>1, <2>2, <2>3, <2>6
  <1> QED BY <1>1, <1>2

(* A range added to canonical ranges: exactly its values are added. *)
LEMMA AddRange ==
  ASSUME NEW R \in SUBSET Ranges, Canonical(R),
         NEW a \in Seqs, NEW b \in Seqs, a <= b, NEW v \in Nat
  PROVE  LET Q == R \union {<<a, b>>} IN
         hasValue(simplify(Q), v) <=> hasValue(R, v) \/ (a <= v /\ v <= b)
  <1> DEFINE Q == R \union {<<a, b>>}
  <1>1. Q \in SUBSET Ranges /\ a \in Nat /\ b \in Nat /\ a >= 1
    BY SeqsType DEF Ranges
  <1>12. R \subseteq Q /\ <<a, b>> \in Q
    OBVIOUS
  <1>2. \A u \in Nat : hasValue(Q, u) <=> hasValue(R, u) \/ (a <= u /\ u <= b)
    BY <1>1, RangeType, SeqsType DEF hasValue
  <1> HIDE DEF Q
  <1>3. \A r \in R : /\ r = <<r[1], r[2]>> /\ r[1] \in Nat /\ r[2] \in Nat
                     /\ r[1] >= 1 /\ r[1] <= r[2]
                     /\ ~ hasValue(R, r[1] - 1) /\ ~ hasValue(R, r[2] + 1)
    BY RangeType, SeqsType DEF Canonical
  <1>4. \A r, q \in R : r[1] <= q[2] /\ q[1] <= r[2] => r = q
    BY DEF Canonical
  <1>5. \A r \in R : \A u \in r[1] .. r[2] : hasValue(R, u)
    BY <1>3 DEF hasValue
  <1>6. hasValue(simplify(Q), v) => hasValue(R, v) \/ (a <= v /\ v <= b)
    BY <1>1, <1>2, SimplifyCanonical
  <1>7. ASSUME NEW r \in R, r[1] <= v, v <= r[2], r[2] + 1 < a \/ b + 1 < r[1]
        PROVE  hasValue(simplify(Q), v)
    <2>1. ~ hasValue(Q, r[1] - 1) /\ ~ hasValue(Q, r[2] + 1)
      <3>1. /\ r[1] - 1 \in Nat /\ ~ (a <= r[1] - 1 /\ r[1] - 1 <= b)
            /\ r[2] + 1 \in Nat /\ ~ (a <= r[2] + 1 /\ r[2] + 1 <= b)
        BY <1>1, <1>3, <1>7
      <3> QED BY <1>2, <1>3, <3>1
    <2>2. \A u \in r[1] .. r[2] : hasValue(Q, u)
      BY <1>2, <1>3, <1>5
    <2>3. <<r[1], r[2]>> \in simplify(Q)
      BY <1>1, <1>3, <1>12, <2>1, <2>2, SimplifyIntro
    <2> QED BY <1>3, <1>7, <2>3 DEF hasValue
  <1>8. \E l \in Q : /\ l[1] \in Nat /\ l[1] >= 1 /\ l[1] <= a
                     /\ \A u \in l[1] .. a : hasValue(Q, u)
                     /\ ~ hasValue(Q, l[1] - 1)
                     /\ \A r \in R : r[1] < a /\ a <= r[2] + 1 => l[1] <= r[1]
    <2>1. CASE \E p \in R : p[1] <= a /\ a <= p[2] + 1
      <3>1. PICK p \in R : p[1] <= a /\ a <= p[2] + 1
        BY <2>1
      <3>2. \A u \in p[1] .. a : hasValue(Q, u)
        <4>1. ASSUME NEW u \in p[1] .. a PROVE hasValue(Q, u)
          <5>1. u \in Nat /\ (u \in p[1] .. p[2] \/ u = a)
            BY <1>1, <1>3, <3>1
          <5> QED BY <1>1, <1>2, <1>5, <5>1
        <4> QED BY <4>1
      <3>3. ~ hasValue(Q, p[1] - 1)
        <4>1. p[1] - 1 \in Nat /\ ~ a <= p[1] - 1
          BY <1>1, <1>3, <3>1
        <4> QED BY <1>2, <1>3, <4>1
      <3>4. ASSUME NEW r \in R, r[1] < a, a <= r[2] + 1 PROVE p[1] <= r[1]
        <4>1. p[1] <= r[2] \/ p[1] - 1 \in r[1] .. r[2]
          BY <1>1, <1>3, <3>1, <3>4
        <4>2. p[1] <= r[2]
          BY <1>3, <1>5, <4>1
        <4>3. r[1] <= p[2]
          BY <1>1, <1>3, <3>1, <3>4
        <4> QED BY <1>3, <1>4, <4>2, <4>3
      <3> QED BY <1>3, <1>12, <3>1, <3>2, <3>3, <3>4
    <2>2. CASE ~ \E p \in R : p[1] <= a /\ a <= p[2] + 1
      <3>1. ~ hasValue(R, a - 1)
        BY <1>1, <1>3, <2>2 DEF hasValue
      <3>2. ~ hasValue(Q, a - 1) /\ hasValue(Q, a)
        BY <1>1, <1>2, <3>1
      <3>3. \A r \in R : r[1] < a /\ a <= r[2] + 1 => FALSE
        BY <1>1, <1>3, <2>2
      <3>4. <<a, b>>[1] = a /\ \A u \in a .. a : u = a
        BY <1>1
      <3> QED BY <1>1, <1>12, <3>2, <3>3, <3>4
    <2> QED BY <2>1, <2>2
  <1>9. \E h \in Q : /\ h[2] \in Nat /\ b <= h[2]
                     /\ \A u \in b .. h[2] : hasValue(Q, u)
                     /\ ~ hasValue(Q, h[2] + 1)
                     /\ \A r \in R : r[1] <= b + 1 /\ b < r[2] => r[2] <= h[2]
    <2>1. CASE \E p \in R : p[1] <= b + 1 /\ b <= p[2]
      <3>1. PICK p \in R : p[1] <= b + 1 /\ b <= p[2]
        BY <2>1
      <3>2. \A u \in b .. p[2] : hasValue(Q, u)
        <4>1. ASSUME NEW u \in b .. p[2] PROVE hasValue(Q, u)
          <5>1. u \in Nat /\ (u \in p[1] .. p[2] \/ u = b)
            BY <1>1, <1>3, <3>1
          <5> QED BY <1>1, <1>2, <1>5, <5>1
        <4> QED BY <4>1
      <3>3. ~ hasValue(Q, p[2] + 1)
        <4>1. p[2] + 1 \in Nat /\ ~ p[2] + 1 <= b
          BY <1>1, <1>3, <3>1
        <4> QED BY <1>2, <1>3, <4>1
      <3>4. ASSUME NEW r \in R, r[1] <= b + 1, b < r[2] PROVE r[2] <= p[2]
        <4>1. r[1] <= p[2] \/ p[2] + 1 \in r[1] .. r[2]
          BY <1>1, <1>3, <3>1, <3>4
        <4>2. r[1] <= p[2]
          BY <1>3, <1>5, <4>1
        <4>3. p[1] <= r[2]
          BY <1>1, <1>3, <3>1, <3>4
        <4> QED BY <1>3, <1>4, <4>2, <4>3
      <3> QED BY <1>3, <1>12, <3>1, <3>2, <3>3, <3>4
    <2>2. CASE ~ \E p \in R : p[1] <= b + 1 /\ b <= p[2]
      <3>1. ~ hasValue(R, b + 1)
        BY <1>1, <1>3, <2>2 DEF hasValue
      <3>2. ~ hasValue(Q, b + 1) /\ hasValue(Q, b)
        BY <1>1, <1>2, <3>1
      <3>3. \A r \in R : r[1] <= b + 1 /\ b < r[2] => FALSE
        BY <1>1, <1>3, <2>2
      <3>4. <<a, b>>[2] = b /\ \A u \in b .. b : u = b
        BY <1>1
      <3> QED BY <1>1, <1>12, <3>2, <3>3, <3>4
    <2> QED BY <2>1, <2>2
  <1>10. ASSUME \/ a <= v /\ v <= b
                \/ \E r \in R : /\ r[1] <= v /\ v <= r[2]
                                /\ ~ (r[2] + 1 < a \/ b + 1 < r[1])
         PROVE  hasValue(simplify(Q), v)
    <2>1. PICK l \in Q : /\ l[1] \in Nat /\ l[1] >= 1 /\ l[1] <= a
                         /\ \A u \in l[1] .. a : hasValue(Q, u)
                         /\ ~ hasValue(Q, l[1] - 1)
                         /\ \A r \in R : r[1] < a /\ a <= r[2] + 1 => l[1] <= r[1]
      BY <1>8
    <2>2. PICK h \in Q : /\ h[2] \in Nat /\ b <= h[2]
                         /\ \A u \in b .. h[2] : hasValue(Q, u)
                         /\ ~ hasValue(Q, h[2] + 1)
                         /\ \A r \in R : r[1] <= b + 1 /\ b < r[2] => r[2] <= h[2]
      BY <1>9
    <2>3. \A u \in l[1] .. h[2] : hasValue(Q, u)
      <3>1. ASSUME NEW u \in l[1] .. h[2] PROVE hasValue(Q, u)
        <4>1. u \in Nat
              /\ (u \in l[1] .. a \/ u \in b .. h[2] \/ (a <= u /\ u <= b))
          BY <1>1, <2>1, <2>2
        <4> QED BY <1>2, <2>1, <2>2, <4>1
      <3> QED BY <3>1
    <2>4. <<l[1], h[2]>> \in simplify(Q)
      <3>1. l[1] <= h[2]
        BY <1>1, <2>1, <2>2
      <3> QED BY <1>1, <2>1, <2>2, <2>3, <3>1, SimplifyIntro
    <2>5. l[1] <= v /\ v <= h[2]
      BY <1>1, <1>3, <1>10, <2>1, <2>2
    <2> QED BY <2>4, <2>5 DEF hasValue
  <1>11. hasValue(R, v) => \E r \in R : r[1] <= v /\ v <= r[2]
    BY DEF hasValue
  <1> QED BY <1>6, <1>7, <1>10, <1>11 DEF Q

LEMMA SetValue ==
  ASSUME NEW R \in SUBSET Ranges, Canonical(R), NEW s \in Seqs
  PROVE  /\ setValue(R, s) \in SUBSET Ranges /\ Canonical(setValue(R, s))
         /\ \A v \in Nat : hasValue(setValue(R, s), v)
                             <=> hasValue(R, v) \/ v = s
  <1>1. CASE hasValue(R, s)
    BY <1>1 DEF setValue
  <1>2. CASE ~ hasValue(R, s)
    <2>1. setValue(R, s) = simplify(R \union {<<s, s>>})
      BY <1>2 DEF setValue
    <2>2. R \union {<<s, s>>} \in SUBSET Ranges
      BY DEF Ranges
    <2>3. s \in Nat /\ s <= s
      BY SeqsType
    <2>4. \A v \in Nat : (s <= v /\ v <= s) <=> v = s
      BY <2>3
    <2> QED BY <2>1, <2>2, <2>3, <2>4, SimplifyCanonical, AddRange
  <1> QED BY <1>1, <1>2

LEMMA SetRange ==
  ASSUME NEW R \in SUBSET Ranges, Canonical(R),
         NEW lo \in Seqs, NEW hi \in Seqs
  PROVE  /\ setRange(R, lo, hi) \in SUBSET Ranges
         /\ Canonical(setRange(R, lo, hi))
         /\ \A v \in Nat : hasValue(R, v) => hasValue(setRange(R, lo, hi), v)
         /\ \A v \in Nat : hasValue(setRange(R, lo, hi), v) =>
              hasValue(R, v) \/ v \in lo .. hi
  <1> DEFINE first == {v \in lo .. hi : /\ ~ hasValue(R, v)
                                        /\ \A u \in lo .. (v - 1) :
                                             hasValue(R, u)}
             Q == R \union {<<v, hi>> : v \in first}
  <1>1. setRange(R, lo, hi) = R \/ (first # {} /\ setRange(R, lo, hi) = simplify(Q))
    BY DEF setRange
  <1>2. lo \in Nat /\ hi \in Nat /\ hi <= MaxSeq /\ lo >= 1 /\ MaxSeq \in Nat
    BY ChainAssumption DEF Seqs
  <1>3. CASE first # {} /\ setRange(R, lo, hi) = simplify(Q)
    <2>1. PICK a \in first : TRUE
      BY <1>3
    <2>2. a \in Seqs /\ a \in lo .. hi /\ a <= hi
      BY <1>2, <2>1 DEF Seqs
    <2>3. ASSUME NEW c \in first PROVE c = a
      <3>1. c \in lo .. hi /\ a \in lo .. hi
        BY <2>1
      <3>2. ~ a < c
        BY <1>2, <2>1, <3>1
      <3>3. ~ c < a
        BY <1>2, <2>1, <3>1
      <3> QED BY <1>2, <3>1, <3>2, <3>3
    <2>4. Q = R \union {<<a, hi>>}
      BY <2>1, <2>3
    <2>5. Q \in SUBSET Ranges
      BY <2>2, <2>4 DEF Ranges
    <2>6. simplify(Q) \in SUBSET Ranges /\ Canonical(simplify(Q))
      BY <2>5, SimplifyCanonical
    <2> HIDE DEF first, Q
    <2>7. \A v \in Nat : hasValue(simplify(Q), v)
                           <=> hasValue(R, v) \/ (a <= v /\ v <= hi)
      BY <2>2, <2>4, AddRange
    <2>8. \A v \in Nat : a <= v /\ v <= hi => v \in lo .. hi
      BY <1>2, <2>2
    <2> QED BY <1>3, <2>6, <2>7, <2>8
  <1> QED BY <1>1, <1>3

LEMMA ClearValue ==
  ASSUME NEW R \in SUBSET Ranges, Canonical(R), NEW s \in Nat
  PROVE  /\ clearValue(R, s) \in SUBSET Ranges /\ Canonical(clearValue(R, s))
         /\ \A v \in Nat : hasValue(clearValue(R, s), v)
                             <=> hasValue(R, v) /\ v # s
  <1> DEFINE C == clearValue(R, s)
  <1>1. \A r \in R : /\ r = <<r[1], r[2]>> /\ r[1] \in Nat /\ r[2] \in Nat
                     /\ r[1] >= 1 /\ r[1] <= r[2] /\ r[2] <= MaxSeq
                     /\ ~ hasValue(R, r[1] - 1) /\ ~ hasValue(R, r[2] + 1)
    BY RangeType, SeqsType DEF Canonical, Seqs
  <1>2. MaxSeq \in Nat
    BY SeqsType
  <1>3. \A c \in C : \E r \in R :
          \/ c = r /\ ~ (r[1] <= s /\ s <= r[2])
          \/ r[1] <= s - 1 /\ s <= r[2] /\ c = <<r[1], s - 1>>
          \/ r[1] <= s /\ s + 1 <= r[2] /\ c = <<s + 1, r[2]>>
    BY <1>1 DEF clearValue
  <1>4. \A r \in R :
          /\ ~ (r[1] <= s /\ s <= r[2]) => r \in C
          /\ r[1] <= s - 1 /\ s <= r[2] => <<r[1], s - 1>> \in C
          /\ r[1] <= s /\ s + 1 <= r[2] => <<s + 1, r[2]>> \in C
    BY <1>1 DEF clearValue
  <1> HIDE DEF C
  <1>5. C \in SUBSET Ranges
    <2>1. ASSUME NEW c \in C PROVE c \in Ranges
      <3>1. PICK r \in R :
              \/ c = r /\ ~ (r[1] <= s /\ s <= r[2])
              \/ r[1] <= s - 1 /\ s <= r[2] /\ c = <<r[1], s - 1>>
              \/ r[1] <= s /\ s + 1 <= r[2] /\ c = <<s + 1, r[2]>>
        BY <1>3
      <3> QED BY <1>1, <1>2, <3>1 DEF Ranges, Seqs
    <2> QED BY <2>1
  <1>6. ASSUME NEW v \in Nat, hasValue(C, v) PROVE hasValue(R, v) /\ v # s
    <2>1. PICK c \in C : c[1] <= v /\ v <= c[2]
      BY <1>6 DEF hasValue
    <2>2. PICK r \in R :
            \/ c = r /\ ~ (r[1] <= s /\ s <= r[2])
            \/ r[1] <= s - 1 /\ s <= r[2] /\ c = <<r[1], s - 1>>
            \/ r[1] <= s /\ s + 1 <= r[2] /\ c = <<s + 1, r[2]>>
      BY <1>3
    <2>3. r[1] <= v /\ v <= r[2] /\ v # s
      BY <1>1, <2>1, <2>2
    <2> QED BY <2>3 DEF hasValue
  <1>7. ASSUME NEW v \in Nat, hasValue(R, v), v # s PROVE hasValue(C, v)
    <2>1. PICK r \in R : r[1] <= v /\ v <= r[2]
      BY <1>7 DEF hasValue
    <2>2. \E c \in C : c[1] <= v /\ v <= c[2]
      <3>1. CASE ~ (r[1] <= s /\ s <= r[2])
        BY <1>4, <2>1, <3>1
      <3>2. CASE s <= r[2] /\ v < s
        <4>1. r[1] <= s - 1 /\ v <= s - 1
          BY <1>1, <2>1, <3>2
        <4>2. <<r[1], s - 1>> \in C
          BY <1>4, <3>2, <4>1
        <4> QED BY <2>1, <4>1, <4>2
      <3>3. CASE r[1] <= s /\ s < v
        <4>1. s + 1 <= r[2] /\ s + 1 <= v
          BY <1>1, <2>1, <3>3
        <4>2. <<s + 1, r[2]>> \in C
          BY <1>4, <3>3, <4>1
        <4> QED BY <2>1, <4>1, <4>2
      <3> QED BY <1>1, <1>7, <2>1, <3>1, <3>2, <3>3
    <2> QED BY <2>2 DEF hasValue
  <1>8. ASSUME NEW c \in C
        PROVE  c[1] <= c[2] /\ ~ hasValue(C, c[1] - 1) /\ ~ hasValue(C, c[2] + 1)
    <2>1. PICK r \in R :
            \/ c = r /\ ~ (r[1] <= s /\ s <= r[2])
            \/ r[1] <= s - 1 /\ s <= r[2] /\ c = <<r[1], s - 1>>
            \/ r[1] <= s /\ s + 1 <= r[2] /\ c = <<s + 1, r[2]>>
      BY <1>3
    <2>2. /\ c[1] \in Nat /\ c[2] \in Nat /\ c[1] >= 1 /\ c[1] <= c[2]
          /\ c[1] = r[1] \/ c[1] - 1 = s
          /\ c[2] = r[2] \/ c[2] + 1 = s
      BY <1>1, <2>1
    <2>3. ~ hasValue(C, c[1] - 1)
      BY <1>1, <1>6, <2>2
    <2>4. ~ hasValue(C, c[2] + 1)
      BY <1>1, <1>6, <2>2
    <2> QED BY <2>2, <2>3, <2>4
  <1>9. ASSUME NEW c \in C, NEW d \in C, c[1] <= d[2], d[1] <= c[2]
        PROVE  c = d
    <2>1. PICK r \in R :
            \/ c = r /\ ~ (r[1] <= s /\ s <= r[2])
            \/ r[1] <= s - 1 /\ s <= r[2] /\ c = <<r[1], s - 1>>
            \/ r[1] <= s /\ s + 1 <= r[2] /\ c = <<s + 1, r[2]>>
      BY <1>3
    <2>2. PICK q \in R :
            \/ d = q /\ ~ (q[1] <= s /\ s <= q[2])
            \/ q[1] <= s - 1 /\ s <= q[2] /\ d = <<q[1], s - 1>>
            \/ q[1] <= s /\ s + 1 <= q[2] /\ d = <<s + 1, q[2]>>
      BY <1>3
    <2>3. r[1] <= c[1] /\ c[2] <= r[2] /\ q[1] <= d[1] /\ d[2] <= q[2]
      BY <1>1, <2>1, <2>2
    <2>4. c \in Ranges /\ d \in Ranges
      BY <1>5
    <2>5. c[1] \in Nat /\ c[2] \in Nat /\ d[1] \in Nat /\ d[2] \in Nat
      BY <2>4, RangeType, SeqsType
    <2>6. r[1] <= q[2] /\ q[1] <= r[2]
      BY <1>1, <1>9, <2>3, <2>5
    <2>7. r = q
      BY <2>6 DEF Canonical
    <2> QED BY <1>1, <1>9, <2>1, <2>2, <2>7
  <1>10. Canonical(C)
    BY <1>8, <1>9 DEF Canonical
  <1> QED BY <1>5, <1>6, <1>7, <1>10 DEF C

-----------------------------------------------------------------------------
(* The inductive invariant, by what it is about. *)

Held == sql \union saving \union lost

(* The advance job: AdvanceNotLost without its arithmetic, and that the    *)
(* job only runs once a ledger is valid.                                   *)
JobInv ==
  /\ adv.pc # "idle" => mAdvanceThread /\ jobs = 0
  /\ mAdvanceThread /\ adv.pc = "idle" => jobs = 1
  /\ ~ mAdvanceThread => jobs = 0
  /\ mAdvanceWork /\ mValidLedgerSeq # 0 => mAdvanceThread \/ "job" \in stalled
  /\ mFillInProgress # 0 <=> fill.at # "idle"
  /\ mAdvanceThread => mValidLedgerSeq # 0
  /\ adv.pc = "history" => adv.missing > 0

(* tryFill walks down through ledgers that are saved. *)
FillInv ==
  /\ fill.hashes \subseteq sql
  /\ fill.at # "idle" =>
       /\ 1 <= fill.min /\ fill.min <= fill.max
       /\ \A v \in fill.min .. fill.max : v \in Held
  /\ fill.at \in {"step", "hashes"} =>
       fill.seq <= fill.min /\ fill.min <= fill.seq + 1
  /\ fill.at = "step" => 1 <= fill.seq /\ fill.seq \in Held

CompleteInv ==
  /\ Canonical(mCompleteLedgers)
  /\ \A v \in Nat : hasValue(mCompleteLedgers, v) => v \in Held

(* Nothing older than the first ledger of this run becomes valid. *)
ChainInv ==
  /\ mPubLedgerSeq <= mValidLedgerSeq
  /\ mValidLedgerSeq # 0 => First <= mPubLedgerSeq
  /\ First <= lastBuilt + 1
  /\ mBuildingLedgerSeq # 0 => First <= mBuildingLedgerSeq
  /\ \A s \in Seqs : s < First => vals[s] = 0
  /\ mValidLedgerSeq = 0 =>
       /\ saving = {}
       /\ \A s \in Seqs : s < First => inbound[s] = "none" /\ s \notin dispatch

(* The last published ledger was not announced: it is the first one, or    *)
(* was taken across a gap.                                                 *)
Behind == stream = 0 \/ mPubLedgerSeq > stream + MAX_LEDGER_GAP

(* What the advance job is about to announce follows the last published    *)
(* ledger, or is that ledger, taken across a gap.                          *)
StreamInv ==
  /\ Behind \/ stream = mPubLedgerSeq
  /\ adv.pc = "scan" =>
       /\ mPubLedgerSeq < adv.next /\ adv.next <= adv.seq
       /\ adv.seq <= adv.hi + 1 /\ adv.hi <= mValidLedgerSeq
       /\ Len(adv.list) = adv.next - (mPubLedgerSeq + 1)
       /\ \A i \in 1 .. Len(adv.list) : adv.list[i] = mPubLedgerSeq + i
  /\ adv.pc \in {"publish", "announce"} =>
       /\ adv.list # <<>>
       /\ \A i \in 1 .. Len(adv.list) : adv.list[i] <= mValidLedgerSeq
       /\ \/ \A i \in 1 .. Len(adv.list) : adv.list[i] = mPubLedgerSeq + i
          \/ adv.list = <<mPubLedgerSeq>> /\ Behind /\ mPubLedgerSeq > First
  /\ adv.pc = "announce" =>
       hasValue(mCompleteLedgers, Head(adv.list)) \/ Head(adv.list) \in lost

MasterInv == TypeOK /\ JobInv /\ FillInv /\ CompleteInv /\ ChainInv /\ StreamInv

LEMMA InitInv == Init => MasterInv
  <1> SUFFICES ASSUME Init PROVE MasterInv
    OBVIOUS
  <1> USE ChainAssumption, SettingsAssumption DEF Init
  <1>1. TypeOK
    <2>1. adv \in AdvanceJob
      BY DEF Resting, AdvanceJob
    <2>2. fill \in FillJob
      BY DEF NotFilling, FillJob
    <2>3. InDatabase \subseteq Seqs /\ 0 \in 0 .. MaxSeq /\ 0 \in 0 .. MaxFaults
          /\ First - 1 \in 0 .. MaxSeq
      BY DEF Seqs
    <2>4. \A t \in Seqs : vals[t] <= Validators[t]
      OBVIOUS
    <2> QED BY <2>1, <2>2, <2>3, <2>4 DEF TypeOK
  <1>2. JobInv
    BY DEF JobInv, Resting, NotFilling
  <1>3. FillInv
    BY DEF FillInv, NotFilling
  <1>4. CompleteInv
    BY DEF CompleteInv, Canonical, hasValue
  <1>5. ChainInv
    BY DEF ChainInv, Seqs
  <1>6. StreamInv
    BY DEF StreamInv, Behind, Resting
  <1> QED BY <1>1, <1>2, <1>3, <1>4, <1>5, <1>6 DEF MasterInv

-----------------------------------------------------------------------------
(* What the parts of actions do. *)

LEMMA FaultType ==
  ASSUME TypeOK, NEW s, Fault(s)
  PROVE  faults' \in 0 .. MaxFaults
  BY SettingsAssumption DEF TypeOK, Fault

LEMMA AcquireType ==
  ASSUME TypeOK, NEW S, Acquire(S)
  PROVE  inbound' \in [Seqs -> {"none", "fetching", "failed"}]
  BY DEF TypeOK, Acquire

LEMMA LoopEndEffect ==
  ASSUME NEW p, LoopEnd(p)
  PROVE  \/ /\ adv' = [Resting EXCEPT !.pc = "top"]
            /\ mAdvanceWork' = TRUE /\ mAdvanceThread' = mAdvanceThread
         \/ /\ adv' = Resting
            /\ ~ mAdvanceWork /\ mAdvanceWork' = mAdvanceWork
            /\ mAdvanceThread' = FALSE
  BY DEF LoopEnd, Leave

LEMMA SaveNowEffect ==
  ASSUME TypeOK, NEW s \in Seqs, SaveNow(s)
  PROVE  /\ sql \subseteq sql' /\ sql' \subseteq Seqs /\ saving' = saving
         /\ lost \subseteq lost' /\ lost' \subseteq Seqs
         /\ s \in Held'
         /\ inbound' \in [Seqs -> {"none", "fetching", "failed"}]
         /\ faults' \in 0 .. MaxFaults
  <1>1. CASE s \in sql \union saving \union lost /\ UNCHANGED <<saves, inbound, faults>>
    BY <1>1 DEF TypeOK, Held, saves
  <1>2. CASE sql' = sql \union {s} /\ UNCHANGED <<saving, lost, inbound, faults>>
    BY <1>2 DEF TypeOK, Held
  <1>3. CASE /\ Fault(s) /\ lost' = lost \union {s}
             /\ inbound' = [inbound EXCEPT ![s] = "fetching"]
             /\ UNCHANGED <<sql, saving>>
    BY <1>3, FaultType DEF TypeOK, Held
  <1> QED BY <1>1, <1>2, <1>3 DEF SaveNow

LEMMA TryAdvanceEffect ==
  ASSUME TypeOK, JobInv, tryAdvance, mValidLedgerSeq' \in Nat,
         mValidLedgerSeq # 0 => mValidLedgerSeq' # 0, UNCHANGED adv
  PROVE  /\ mAdvanceWork' = TRUE /\ mAdvanceThread' \in BOOLEAN
         /\ jobs' \in Nat /\ stalled' \subseteq Stops
         /\ adv'.pc # "idle" => mAdvanceThread' /\ jobs' = 0
         /\ mAdvanceThread' /\ adv'.pc = "idle" => jobs' = 1
         /\ ~ mAdvanceThread' => jobs' = 0
         /\ mValidLedgerSeq' # 0 => mAdvanceThread'
         /\ mAdvanceThread' => mValidLedgerSeq' # 0
  <1>1. stalled' \subseteq Stops /\ mAdvanceWork' = TRUE
    BY DEF tryAdvance, Resumed, TypeOK
  <1>2. CASE ~ mAdvanceThread /\ mValidLedgerSeq' # 0
    <2>1. mAdvanceThread' = TRUE /\ jobs' = jobs + 1
      BY <1>2 DEF tryAdvance
    <2> QED BY <1>1, <1>2, <2>1 DEF JobInv, TypeOK
  <1>3. CASE ~ (~ mAdvanceThread /\ mValidLedgerSeq' # 0)
    <2>1. UNCHANGED <<mAdvanceThread, jobs>>
      BY <1>3 DEF tryAdvance
    <2> QED BY <1>1, <1>3, <2>1 DEF JobInv, TypeOK
  <1> QED BY <1>2, <1>3

-----------------------------------------------------------------------------
(* checkAccept, however it is called: it leaves the valid ledger, or takes *)
(* a later one and asks for the advance job.                               *)
AcceptEffect ==
  /\ \/ UNCHANGED <<mValidLedgerSeq, mPubLedgerSeq>>
     \/ /\ mValidLedgerSeq' \in Seqs /\ mValidLedgerSeq' > mValidLedgerSeq
        /\ mValidLedgerSeq = 0 => mValidLedgerSeq' >= First
        /\ mPubLedgerSeq = 0 => mPubLedgerSeq' = mValidLedgerSeq'
        /\ mPubLedgerSeq # 0 => mPubLedgerSeq' = mPubLedgerSeq
  /\ tryAdvance \/ UNCHANGED <<mValidLedgerSeq, work>>
  /\ sql \subseteq sql' /\ sql' \subseteq Seqs /\ saving' = saving
  /\ lost \subseteq lost' /\ lost' \subseteq Seqs
  /\ inbound' \in [Seqs -> {"none", "fetching", "failed"}]
  /\ mValidLedgerSeq' = 0 =>
       \A s \in Seqs : s < First => inbound'[s] = inbound[s]
  /\ faults' \in 0 .. MaxFaults

LEMMA AcceptNothing ==
  ASSUME TypeOK, UNCHANGED <<mValidLedgerSeq, mPubLedgerSeq, saves, faults>>,
         inbound' \in [Seqs -> {"none", "fetching", "failed"}],
         \A s \in Seqs : s < First => inbound'[s] = inbound[s],
         tryAdvance \/ UNCHANGED work
  PROVE  AcceptEffect
  BY DEF AcceptEffect, TypeOK, saves

LEMMA AcceptLedgerEffect ==
  ASSUME TypeOK, NEW s \in Seqs, mValidLedgerSeq = 0 => s >= First,
         AcceptLedger(s)
  PROVE  AcceptEffect
  <1>1. CASE s > mValidLedgerSeq /\ vals'[s] >= getNeededValidations
    <2>1. /\ mValidLedgerSeq' = s /\ tryAdvance
          /\ IF mPubLedgerSeq = 0
               THEN mPubLedgerSeq' = s /\ SaveNow(s)
               ELSE UNCHANGED <<mPubLedgerSeq, saves, inbound, faults>>
      BY <1>1 DEF AcceptLedger
    <2>2. s # 0
      BY SeqsType
    <2>3. CASE mPubLedgerSeq = 0
      BY <1>1, <2>1, <2>2, <2>3, SaveNowEffect DEF AcceptEffect
    <2>4. CASE mPubLedgerSeq # 0
      BY <1>1, <2>1, <2>2, <2>4 DEF AcceptEffect, TypeOK, saves
    <2> QED BY <2>3, <2>4
  <1>2. CASE ~ (s > mValidLedgerSeq /\ vals'[s] >= getNeededValidations)
    <2>1. UNCHANGED <<mValidLedgerSeq, mPubLedgerSeq, work, saves, inbound,
                      faults>>
      BY <1>2 DEF AcceptLedger
    <2> QED BY <2>1, AcceptNothing DEF TypeOK
  <1> QED BY <1>1, <1>2

LEMMA AcceptHashEffect ==
  ASSUME TypeOK, NEW s \in Seqs, s >= First, AcceptHash(s)
  PROVE  AcceptEffect
  <1>1. CASE UNCHANGED <<mValidLedgerSeq, mPubLedgerSeq, work, saves, inbound,
                         faults>>
    BY <1>1, AcceptNothing DEF TypeOK
  <1>2. CASE AcceptLedger(s)
    BY <1>2, AcceptLedgerEffect
  <1>3. CASE Acquire({s}) /\ UNCHANGED <<mValidLedgerSeq, mPubLedgerSeq, work,
                                         saves, faults>>
    <2>1. \A t \in Seqs : t < First => inbound'[t] = inbound[t]
      BY <1>3, ChainAssumption DEF Acquire, Seqs
    <2> QED BY <1>3, <2>1, AcquireType, AcceptNothing
  <1> QED BY <1>1, <1>2, <1>3 DEF AcceptHash

(* The actions that end in checkAccept. *)
Accepting ==
  /\ AcceptEffect
  /\ UNCHANGED <<adv, filling, mCompleteLedgers, lastBuilt, mRecentFailures,
                 stream>>
  /\ mBuildingLedgerSeq' \in {0, mBuildingLedgerSeq}
  /\ have' \subseteq Seqs
  /\ dispatch' \subseteq dispatch
  /\ vals' \in [Seqs -> Nat]
  /\ \A s \in Seqs : vals'[s] <= Validators[s] /\ (s < First => vals'[s] = vals[s])

LEMMA AddValidationAccepts ==
  ASSUME MasterInv, NEW s \in Seqs, AddValidation(s)
  PROVE  Accepting
  <1>1. TypeOK
    BY DEF MasterInv
  <1>2. AcceptEffect
    BY <1>1, AcceptHashEffect DEF AddValidation
  <1>3. /\ vals' \in [Seqs -> Nat]
        /\ \A t \in Seqs : vals'[t] <= Validators[t] /\ (t < First => vals'[t] = vals[t])
    BY <1>1, ChainAssumption DEF AddValidation, TypeOK, Seqs
  <1> QED BY <1>1, <1>2, <1>3 DEF AddValidation, Accepting, TypeOK, building

LEMMA LADispatchAccepts ==
  ASSUME MasterInv, NEW s \in Seqs, LADispatch(s)
  PROVE  Accepting
  <1>1. TypeOK /\ ChainInv
    BY DEF MasterInv
  <1>2. s \in dispatch /\ UNCHANGED vals
    BY DEF LADispatch
  <1>3. AcceptEffect
    <2>1. CASE AcceptLedger(s)
      <3>1. mValidLedgerSeq = 0 => s >= First
        BY <1>1, <1>2, ChainAssumption DEF ChainInv, Seqs
      <3> QED BY <1>1, <2>1, <3>1, AcceptLedgerEffect
    <2>2. CASE /\ UNCHANGED <<mValidLedgerSeq, mPubLedgerSeq, saves, inbound,
                              faults>>
               /\ tryAdvance
      BY <1>1, <2>2, AcceptNothing DEF TypeOK
    <2> QED BY <2>1, <2>2 DEF LADispatch
  <1> QED BY <1>1, <1>2, <1>3 DEF LADispatch, Accepting, TypeOK, building

LEMMA NeededType ==
  ASSUME TypeOK
  PROVE  getNeededValidations \in Nat
  <1>1. mMinValidations \in Nat /\ MIN_VALIDATION_RATIO \in Nat
    BY SettingsAssumption
  <1>2. mValidLedgerSeq # 0 => vals[mValidLedgerSeq] \in Nat
    BY ChainAssumption DEF TypeOK, Seqs
  <1> DEFINE val == IF mValidLedgerSeq = 0 THEN 0
                    ELSE (vals[mValidLedgerSeq] * MIN_VALIDATION_RATIO) \div 256
  <1>3. val \in Int
    BY <1>1, <1>2
  <1>4. getNeededValidations = IF val > mMinValidations THEN val ELSE mMinValidations
    BY DEF getNeededValidations
  <1> HIDE DEF val
  <1> QED BY <1>1, <1>3, <1>4

LEMMA ConsensusBuiltAccepts ==
  ASSUME MasterInv, NEW onChain \in BOOLEAN, consensusBuilt(onChain)
  PROVE  Accepting
  <1>1. TypeOK /\ ChainInv
    BY DEF MasterInv
  <1>2. UNCHANGED vals /\ mBuildingLedgerSeq # 0
    BY DEF consensusBuilt
  <1>3. mBuildingLedgerSeq \in Seqs /\ mBuildingLedgerSeq >= First
    BY <1>1, <1>2, ChainAssumption DEF TypeOK, ChainInv, Seqs
  <1>4. AcceptEffect
    <2>1. CASE AcceptLedger(mBuildingLedgerSeq)
      BY <1>1, <1>3, <2>1, AcceptLedgerEffect
    <2>2. CASE UNCHANGED <<mValidLedgerSeq, mPubLedgerSeq, work, saves,
                           inbound, faults>>
      BY <1>1, <2>2, AcceptNothing DEF TypeOK
    <2>3. ASSUME NEW t \in Saved, AcceptHash(t) PROVE AcceptEffect
      <3>1. t \in Seqs /\ vals[t] > getNeededValidations /\ vals[t] \in Nat
        BY <1>1 DEF Saved, TypeOK
      <3>2. vals[t] # 0
        BY <1>1, <3>1, NeededType
      <3>3. t >= First
        BY <1>1, <3>1, <3>2, ChainAssumption DEF ChainInv, Seqs
      <3> QED BY <1>1, <2>3, <3>1, <3>3, AcceptHashEffect
    <2>4. \/ AcceptLedger(mBuildingLedgerSeq)
          \/ UNCHANGED <<mValidLedgerSeq, mPubLedgerSeq, work, saves,
                         inbound, faults>>
          \/ \E t \in Saved : AcceptHash(t)
      <3>1. CASE mBuildingLedgerSeq <= mValidLedgerSeq
        BY <1>1, <1>3, <3>1 DEF consensusBuilt, TypeOK
      <3>2. CASE mBuildingLedgerSeq > mValidLedgerSeq
        BY <1>1, <1>3, <3>2, SeqsType DEF consensusBuilt, TypeOK
      <3> QED BY <1>1, <1>3, <3>1, <3>2, SeqsType DEF TypeOK
    <2> QED BY <2>1, <2>2, <2>3, <2>4
  <1>5. have' \subseteq Seqs
    BY <1>1, <1>3 DEF consensusBuilt, TypeOK
  <1> QED BY <1>1, <1>2, <1>4, <1>5 DEF consensusBuilt, Accepting, TypeOK

-----------------------------------------------------------------------------
(* The steps, for one part of the invariant after the other. *)

LEMMA RestingType ==
  /\ Resting \in AdvanceJob /\ [Resting EXCEPT !.pc = "top"] \in AdvanceJob
  /\ Resting.pc = "idle" /\ [Resting EXCEPT !.pc = "top"].pc = "top"
  <1>1. MaxSeq \in Nat
    BY ChainAssumption
  <1>2. <<>> \in Seq(Seqs)
    OBVIOUS
  <1>3. Resting \in AdvanceJob
    BY <1>1, <1>2 DEF Resting, AdvanceJob
  <1>4. [Resting EXCEPT !.pc = "top"] \in AdvanceJob
    BY <1>3 DEF AdvanceJob
  <1> QED BY <1>3, <1>4 DEF Resting

(* Every step is one of these. *)
Other ==
  \E s \in Seqs : StartBuilding(s) \/ AcquireDone(s) \/ AcquireFail(s)
                 \/ Sweep(s) \/ ExpireFailure(s)

LEMMA NextCases ==
  ASSUME MasterInv, [Next]_vars
  PROVE  \/ Accepting \/ Other \/ \E s \in Seqs : SaveJob(s)
         \/ advanceThread \/ TopPublish \/ \E busy \in BOOLEAN : TopHistory(busy)
         \/ ScanLedger \/ ScanThrows \/ ScanDone
         \/ Publish \/ Announce \/ AdvanceThrows
         \/ HistoryFound \/ HistoryFetch \/ HistoryNoHash
         \/ FillStep \/ FillHashes \/ FillEnd
         \/ UNCHANGED vars
  <1>1. ASSUME NEW s \in Seqs,
               \/ AddValidation(s) \/ StartBuilding(s)
               \/ AcquireDone(s) \/ LADispatch(s) \/ AcquireFail(s) \/ Sweep(s)
               \/ ExpireFailure(s)
        PROVE  Accepting \/ Other
    BY <1>1, AddValidationAccepts, LADispatchAccepts DEF Other
  <1>2. ASSUME NEW onChain \in BOOLEAN, consensusBuilt(onChain)
        PROVE  Accepting
    BY <1>2, ConsensusBuiltAccepts
  <1> QED BY <1>1, <1>2 DEF Next, AdvanceStep, FillRuns

LEMMA ListHead ==
  ASSUME MasterInv, adv.pc \in {"publish", "announce"}
  PROVE  /\ Len(adv.list) \in Nat /\ Len(adv.list) >= 1
         /\ Head(adv.list) = adv.list[1] /\ Head(adv.list) \in Seqs
  <1>1. adv.list \in Seq(Seqs) /\ adv.list # <<>>
    BY DEF MasterInv, TypeOK, AdvanceJob, StreamInv
  <1> QED BY <1>1

LEMMA PrevMissingType ==
  ASSUME NEW R \in SUBSET Ranges, NEW v \in Seqs
  PROVE  prevMissing(R, v) \in 0 .. MaxSeq
  <1>1. CASE hasValue(R, v - 1)
    <2> DEFINE c == CHOOSE r \in R : r[1] <= v - 1 /\ v - 1 <= r[2]
    <2>1. c \in R
      BY <1>1 DEF hasValue
    <2>2. c[1] \in Seqs
      BY <2>1, RangeType
    <2>3. prevMissing(R, v) = c[1] - 1
      BY <1>1 DEF prevMissing
    <2> HIDE DEF c
    <2> QED BY <2>2, <2>3, ChainAssumption DEF Seqs
  <1>2. CASE ~ hasValue(R, v - 1)
    BY <1>2, ChainAssumption DEF prevMissing, Seqs
  <1> QED BY <1>1, <1>2

(* Where the advance job is after each of its steps. *)
LEMMA JobStep == ASSUME MasterInv, [Next]_vars PROVE JobInv'
  <1> USE DEF MasterInv
  <1>0. adv \in AdvanceJob /\ jobs \in Nat /\ mAdvanceThread \in BOOLEAN
        /\ mAdvanceWork \in BOOLEAN /\ stalled \subseteq Stops
        /\ mValidLedgerSeq \in Nat
    BY ChainAssumption DEF TypeOK
  <1>1. CASE Accepting
    <2>1. UNCHANGED <<adv, mFillInProgress, fill>>
      BY <1>1 DEF Accepting, filling
    <2>2. CASE UNCHANGED <<mValidLedgerSeq, work>>
      BY <1>0, <2>1, <2>2 DEF JobInv, work
    <2>3. CASE tryAdvance
      <3>1. mValidLedgerSeq' \in Nat /\ (mValidLedgerSeq # 0 => mValidLedgerSeq' # 0)
        <4>1. \/ UNCHANGED mValidLedgerSeq
              \/ mValidLedgerSeq' \in Seqs /\ mValidLedgerSeq' > mValidLedgerSeq
          BY <1>1 DEF Accepting, AcceptEffect
        <4>2. CASE UNCHANGED mValidLedgerSeq
          BY <1>0, <4>2
        <4>3. CASE mValidLedgerSeq' \in Seqs
          BY <4>3, ChainAssumption DEF Seqs
        <4> QED BY <4>1, <4>2, <4>3
      <3> QED BY <2>1, <2>3, <3>1, TryAdvanceEffect DEF JobInv
    <2> QED BY <1>1, <2>2, <2>3 DEF Accepting, AcceptEffect
  <1>2. CASE Other
    <2>1. UNCHANGED <<adv, mAdvanceThread, mAdvanceWork, jobs, mFillInProgress,
                      fill, mValidLedgerSeq>> /\ ("job" \in stalled => "job" \in stalled')
      BY <1>2 DEF Other, StartBuilding, AcquireDone, AcquireFail, Sweep, ExpireFailure, work,
                  filling, valid
    <2> QED BY <1>0, <2>1 DEF JobInv
  <1>3. CASE (\E s \in Seqs : SaveJob(s)) \/ FillStep \/ FillHashes \/ UNCHANGED vars
    <2>1. UNCHANGED <<adv, mAdvanceThread, mAdvanceWork, jobs, mFillInProgress,
                      stalled, mValidLedgerSeq>>
      BY <1>3 DEF SaveJob, FillStep, FillHashes, vars, work, filling, valid
    <2>2. fill'.at # "idle" <=> fill.at # "idle"
      <3>1. CASE FillStep \/ FillHashes
        <4>1. fill \in FillJob /\ fill.at \in {"step", "hashes"}
          BY <3>1 DEF TypeOK, FillStep, FillHashes
        <4>2. fill'.at \in {"step", "hashes", "end"}
          BY <3>1, <4>1 DEF FillStep, FillHashes, FillJob
        <4> QED BY <4>1, <4>2
      <3>2. CASE UNCHANGED fill
        BY <3>2
      <3> QED BY <1>3, <3>1, <3>2 DEF SaveJob, vars, filling
    <2> QED BY <1>0, <2>1, <2>2 DEF JobInv
  <1>4. CASE \/ advanceThread \/ TopPublish \/ ScanLedger \/ ScanThrows
             \/ Publish
    <2>1. UNCHANGED <<mFillInProgress, fill, mValidLedgerSeq, mAdvanceThread>>
          /\ ("job" \in stalled => "job" \in stalled')
      BY <1>4 DEF advanceThread, TopPublish, ScanLedger, ScanThrows, Publish,
                  filling, valid, work
    <2>2. adv'.pc \in {"top", "scan", "publish", "announce"}
      BY <1>0, <1>4 DEF advanceThread, TopPublish, ScanLedger, ScanThrows,
                        Publish, Resting, AdvanceJob
    <2>3. jobs' = 0 /\ mAdvanceThread
      BY <1>0, <1>4 DEF advanceThread, TopPublish, ScanLedger, ScanThrows,
                        Publish, JobInv, work
    <2>4. mAdvanceWork' \in BOOLEAN
      BY <1>0, <1>4 DEF advanceThread, TopPublish, ScanLedger, ScanThrows,
                        Publish, work
    <2> QED BY <1>0, <2>1, <2>2, <2>3, <2>4 DEF JobInv
  <1>5. ASSUME NEW busy \in BOOLEAN, TopHistory(busy) PROVE JobInv'
    <2> DEFINE missing == prevMissing(mCompleteLedgers, mPubLedgerSeq)
    <2>1. /\ UNCHANGED <<mFillInProgress, fill, mValidLedgerSeq, jobs, stalled>>
          /\ mAdvanceWork' = FALSE /\ adv.pc = "top"
      BY <1>5 DEF TopHistory, filling, valid
    <2>2. \/ /\ adv' = [Resting EXCEPT !.pc = "history", !.missing = missing]
             /\ UNCHANGED mAdvanceThread /\ shouldAcquire(missing)
          \/ Leave
      BY <1>5 DEF TopHistory
    <2> HIDE DEF missing
    <2>3. CASE Leave
      BY <1>0, <2>1, <2>3, RestingType DEF JobInv, Leave
    <2>4. CASE /\ adv' = [Resting EXCEPT !.pc = "history", !.missing = missing]
               /\ UNCHANGED mAdvanceThread /\ shouldAcquire(missing)
      <3>1. adv'.pc = "history" /\ adv'.missing = missing /\ missing > 0
        BY <2>4 DEF Resting, shouldAcquire
      <3> QED BY <1>0, <2>1, <2>4, <3>1 DEF JobInv
    <2> QED BY <2>2, <2>3, <2>4
  <1>6. ASSUME NEW p, LoopEnd(p), adv.pc # "idle",
               UNCHANGED <<mValidLedgerSeq, jobs, stalled>>,
               mFillInProgress' # 0 <=> fill'.at # "idle"
        PROVE  JobInv'
    <2>1. CASE /\ adv' = [Resting EXCEPT !.pc = "top"]
               /\ mAdvanceWork' = TRUE /\ mAdvanceThread' = mAdvanceThread
      BY <1>0, <1>6, <2>1, RestingType DEF JobInv
    <2>2. CASE /\ adv' = Resting
               /\ ~ mAdvanceWork /\ mAdvanceWork' = mAdvanceWork
               /\ mAdvanceThread' = FALSE
      BY <1>0, <1>6, <2>2, RestingType DEF JobInv
    <2> QED BY <1>6, <2>1, <2>2, LoopEndEffect
  <1>7. CASE ScanDone \/ Announce
    <2>1. /\ UNCHANGED <<mValidLedgerSeq, jobs, stalled, mFillInProgress, fill>>
          /\ adv.pc \in {"scan", "announce"}
      BY <1>7 DEF ScanDone, Announce, filling, valid
    <2>2. \/ \E p : LoopEnd(p)
          \/ /\ \E l : adv' = [Resting EXCEPT !.pc = "publish", !.list = l]
             /\ UNCHANGED <<mAdvanceWork, mAdvanceThread>>
      BY <1>7 DEF ScanDone, Announce
    <2>3. CASE \E p : LoopEnd(p)
      BY <1>6, <2>1, <2>3 DEF JobInv
    <2>4. CASE /\ \E l : adv' = [Resting EXCEPT !.pc = "publish", !.list = l]
               /\ UNCHANGED <<mAdvanceWork, mAdvanceThread>>
      <3>1. adv'.pc = "publish"
        BY <2>4 DEF Resting
      <3> QED BY <1>0, <2>1, <2>4, <3>1 DEF JobInv
    <2> QED BY <2>2, <2>3, <2>4
  <1>8. CASE HistoryFound \/ HistoryFetch \/ HistoryNoHash
    <2>1. UNCHANGED <<mValidLedgerSeq, jobs, stalled>> /\ adv.pc = "history"
      BY <1>8 DEF HistoryFound, HistoryFetch, HistoryNoHash, valid
    <2>2. mFillInProgress' # 0 <=> fill'.at # "idle"
      <3>1. CASE UNCHANGED <<mFillInProgress, fill>>
        BY <3>1 DEF JobInv
      <3>2. CASE /\ mFillInProgress' = adv.missing
                 /\ fill' = [NotFilling EXCEPT !.at = "step", !.seq = adv.missing,
                                  !.min = adv.missing, !.max = adv.missing]
        <4>1. fill'.at = "step"
          BY <3>2 DEF NotFilling
        <4>2. adv.missing > 0 /\ adv.missing \in Nat
          BY <1>0, <2>1, ChainAssumption DEF JobInv, AdvanceJob
        <4> QED BY <3>2, <4>1, <4>2
      <3> QED BY <1>8, <3>1, <3>2 DEF HistoryFound, HistoryFetch,
                                      HistoryNoHash, filling
    <2>3. \E p : LoopEnd(p)
      BY <1>8 DEF HistoryFound, HistoryFetch, HistoryNoHash, HistoryEnd
    <2> QED BY <1>6, <2>1, <2>2, <2>3
  <1>9. CASE AdvanceThrows
    <2>1. /\ UNCHANGED <<mFillInProgress, fill, mValidLedgerSeq, jobs,
                         mAdvanceWork>>
          /\ "job" \in stalled' /\ adv.pc # "idle"
          /\ adv' = Resting /\ mAdvanceThread' = FALSE
      BY <1>9 DEF AdvanceThrows, Leave, filling, valid
    <2> QED BY <1>0, <2>1, RestingType DEF JobInv
  <1>10. CASE FillEnd
    <2>1. /\ UNCHANGED <<adv, mValidLedgerSeq>> /\ tryAdvance
          /\ mFillInProgress' = 0 /\ fill' = NotFilling
      BY <1>10 DEF FillEnd, valid
    <2> QED BY <1>0, <2>1, TryAdvanceEffect DEF JobInv, NotFilling
  <1> QED BY <1>1, <1>2, <1>3, <1>4, <1>5, <1>7, <1>8, <1>9, <1>10, NextCases

LEMMA CompleteType == ASSUME MasterInv PROVE mCompleteLedgers \in SUBSET Ranges
  BY DEF MasterInv, TypeOK, Ranges

LEMMA HeldGrows ==
  ASSUME MasterInv, UNCHANGED <<fill, mCompleteLedgers>>,
         sql \subseteq sql', Held \subseteq Held'
  PROVE  FillInv' /\ CompleteInv'
  BY DEF MasterInv, FillInv, CompleteInv

(* Whatever is marked complete was found to be saved. *)
LEMMA SavedStep == ASSUME MasterInv, [Next]_vars PROVE FillInv' /\ CompleteInv'
  <1> DEFINE R == mCompleteLedgers
  <1>0. /\ R \in SUBSET Ranges /\ Canonical(R)
        /\ \A v \in Nat : hasValue(R, v) => v \in Held
    BY CompleteType DEF MasterInv, CompleteInv
  <1>1. TypeOK /\ FillInv /\ CompleteInv
    BY DEF MasterInv
  <1>2. /\ fill \in FillJob /\ fill.seq \in Nat /\ fill.min \in 0 .. MaxSeq
        /\ fill.max \in 0 .. MaxSeq /\ MaxSeq \in Nat
    BY <1>1, ChainAssumption DEF TypeOK, FillJob
  <1>3. CASE Accepting
    <2>1. UNCHANGED <<fill, mCompleteLedgers>> /\ sql \subseteq sql' /\ Held \subseteq Held'
      BY <1>3 DEF Accepting, AcceptEffect, Held, filling
    <2> QED BY <2>1, HeldGrows
  <1>4. CASE \/ Other \/ advanceThread \/ TopPublish
             \/ (\E busy \in BOOLEAN : TopHistory(busy))
             \/ ScanLedger \/ ScanThrows \/ ScanDone \/ Announce
             \/ AdvanceThrows \/ HistoryFetch \/ UNCHANGED vars
    <2>1. UNCHANGED <<fill, mCompleteLedgers, sql, saving, lost>>
      BY <1>4 DEF Other, StartBuilding, AcquireDone, AcquireFail, Sweep, ExpireFailure,
                  advanceThread, TopPublish, TopHistory, ScanLedger,
                  ScanThrows, ScanDone, Announce, AdvanceThrows,
                  HistoryFetch, vars, filling, saves
    <2> QED BY <2>1, HeldGrows DEF Held
  <1>5. ASSUME NEW s \in Seqs, SaveJob(s) PROVE FillInv' /\ CompleteInv'
    <2>1. UNCHANGED fill /\ s \in saving /\ saving' = saving \ {s}
      BY <1>5 DEF SaveJob, filling
    <2>2. CASE sql' = sql \union {s} /\ UNCHANGED <<lost, mCompleteLedgers>>
      BY <2>1, <2>2, HeldGrows DEF Held
    <2>3. CASE /\ lost' = lost \union {s} /\ UNCHANGED sql
               /\ mCompleteLedgers' = clearValue(mCompleteLedgers, s)
      <3>1. Held' = Held
        BY <2>1, <2>3 DEF Held
      <3>2. FillInv'
        BY <1>1, <2>1, <2>3, <3>1 DEF FillInv
      <3>3. s \in Nat
        BY SeqsType
      <3>4. CompleteInv'
        BY <1>0, <2>3, <3>1, <3>3, ClearValue DEF CompleteInv
      <3> QED BY <3>2, <3>4
    <2> QED BY <1>5, <2>2, <2>3 DEF SaveJob
  <1>6. CASE Publish
    <2> DEFINE s == Head(adv.list)
    <2>1. s \in Seqs
      BY <1>6, ListHead DEF Publish
    <2>2. SaveNow(s) /\ R' = setValue(R, s) /\ UNCHANGED fill
      BY <1>6 DEF Publish, filling
    <2> HIDE DEF s
    <2>3. sql \subseteq sql' /\ Held \subseteq Held' /\ s \in Held'
      BY <1>1, <2>1, <2>2, SaveNowEffect DEF Held
    <2>4. FillInv'
      BY <1>1, <2>2, <2>3 DEF FillInv
    <2>5. CompleteInv'
      BY <1>0, <2>1, <2>2, <2>3, SetValue DEF CompleteInv
    <2> QED BY <2>4, <2>5
  <1>7. CASE HistoryFound
    <2> DEFINE s == adv.missing
    <2>1. s \in Seqs
      <3>1. adv.pc = "history" /\ s \in 0 .. MaxSeq
        BY <1>1, <1>7 DEF HistoryFound, TypeOK, AdvanceJob
      <3> QED BY <1>2, <3>1 DEF MasterInv, JobInv, Seqs
    <2>2. /\ saving' = saving \union ({s} \ (sql \union lost))
          /\ R' = setValue(R, s) /\ UNCHANGED <<sql, lost>>
          /\ \/ fill' = [NotFilling EXCEPT !.at = "step", !.seq = s,
                                           !.min = s, !.max = s]
             \/ UNCHANGED fill
      BY <1>7 DEF HistoryFound, filling
    <2> HIDE DEF s
    <2>3. UNCHANGED sql /\ Held \subseteq Held' /\ s \in Held'
      BY <2>2 DEF Held
    <2>4. FillInv'
      <3>1. CASE UNCHANGED fill
        BY <1>1, <2>3, <3>1 DEF FillInv
      <3>2. CASE fill' = [NotFilling EXCEPT !.at = "step", !.seq = s,
                                            !.min = s, !.max = s]
        <4>1. /\ fill'.hashes = {} /\ fill'.at = "step" /\ fill'.seq = s
              /\ fill'.min = s /\ fill'.max = s
          BY <3>2 DEF NotFilling
        <4>2. s \in Nat /\ 1 <= s /\ \A v \in s .. s : v = s
          BY <2>1, SeqsType
        <4> QED BY <2>3, <4>1, <4>2 DEF FillInv
      <3> QED BY <2>2, <3>1, <3>2
    <2>5. CompleteInv'
      BY <1>0, <2>1, <2>2, <2>3, SetValue DEF CompleteInv
    <2> QED BY <2>4, <2>5
  <1>8. CASE HistoryNoHash
    <2>1. /\ UNCHANGED <<fill, sql, saving, lost>>
          /\ R' = clearValue(R, adv.missing + 1)
      BY <1>8 DEF HistoryNoHash, filling, saves
    <2>2. adv.missing + 1 \in Nat
      BY <1>1, ChainAssumption DEF TypeOK, AdvanceJob
    <2>3. Held' = Held
      BY <2>1 DEF Held
    <2>4. CompleteInv'
      BY <1>0, <2>1, <2>2, <2>3, ClearValue DEF CompleteInv
    <2> QED BY <1>1, <2>1, <2>3, <2>4 DEF FillInv
  <1>9. CASE FillStep
    <2> DEFINE at == IF hasValue(mCompleteLedgers, fill.seq - 1) THEN "end"
                     ELSE IF fill.seq - 1 \in fill.hashes
                            THEN IF fill.seq - 1 > 0 THEN "step" ELSE "end"
                            ELSE "hashes"
    <2>1. /\ fill.at = "step" /\ UNCHANGED <<mCompleteLedgers, sql, saving, lost>>
          /\ fill' = [fill EXCEPT !.min = fill.seq, !.seq = @ - 1, !.at = at]
      BY <1>9 DEF FillStep, saves
    <2>2. /\ at \in {"step", "end", "hashes"}
          /\ at = "step" => fill.seq - 1 > 0 /\ fill.seq - 1 \in fill.hashes
      OBVIOUS
    <2> HIDE DEF at
    <2>3. /\ fill'.min = fill.seq /\ fill'.max = fill.max /\ fill'.at = at
          /\ fill'.seq = fill.seq - 1 /\ fill'.hashes = fill.hashes
      BY <1>2, <2>1 DEF FillJob
    <2>4. Held' = Held
      BY <2>1 DEF Held
    <2>5. /\ 1 <= fill.seq /\ fill.seq \in Held /\ fill.seq <= fill.min
          /\ fill.min <= fill.seq + 1 /\ fill.min <= fill.max
          /\ \A v \in fill.min .. fill.max : v \in Held
          /\ fill.hashes \subseteq sql
      BY <1>1, <2>1 DEF FillInv
    <2>6. \A v \in fill.seq .. fill.max : v = fill.seq \/ v \in fill.min .. fill.max
      BY <1>2, <2>5
    <2>7. /\ fill'.hashes \subseteq sql'
          /\ 1 <= fill'.min /\ fill'.min <= fill'.max
          /\ fill'.seq <= fill'.min /\ fill'.min <= fill'.seq + 1
      BY <1>2, <2>1, <2>3, <2>5
    <2>8. \A v \in fill'.min .. fill'.max : v \in Held'
      BY <2>3, <2>4, <2>5, <2>6
    <2>9. fill'.at = "step" => 1 <= fill'.seq /\ fill'.seq \in Held'
      BY <1>2, <2>2, <2>3, <2>4, <2>5 DEF Held
    <2>10. FillInv'
      BY <2>7, <2>8, <2>9 DEF FillInv
    <2> QED BY <1>1, <2>1, <2>4, <2>10 DEF CompleteInv
  <1>10. ASSUME fill.at # "idle", R' = setRange(R, fill.min, fill.max),
                UNCHANGED <<sql, saving, lost>>
         PROVE  CompleteInv'
    <2>1. fill.min \in Seqs /\ fill.max \in Seqs
      BY <1>1, <1>2, <1>10 DEF FillInv, Seqs
    <2>2. Held' = Held /\ \A v \in fill.min .. fill.max : v \in Held
      BY <1>1, <1>10 DEF Held, FillInv
    <2> QED BY <1>0, <1>10, <2>1, <2>2, SetRange DEF CompleteInv
  <1>11. CASE FillHashes
    <2> DEFINE hashes == {t \in sql : t <= fill.seq /\ fill.seq < t + FillWindow}
               at == IF fill.seq \in hashes /\ fill.seq > 0 THEN "step" ELSE "end"
    <2>1. /\ fill.at = "hashes" /\ UNCHANGED <<sql, saving, lost>>
          /\ R' = setRange(R, fill.min, fill.max)
          /\ fill' = [fill EXCEPT !.max = fill.min, !.hashes = hashes, !.at = at]
      BY <1>11 DEF FillHashes, saves
    <2>2. CompleteInv'
      BY <1>10, <2>1
    <2>3. /\ hashes \subseteq sql /\ at \in {"step", "end"}
          /\ at = "step" => fill.seq \in sql /\ fill.seq > 0
      OBVIOUS
    <2> HIDE DEF hashes, at
    <2>4. /\ fill'.min = fill.min /\ fill'.max = fill.min /\ fill'.at = at
          /\ fill'.seq = fill.seq /\ fill'.hashes = hashes
      BY <1>2, <2>1 DEF FillJob
    <2>5. /\ 1 <= fill.min /\ fill.min <= fill.max
          /\ \A v \in fill.min .. fill.max : v \in Held
          /\ fill.seq <= fill.min /\ fill.min <= fill.seq + 1
      BY <1>1, <2>1 DEF FillInv
    <2>6. Held' = Held /\ \A v \in fill.min .. fill.min : v \in Held
      BY <1>2, <2>1, <2>5 DEF Held
    <2>7. fill'.at = "step" => 1 <= fill'.seq /\ fill'.seq \in Held'
      BY <1>2, <2>3, <2>4, <2>6 DEF Held
    <2>8. FillInv'
      BY <1>2, <2>1, <2>3, <2>4, <2>5, <2>6, <2>7 DEF FillInv
    <2> QED BY <2>2, <2>8
  <1>12. CASE FillEnd
    <2>1. /\ fill.at = "end" /\ UNCHANGED <<sql, saving, lost>>
          /\ R' = setRange(R, fill.min, fill.max) /\ fill' = NotFilling
      BY <1>12 DEF FillEnd, saves
    <2>2. CompleteInv'
      BY <1>10, <2>1
    <2>3. FillInv'
      BY <2>1 DEF FillInv, NotFilling
    <2> QED BY <2>2, <2>3
  <1> QED BY <1>3, <1>4, <1>5, <1>6, <1>7, <1>8, <1>9, <1>11, <1>12, NextCases

(* The chain: what is valid is not older than First. *)
LEMMA ChainStep == ASSUME MasterInv, [Next]_vars PROVE ChainInv'
  <1>1. TypeOK /\ JobInv /\ ChainInv
    BY DEF MasterInv
  <1>2. /\ mValidLedgerSeq \in Nat /\ mPubLedgerSeq \in Nat /\ First \in Nat
        /\ First >= 1 /\ MaxSeq \in Nat
    BY <1>1, ChainAssumption DEF TypeOK, Seqs
  <1>3. CASE Accepting
    <2>1. /\ UNCHANGED <<lastBuilt, saving>>
          /\ mBuildingLedgerSeq' \in {0, mBuildingLedgerSeq}
          /\ \A s \in Seqs : s < First => vals'[s] = vals[s]
          /\ dispatch' \subseteq dispatch
          /\ mValidLedgerSeq' = 0 =>
               \A s \in Seqs : s < First => inbound'[s] = inbound[s]
      BY <1>3 DEF Accepting, AcceptEffect
    <2>2. CASE UNCHANGED <<mValidLedgerSeq, mPubLedgerSeq>>
      BY <1>1, <2>1, <2>2 DEF ChainInv
    <2>3. CASE /\ mValidLedgerSeq' \in Seqs /\ mValidLedgerSeq' > mValidLedgerSeq
               /\ mValidLedgerSeq = 0 => mValidLedgerSeq' >= First
               /\ mPubLedgerSeq = 0 => mPubLedgerSeq' = mValidLedgerSeq'
               /\ mPubLedgerSeq # 0 => mPubLedgerSeq' = mPubLedgerSeq
      <3>1. mValidLedgerSeq' \in Nat /\ mValidLedgerSeq' # 0
        BY <2>3, SeqsType
      <3>2. mPubLedgerSeq = 0 <=> mValidLedgerSeq = 0
        BY <1>1, <1>2 DEF ChainInv
      <3>3. mPubLedgerSeq' <= mValidLedgerSeq' /\ First <= mPubLedgerSeq'
        <4>1. CASE mPubLedgerSeq = 0
          BY <1>2, <2>3, <3>1, <3>2, <4>1
        <4>2. CASE mPubLedgerSeq # 0
          BY <1>1, <1>2, <2>3, <3>1, <3>2, <4>2 DEF ChainInv
        <4> QED BY <4>1, <4>2
      <3> QED BY <1>1, <2>1, <3>1, <3>3 DEF ChainInv
    <2> QED BY <1>3, <2>2, <2>3 DEF Accepting, AcceptEffect
  <1>4. ASSUME NEW s \in Seqs, StartBuilding(s) PROVE ChainInv'
    <2>1. /\ UNCHANGED <<mValidLedgerSeq, mPubLedgerSeq, vals, saving, inbound,
                         dispatch>>
          /\ mBuildingLedgerSeq' = s /\ lastBuilt' = s /\ s > lastBuilt
      BY <1>4 DEF StartBuilding, valid, saves, fetching
    <2>2. s \in Nat /\ lastBuilt \in Nat
      BY <1>1, ChainAssumption, SeqsType DEF TypeOK
    <2>3. First <= s /\ First <= s + 1
      BY <1>1, <1>2, <2>1, <2>2 DEF ChainInv
    <2> QED BY <1>1, <2>1, <2>3 DEF ChainInv
  <1>5. ASSUME NEW s \in Seqs, AcquireDone(s) \/ AcquireFail(s) \/ Sweep(s) \/ ExpireFailure(s)
        PROVE  ChainInv'
    <2>1. UNCHANGED <<mValidLedgerSeq, mPubLedgerSeq, vals, saving,
                      lastBuilt, mBuildingLedgerSeq>>
      BY <1>5 DEF AcquireDone, AcquireFail, Sweep, ExpireFailure, valid, saves, building
    <2>2. inbound[s] = "fetching" \/ inbound[s] = "failed" \/ UNCHANGED inbound
      BY <1>1, <1>5 DEF TypeOK, AcquireDone, AcquireFail, Sweep, ExpireFailure
    <2>3. \A t \in Seqs : t # s => inbound'[t] = inbound[t]
      BY <1>1, <1>5 DEF AcquireDone, AcquireFail, Sweep, ExpireFailure, TypeOK
    <2>4. dispatch' \subseteq dispatch \union {s}
          /\ (dispatch' = dispatch \/ inbound[s] = "fetching")
      BY <1>5 DEF AcquireDone, AcquireFail, Sweep, ExpireFailure
    <2>5. ASSUME mValidLedgerSeq = 0, NEW t \in Seqs, t < First
          PROVE  inbound'[t] = "none" /\ t \notin dispatch'
      <3>1. inbound[t] = "none" /\ t \notin dispatch
        BY <1>1, <2>5 DEF ChainInv
      <3>2. inbound[s] \in {"fetching", "failed"} => t # s
        BY <3>1
      <3> QED BY <2>2, <2>3, <2>4, <3>1, <3>2
    <2> QED BY <1>1, <2>1, <2>5 DEF ChainInv
  <1>6. CASE \/ advanceThread \/ (\E busy \in BOOLEAN : TopHistory(busy))
             \/ ScanDone \/ AdvanceThrows \/ ScanThrows
             \/ HistoryNoHash \/ FillStep \/ FillHashes \/ FillEnd
             \/ UNCHANGED vars
    <2>1. UNCHANGED <<mValidLedgerSeq, mPubLedgerSeq, vals, saving, lastBuilt,
                      mBuildingLedgerSeq, inbound, dispatch>>
      BY <1>6 DEF advanceThread, TopHistory, ScanDone, AdvanceThrows,
                  ScanThrows, HistoryNoHash, FillStep,
                  FillHashes, FillEnd, vars, valid, saves, building, fetching
    <2> QED BY <1>1, <2>1 DEF ChainInv
  <1>7. ASSUME mValidLedgerSeq # 0, mPubLedgerSeq' <= mValidLedgerSeq,
               First <= mPubLedgerSeq',
               UNCHANGED <<mValidLedgerSeq, vals, lastBuilt, mBuildingLedgerSeq>>
        PROVE  ChainInv'
    BY <1>1, <1>7 DEF ChainInv
  <1>8. adv.pc # "idle" => mValidLedgerSeq # 0 /\ First <= mPubLedgerSeq
    BY <1>1 DEF JobInv, ChainInv
  <1>9. CASE ScanLedger \/ Publish \/ HistoryFound \/ HistoryFetch
    <2>1. UNCHANGED <<mValidLedgerSeq, mPubLedgerSeq, vals, lastBuilt,
                      mBuildingLedgerSeq>> /\ adv.pc # "idle"
      BY <1>9 DEF ScanLedger, Publish, HistoryFound, HistoryFetch, valid, building
    <2> QED BY <1>1, <1>7, <1>8, <2>1 DEF ChainInv
  <1>10. ASSUME NEW s \in Seqs, SaveJob(s) PROVE ChainInv'
    <2>1. UNCHANGED <<mValidLedgerSeq, mPubLedgerSeq, vals, lastBuilt,
                      mBuildingLedgerSeq>> /\ s \in saving
      BY <1>10 DEF SaveJob, valid, building
    <2> QED BY <1>1, <1>7, <2>1 DEF ChainInv
  <1>11. CASE TopPublish
    <2>1. /\ UNCHANGED <<mValidLedgerSeq, vals, lastBuilt, mBuildingLedgerSeq>>
          /\ adv.pc = "top" /\ mPubLedgerSeq' \in {mPubLedgerSeq, mValidLedgerSeq}
      BY <1>11 DEF TopPublish, valid, building
    <2>2. mPubLedgerSeq <= mValidLedgerSeq /\ First <= mPubLedgerSeq
      BY <1>1, <1>8, <2>1 DEF ChainInv
    <2> QED BY <1>2, <1>7, <1>8, <2>1, <2>2
  <1>12. CASE Announce
    <2> DEFINE s == Head(adv.list)
    <2>1. /\ UNCHANGED <<mValidLedgerSeq, vals, lastBuilt, mBuildingLedgerSeq>>
          /\ adv.pc = "announce" /\ mPubLedgerSeq' = s
      BY <1>12 DEF Announce, valid, building
    <2>2. 1 \in 1 .. Len(adv.list) /\ s = adv.list[1] /\ s \in Seqs
      BY <2>1, ListHead
    <2>3. s <= mValidLedgerSeq /\ (s = mPubLedgerSeq + 1 \/ s = mPubLedgerSeq)
      BY <2>1, <2>2 DEF MasterInv, StreamInv
    <2> HIDE DEF s
    <2>4. First <= s
      BY <1>2, <1>8, <2>1, <2>3
    <2> QED BY <1>7, <1>8, <2>1, <2>3, <2>4
  <1> QED BY <1>3, <1>4, <1>5, <1>6, <1>9, <1>10, <1>11, <1>12, NextCases
          DEF Other

LEMMA GapType == MAX_LEDGER_GAP \in Nat /\ AcquireLimit \in Nat /\ MaxFaults \in Nat
  BY SettingsAssumption

(* The list is left alone, and nothing announced is taken back. *)
LEMMA StreamKept ==
  ASSUME MasterInv, UNCHANGED <<adv, mPubLedgerSeq, stream>>,
         mValidLedgerSeq' \in Nat, mValidLedgerSeq <= mValidLedgerSeq',
         lost \subseteq lost',
         \A v \in Nat : hasValue(mCompleteLedgers, v) =>
                          hasValue(mCompleteLedgers', v) \/ v \in lost'
  PROVE  StreamInv'
  <1>1. TypeOK /\ StreamInv
    BY DEF MasterInv
  <1>2. mValidLedgerSeq \in Nat /\ adv.list \in Seq(Seqs) /\ adv.hi \in Nat
    BY <1>1, ChainAssumption DEF TypeOK, AdvanceJob
  <1>3. \A i \in 1 .. Len(adv.list) : adv.list[i] \in Nat
    <2>1. \A i \in 1 .. Len(adv.list) : adv.list[i] \in Seqs
      BY <1>2
    <2> QED BY <2>1, SeqsType
  <1>4. ASSUME adv.pc = "announce"
        PROVE  hasValue(mCompleteLedgers', Head(adv.list)) \/ Head(adv.list) \in lost'
    <2>1. Head(adv.list) \in Nat
      BY <1>4, ListHead, SeqsType
    <2> QED BY <1>1, <1>4, <2>1 DEF StreamInv
  <1>5. adv.hi <= mValidLedgerSeq => adv.hi <= mValidLedgerSeq'
    BY <1>2
  <1>6. \A i \in 1 .. Len(adv.list) :
          adv.list[i] <= mValidLedgerSeq => adv.list[i] <= mValidLedgerSeq'
    BY <1>2, <1>3
  <1> QED BY <1>1, <1>4, <1>5, <1>6 DEF StreamInv, Behind

(* The job has no list. *)
LEMMA StreamIdle ==
  ASSUME MasterInv, adv'.pc \notin {"scan", "publish", "announce"},
         UNCHANGED <<mPubLedgerSeq, stream>>
  PROVE  StreamInv'
  BY DEF MasterInv, StreamInv, Behind

LEMMA StreamStep == ASSUME MasterInv, [Next]_vars PROVE StreamInv'
  <1>1. TypeOK /\ JobInv /\ ChainInv /\ StreamInv
    BY DEF MasterInv
  <1>2. /\ mValidLedgerSeq \in Nat /\ mPubLedgerSeq \in Nat /\ stream \in Nat
        /\ First \in Nat /\ First >= 1 /\ MaxSeq \in Nat
        /\ mValidLedgerSeq <= mValidLedgerSeq
    BY <1>1, ChainAssumption DEF TypeOK, Seqs
  <1>3. adv \in AdvanceJob /\ adv.list \in Seq(Seqs)
    BY <1>1 DEF TypeOK, AdvanceJob
  <1>4. CASE Accepting
    <2>1. UNCHANGED <<adv, stream, mCompleteLedgers>> /\ lost \subseteq lost'
      BY <1>4 DEF Accepting, AcceptEffect
    <2>2. CASE mPubLedgerSeq = 0
      <3>1. mValidLedgerSeq = 0 /\ adv.pc = "idle"
        BY <1>1, <1>2, <2>2 DEF JobInv, ChainInv
      <3>2. stream = 0
        BY <1>1, <1>2, <2>2, GapType DEF StreamInv, Behind
      <3> QED BY <2>1, <3>1, <3>2 DEF StreamInv, Behind
    <2>3. CASE mPubLedgerSeq # 0
      <3>1. /\ UNCHANGED mPubLedgerSeq
            /\ \/ UNCHANGED mValidLedgerSeq
               \/ mValidLedgerSeq' \in Seqs /\ mValidLedgerSeq' > mValidLedgerSeq
        BY <1>4, <2>3 DEF Accepting, AcceptEffect
      <3>2. mValidLedgerSeq' \in Nat /\ mValidLedgerSeq <= mValidLedgerSeq'
        <4>1. CASE UNCHANGED mValidLedgerSeq
          BY <1>2, <4>1
        <4>2. CASE mValidLedgerSeq' \in Seqs /\ mValidLedgerSeq' > mValidLedgerSeq
          BY <1>2, <4>2, SeqsType
        <4> QED BY <3>1, <4>1, <4>2
      <3> QED BY <2>1, <3>1, <3>2, StreamKept
    <2> QED BY <2>2, <2>3
  <1>5. CASE Other \/ FillStep \/ UNCHANGED vars
    <2>1. UNCHANGED <<adv, mPubLedgerSeq, stream, mValidLedgerSeq, lost,
                      mCompleteLedgers>>
      BY <1>5 DEF Other, StartBuilding, AcquireDone, AcquireFail, Sweep, ExpireFailure,
                  FillStep, vars, valid, saves
    <2> QED BY <1>2, <2>1, StreamKept
  <1>6. ASSUME NEW s \in Seqs, SaveJob(s) PROVE StreamInv'
    <2>1. UNCHANGED <<adv, mPubLedgerSeq, stream, mValidLedgerSeq>>
      BY <1>6 DEF SaveJob, valid
    <2>2. CASE UNCHANGED <<lost, mCompleteLedgers>>
      BY <1>2, <2>1, <2>2, StreamKept
    <2>3. CASE /\ lost' = lost \union {s}
               /\ mCompleteLedgers' = clearValue(mCompleteLedgers, s)
      <3>1. s \in Nat
        BY SeqsType
      <3>2. \A v \in Nat : hasValue(mCompleteLedgers, v) =>
                             hasValue(mCompleteLedgers', v) \/ v = s
        BY <2>3, <3>1, CompleteType, ClearValue DEF MasterInv, CompleteInv
      <3> QED BY <1>2, <2>1, <2>3, <3>2, StreamKept
    <2> QED BY <1>6, <2>2, <2>3 DEF SaveJob
  <1>7. CASE FillHashes \/ FillEnd
    <2>1. /\ UNCHANGED <<adv, mPubLedgerSeq, stream, mValidLedgerSeq, lost>>
          /\ fill.at # "idle"
          /\ mCompleteLedgers' = setRange(mCompleteLedgers, fill.min, fill.max)
      BY <1>7 DEF FillHashes, FillEnd, valid, saves
    <2>2. fill.min \in 0 .. MaxSeq /\ fill.max \in 0 .. MaxSeq
      BY <1>1 DEF TypeOK, FillJob
    <2>3. fill.min \in Seqs /\ fill.max \in Seqs
      BY <1>2, <2>1, <2>2 DEF MasterInv, FillInv, Seqs
    <2>4. \A v \in Nat : hasValue(mCompleteLedgers, v) => hasValue(mCompleteLedgers', v)
      BY <2>1, <2>3, CompleteType, SetRange DEF MasterInv, CompleteInv
    <2> QED BY <1>2, <2>1, <2>4, StreamKept
  <1>8. CASE \/ advanceThread \/ (\E busy \in BOOLEAN : TopHistory(busy))
             \/ AdvanceThrows \/ HistoryFound \/ HistoryFetch \/ HistoryNoHash
    <2>1. UNCHANGED <<mPubLedgerSeq, stream>>
      BY <1>8 DEF advanceThread, TopHistory, AdvanceThrows, HistoryFound,
                  HistoryFetch, HistoryNoHash
    <2>2. adv'.pc \in {"idle", "top", "history"}
      <3>1. CASE HistoryFound \/ HistoryFetch \/ HistoryNoHash
        <4>1. \E p : LoopEnd(p)
          BY <3>1 DEF HistoryFound, HistoryFetch, HistoryNoHash, HistoryEnd
        <4> QED BY <4>1, LoopEndEffect, RestingType
      <3>2. CASE advanceThread \/ AdvanceThrows
        BY <3>2, RestingType DEF advanceThread, AdvanceThrows, Leave
      <3>3. ASSUME NEW busy \in BOOLEAN, TopHistory(busy) PROVE adv'.pc \in {"idle", "history"}
        <4>1. CASE adv' = Resting
          BY <4>1, RestingType
        <4>2. ASSUME NEW m, adv' = [Resting EXCEPT !.pc = "history", !.missing = m]
              PROVE  adv'.pc = "history"
          BY <4>2 DEF Resting
        <4> QED BY <3>3, <4>1, <4>2 DEF TopHistory, Leave
      <3> QED BY <1>8, <3>1, <3>2, <3>3
    <2> QED BY <2>1, <2>2, StreamIdle
  <1>9. CASE TopPublish
    <2>1. UNCHANGED <<stream, mValidLedgerSeq>> /\ mValidLedgerSeq > mPubLedgerSeq
          /\ mValidLedgerSeq # 0 /\ First <= mPubLedgerSeq
      BY <1>1, <1>9 DEF TopPublish, valid, JobInv, ChainInv
    <2>2. CASE mValidLedgerSeq > mPubLedgerSeq + MAX_LEDGER_GAP
      <3>1. /\ adv' = [Resting EXCEPT !.pc = "publish", !.list = <<mValidLedgerSeq>>]
            /\ mPubLedgerSeq' = mValidLedgerSeq
        BY <1>9, <2>2 DEF TopPublish
      <3>2. adv'.pc = "publish" /\ adv'.list = <<mPubLedgerSeq'>>
        BY <3>1 DEF Resting
      <3>3. Behind'
        BY <1>1, <1>2, <2>1, <2>2, <3>1, GapType DEF StreamInv, Behind
      <3>4. mPubLedgerSeq' > First
        BY <1>2, <2>1, <2>2, <3>1, GapType
      <3>5. Len(adv'.list) = 1 /\ adv'.list[1] = mValidLedgerSeq' /\ adv'.list # <<>>
        BY <2>1, <3>1, <3>2
      <3>6. \A i \in 1 .. Len(adv'.list) : adv'.list[i] <= mValidLedgerSeq'
        BY <1>2, <2>1, <3>5
      <3> QED BY <3>2, <3>3, <3>4, <3>5, <3>6 DEF StreamInv
    <2>3. CASE ~ mValidLedgerSeq > mPubLedgerSeq + MAX_LEDGER_GAP
      <3>1. /\ adv' = [Resting EXCEPT !.pc = "scan", !.seq = mPubLedgerSeq + 1,
                                      !.next = mPubLedgerSeq + 1,
                                      !.hi = mValidLedgerSeq]
            /\ UNCHANGED mPubLedgerSeq
        BY <1>9, <2>3 DEF TopPublish
      <3>2. /\ adv'.pc = "scan" /\ adv'.seq = mPubLedgerSeq + 1 /\ adv'.list = <<>>
            /\ adv'.next = mPubLedgerSeq + 1 /\ adv'.hi = mValidLedgerSeq
        BY <3>1 DEF Resting
      <3>3. Behind' = Behind
        BY <2>1, <3>1 DEF Behind
      <3>4. Len(adv'.list) = 0
        BY <3>2
      <3> QED BY <1>1, <1>2, <2>1, <3>1, <3>2, <3>3, <3>4 DEF StreamInv
    <2> QED BY <2>2, <2>3
  <1>10. ASSUME adv.pc = "scan", adv'.pc = "scan",
                UNCHANGED <<mPubLedgerSeq, stream, mValidLedgerSeq>>,
                adv'.hi = adv.hi,
                adv'.next <= adv'.seq, adv'.seq <= adv.hi + 1,
                \/ adv'.next = adv.next /\ adv'.list = adv.list
                \/ /\ adv'.next = adv.next + 1
                   /\ adv'.list = Append(adv.list, adv.next)
         PROVE  StreamInv'
    <2>1. adv.next \in Nat /\ adv.hi \in Nat
      BY <1>2, <1>3 DEF AdvanceJob
    <2>2. /\ mPubLedgerSeq < adv.next /\ adv.hi <= mValidLedgerSeq
          /\ Len(adv.list) = adv.next - (mPubLedgerSeq + 1)
          /\ \A i \in 1 .. Len(adv.list) : adv.list[i] = mPubLedgerSeq + i
      BY <1>1, <1>10 DEF StreamInv
    <2>3. /\ mPubLedgerSeq < adv'.next
          /\ Len(adv'.list) = adv'.next - (mPubLedgerSeq + 1)
          /\ \A i \in 1 .. Len(adv'.list) : adv'.list[i] = mPubLedgerSeq + i
      <3>1. CASE adv'.next = adv.next /\ adv'.list = adv.list
        BY <2>2, <3>1
      <3>2. CASE /\ adv'.next = adv.next + 1
                 /\ adv'.list = Append(adv.list, adv.next)
        <4> DEFINE n == Len(adv.list)
        <4>1. n \in Nat /\ Len(Append(adv.list, adv.next)) = n + 1
              /\ Append(adv.list, adv.next)[n + 1] = adv.next
              /\ \A i \in 1 .. n : Append(adv.list, adv.next)[i] = adv.list[i]
          <5>1. adv.list \in Seq(Nat)
            BY <1>3, SeqsType, SeqMonotonic
          <5> QED BY <2>1, <5>1, AppendProperties
        <4>6. n = adv.next - (mPubLedgerSeq + 1)
          BY <2>2
        <4> HIDE DEF n
        <4>2. adv.next = mPubLedgerSeq + (n + 1)
          BY <1>2, <2>1, <4>6
        <4>3. \A i \in 1 .. (n + 1) : i = n + 1 \/ i \in 1 .. n
          BY <4>1
        <4>4. \A i \in 1 .. n : adv.list[i] = mPubLedgerSeq + i
          BY <2>2 DEF n
        <4>5. \A i \in 1 .. (n + 1) : adv'.list[i] = mPubLedgerSeq + i
          BY <3>2, <4>1, <4>2, <4>3, <4>4
        <4> QED BY <1>2, <2>1, <2>2, <3>2, <4>1, <4>2, <4>5
      <3> QED BY <1>10, <3>1, <3>2
    <2>4. Behind' = Behind
      BY <1>10 DEF Behind
    <2> QED BY <1>1, <1>10, <2>2, <2>3, <2>4 DEF StreamInv
  <1>11. CASE ScanLedger
    <2> DEFINE held == adv.seq \in have \/ adv.seq = adv.hi
    <2>1. /\ adv.pc = "scan" /\ adv.seq <= adv.hi
          /\ UNCHANGED <<mPubLedgerSeq, stream, mValidLedgerSeq>>
          /\ adv' = [adv EXCEPT
               !.seq = adv.seq + 1,
               !.acqs = IF held THEN @ ELSE @ + 1,
               !.list = IF held /\ adv.seq = adv.next THEN Append(@, adv.seq) ELSE @,
               !.next = IF held /\ adv.seq = @ THEN @ + 1 ELSE @]
      BY <1>11 DEF ScanLedger, valid
    <2> HIDE DEF held
    <2>2. /\ adv'.pc = adv.pc /\ adv'.hi = adv.hi /\ adv'.seq = adv.seq + 1
          /\ adv'.list = IF held /\ adv.seq = adv.next
                           THEN Append(adv.list, adv.seq) ELSE adv.list
          /\ adv'.next = IF held /\ adv.seq = adv.next THEN adv.next + 1 ELSE adv.next
      BY <1>3, <2>1 DEF AdvanceJob
    <2>3. \/ adv'.next = adv.next /\ adv'.list = adv.list
          \/ /\ adv.seq = adv.next /\ adv'.next = adv.next + 1
             /\ adv'.list = Append(adv.list, adv.next)
      BY <2>2
    <2>4. adv.next \in Nat /\ adv.seq \in Nat /\ adv.hi \in Nat /\ adv.next <= adv.seq
      BY <1>1, <1>2, <1>3, <2>1 DEF StreamInv, AdvanceJob
    <2>5. adv'.seq <= adv.hi + 1 /\ adv'.next <= adv'.seq
      BY <2>1, <2>2, <2>3, <2>4
    <2> QED BY <1>10, <2>1, <2>2, <2>3, <2>5
  <1>12. CASE ScanThrows
    <2>1. /\ adv.pc = "scan" /\ adv.seq <= adv.hi
          /\ UNCHANGED <<mPubLedgerSeq, stream, mValidLedgerSeq>>
          /\ adv' = [adv EXCEPT !.seq = adv.hi + 1]
      BY <1>12 DEF ScanThrows, valid
    <2>2. /\ adv'.pc = adv.pc /\ adv'.hi = adv.hi /\ adv'.seq = adv.hi + 1
          /\ adv'.list = adv.list /\ adv'.next = adv.next
      BY <1>3, <2>1 DEF AdvanceJob
    <2>3. adv.next \in Nat /\ adv.seq \in Nat /\ adv.hi \in Nat /\ adv.next <= adv.seq
      BY <1>1, <1>2, <1>3, <2>1 DEF StreamInv, AdvanceJob
    <2>4. adv'.seq <= adv.hi + 1 /\ adv'.next <= adv'.seq
      BY <2>1, <2>2, <2>3
    <2> QED BY <1>10, <2>1, <2>2, <2>4
  <1>13. CASE ScanDone
    <2>1. adv.pc = "scan" /\ UNCHANGED <<mPubLedgerSeq, stream, mValidLedgerSeq>>
      BY <1>13 DEF ScanDone, valid
    <2>2. CASE LoopEnd(FALSE)
      BY <2>1, <2>2, LoopEndEffect, RestingType, StreamIdle
    <2>3. CASE /\ adv' = [Resting EXCEPT !.pc = "publish", !.list = adv.list]
               /\ adv.list # <<>>
      <3>1. adv'.pc = "publish" /\ adv'.list = adv.list
        BY <2>3 DEF Resting
      <3>2. /\ adv.next <= adv.seq /\ adv.seq <= adv.hi + 1
            /\ adv.hi <= mValidLedgerSeq
            /\ Len(adv.list) = adv.next - (mPubLedgerSeq + 1)
            /\ \A i \in 1 .. Len(adv.list) : adv.list[i] = mPubLedgerSeq + i
        BY <1>1, <2>1 DEF StreamInv
      <3>3. /\ adv.next \in Nat /\ adv.seq \in Nat /\ adv.hi \in Nat
            /\ Len(adv.list) \in Nat
        BY <1>2, <1>3 DEF AdvanceJob
      <3>4. \A i \in 1 .. Len(adv.list) : adv.list[i] <= mValidLedgerSeq
        BY <1>2, <3>2, <3>3
      <3>5. Behind' = Behind
        BY <2>1 DEF Behind
      <3> QED BY <1>1, <2>1, <2>3, <3>1, <3>2, <3>4, <3>5 DEF StreamInv
    <2> QED BY <1>13, <2>2, <2>3 DEF ScanDone
  <1>14. CASE Publish
    <2>1. /\ adv.pc = "publish" /\ UNCHANGED <<mPubLedgerSeq, stream, mValidLedgerSeq>>
          /\ mCompleteLedgers' = setValue(mCompleteLedgers, Head(adv.list))
          /\ adv' = [adv EXCEPT !.pc = "announce"]
      BY <1>14 DEF Publish, valid
    <2>2. adv'.pc = "announce" /\ adv'.list = adv.list
      BY <1>3, <2>1 DEF AdvanceJob
    <2>3. Head(adv.list) \in Seqs /\ Head(adv.list) \in Nat
      BY <2>1, ListHead, SeqsType
    <2>4. hasValue(mCompleteLedgers', Head(adv.list))
      BY <2>1, <2>3, CompleteType, SetValue DEF MasterInv, CompleteInv
    <2>5. Behind' = Behind
      BY <2>1 DEF Behind
    <2> QED BY <1>1, <2>1, <2>2, <2>4, <2>5 DEF StreamInv
  <1>15. CASE Announce
    <2> DEFINE s == Head(adv.list)
               n == Len(adv.list)
    <2>1. /\ adv.pc = "announce" /\ UNCHANGED mValidLedgerSeq
          /\ stream' = s /\ mPubLedgerSeq' = s
      BY <1>15 DEF Announce, valid
    <2>2. n \in Nat /\ n >= 1 /\ s = adv.list[1] /\ s \in Nat
      BY <2>1, ListHead, SeqsType
    <2>3. CASE LoopEnd(TRUE)
      <3>1. adv'.pc \in {"top", "idle"}
        BY <2>3, LoopEndEffect, RestingType
      <3> QED BY <2>1, <3>1 DEF StreamInv
    <2>4. CASE /\ adv' = [Resting EXCEPT !.pc = "publish", !.list = Tail(adv.list)]
               /\ Tail(adv.list) # <<>>
      <3>1. adv'.pc = "publish" /\ adv'.list = Tail(adv.list)
        BY <2>4 DEF Resting
      <3>2. /\ Len(Tail(adv.list)) = n - 1
            /\ \A i \in 1 .. (n - 1) : Tail(adv.list)[i] = adv.list[i + 1]
        BY <1>3, <2>2
      <3>3. n > 1
        BY <1>3, <2>2, <2>4, <3>2
      <3>4. /\ \A i \in 1 .. n : adv.list[i] <= mValidLedgerSeq
            /\ \/ \A i \in 1 .. n : adv.list[i] = mPubLedgerSeq + i
               \/ adv.list = <<mPubLedgerSeq>>
        BY <1>1, <2>1 DEF StreamInv
      <3>5. \A i \in 1 .. n : adv.list[i] = mPubLedgerSeq + i
        BY <3>3, <3>4
      <3> HIDE DEF n, s
      <3>6. s = mPubLedgerSeq + 1
        BY <2>2, <3>5
      <3>7. \A i \in 1 .. (n - 1) : i + 1 \in 1 .. n /\ s + i = mPubLedgerSeq + (i + 1)
        BY <1>2, <2>2, <3>6
      <3>8. /\ \A i \in 1 .. Len(adv'.list) : adv'.list[i] <= mValidLedgerSeq'
            /\ \A i \in 1 .. Len(adv'.list) : adv'.list[i] = mPubLedgerSeq' + i
        BY <2>1, <3>1, <3>2, <3>4, <3>5, <3>7
      <3> QED BY <2>1, <2>4, <3>1, <3>8 DEF StreamInv
    <2> QED BY <1>15, <2>3, <2>4 DEF Announce
  <1> QED BY <1>4, <1>5, <1>6, <1>7, <1>8, <1>9, <1>11, <1>12, <1>13, <1>14,
             <1>15, NextCases

LEMMA SeqsInRange == \A s \in Seqs : s \in 0 .. MaxSeq
  BY ChainAssumption DEF Seqs

LEMMA TryAdvanceType ==
  ASSUME TypeOK, tryAdvance
  PROVE  /\ mAdvanceWork' \in BOOLEAN /\ mAdvanceThread' \in BOOLEAN
         /\ jobs' \in Nat /\ stalled' \subseteq Stops
  <1>1. mAdvanceWork' = TRUE /\ stalled' \subseteq Stops
    BY DEF tryAdvance, Resumed, TypeOK
  <1>2. CASE mAdvanceThread' = TRUE /\ jobs' = jobs + 1
    BY <1>1, <1>2 DEF TypeOK
  <1>3. CASE UNCHANGED <<mAdvanceThread, jobs>>
    BY <1>1, <1>3 DEF TypeOK
  <1> QED BY <1>2, <1>3 DEF tryAdvance

LEMMA TypeStep == ASSUME MasterInv, [Next]_vars PROVE TypeOK'
  <1>1. TypeOK /\ JobInv /\ FillInv
    BY DEF MasterInv
  <1>2. MaxSeq \in Nat /\ MaxFaults \in Nat
    BY ChainAssumption, SettingsAssumption
  <1>3. adv \in AdvanceJob /\ fill \in FillJob
    BY <1>1 DEF TypeOK
  <1>4. /\ mCompleteLedgers \in SUBSET Ranges /\ Canonical(mCompleteLedgers)
        /\ Ranges = Seqs \X Seqs
    BY CompleteType DEF MasterInv, CompleteInv, Ranges
  <1>5. CASE Accepting
    <2>1. UNCHANGED <<adv, mFillInProgress, fill, mCompleteLedgers, lastBuilt,
                      mRecentFailures, stream>>
      BY <1>5 DEF Accepting, filling
    <2>2. /\ mBuildingLedgerSeq' \in 0 .. MaxSeq /\ have' \subseteq Seqs
          /\ dispatch' \subseteq Seqs
          /\ vals' \in [Seqs -> Nat] /\ \A s \in Seqs : vals'[s] <= Validators[s]
      BY <1>1, <1>2, <1>5 DEF Accepting, TypeOK
    <2>3. /\ sql' \subseteq Seqs /\ saving' \subseteq Seqs /\ lost' \subseteq Seqs
          /\ inbound' \in [Seqs -> {"none", "fetching", "failed"}]
          /\ faults' \in 0 .. MaxFaults
      BY <1>1, <1>5 DEF Accepting, AcceptEffect, TypeOK
    <2>4. mValidLedgerSeq' \in 0 .. MaxSeq /\ mPubLedgerSeq' \in 0 .. MaxSeq
      <3>1. CASE UNCHANGED <<mValidLedgerSeq, mPubLedgerSeq>>
        BY <1>1, <3>1 DEF TypeOK
      <3>2. CASE /\ mValidLedgerSeq' \in Seqs
                 /\ mPubLedgerSeq = 0 => mPubLedgerSeq' = mValidLedgerSeq'
                 /\ mPubLedgerSeq # 0 => mPubLedgerSeq' = mPubLedgerSeq
        BY <1>1, <3>2, SeqsInRange DEF TypeOK
      <3> QED BY <1>5, <3>1, <3>2 DEF Accepting, AcceptEffect
    <2>5. /\ mAdvanceWork' \in BOOLEAN /\ mAdvanceThread' \in BOOLEAN
          /\ jobs' \in Nat /\ stalled' \subseteq Stops
      <3>1. CASE tryAdvance
        BY <1>1, <3>1, TryAdvanceType
      <3>2. CASE UNCHANGED work
        BY <1>1, <3>2 DEF work, TypeOK
      <3> QED BY <1>5, <3>1, <3>2 DEF Accepting, AcceptEffect
    <2> QED BY <1>1, <2>1, <2>2, <2>3, <2>4, <2>5 DEF TypeOK
  <1>6. CASE Other
    <2>1. PICK s \in Seqs : StartBuilding(s) \/ AcquireDone(s) \/ AcquireFail(s)
                           \/ Sweep(s) \/ ExpireFailure(s)
      BY <1>6 DEF Other
    <2>2. UNCHANGED <<mValidLedgerSeq, vals, mPubLedgerSeq, mAdvanceWork,
                      mAdvanceThread, jobs, adv, mFillInProgress, fill,
                      mCompleteLedgers, sql, saving, lost, stream>>
      BY <2>1 DEF StartBuilding, AcquireDone, AcquireFail, Sweep, ExpireFailure, valid, work,
                  filling, saves
    <2>3. mBuildingLedgerSeq' \in 0 .. MaxSeq /\ lastBuilt' \in 0 .. MaxSeq
          /\ stalled' \subseteq Stops
      BY <1>1, <2>1, SeqsInRange DEF StartBuilding, AcquireDone, AcquireFail,
                  Sweep, ExpireFailure, building, work, TypeOK, Stops
    <2>4. /\ have' \subseteq Seqs /\ mRecentFailures' \subseteq Seqs
          /\ dispatch' \subseteq Seqs
          /\ inbound' \in [Seqs -> {"none", "fetching", "failed"}]
      BY <1>1, <2>1 DEF StartBuilding, AcquireDone, AcquireFail, Sweep, ExpireFailure,
                  fetching, TypeOK
    <2>5. faults' \in 0 .. MaxFaults
      <3>1. UNCHANGED faults \/ Fault(s)
        BY <2>1 DEF StartBuilding, AcquireDone, AcquireFail, Sweep, ExpireFailure
      <3> QED BY <1>1, <3>1, FaultType DEF TypeOK
    <2> QED BY <1>1, <2>2, <2>3, <2>4, <2>5 DEF TypeOK
  <1>7. ASSUME NEW s \in Seqs, SaveJob(s) PROVE TypeOK'
    <2>1. UNCHANGED <<mValidLedgerSeq, vals, mPubLedgerSeq, mAdvanceWork,
                      mAdvanceThread, jobs, stalled, adv, mFillInProgress, fill,
                      mBuildingLedgerSeq, lastBuilt, have, mRecentFailures,
                      dispatch, stream>>
      BY <1>7 DEF SaveJob, valid, work, filling, building
    <2>2. CASE /\ saving' = saving \ {s} /\ sql' = sql \union {s}
               /\ UNCHANGED <<lost, inbound, mCompleteLedgers, faults>>
      BY <1>1, <2>1, <2>2 DEF TypeOK
    <2>3. CASE /\ saving' = saving \ {s} /\ Fault(s) /\ lost' = lost \union {s}
               /\ mCompleteLedgers' = clearValue(mCompleteLedgers, s)
               /\ inbound' = [inbound EXCEPT ![s] = "fetching"]
               /\ UNCHANGED sql
      <3>1. s \in Nat
        BY SeqsType
      <3>2. mCompleteLedgers' \subseteq Seqs \X Seqs
        BY <1>4, <2>3, <3>1, ClearValue
      <3>3. faults' \in 0 .. MaxFaults
        BY <1>1, <2>3, FaultType
      <3>4. /\ saving' \subseteq Seqs /\ lost' \subseteq Seqs
            /\ inbound' \in [Seqs -> {"none", "fetching", "failed"}]
        BY <1>1, <2>3 DEF TypeOK
      <3> QED BY <1>1, <2>1, <2>3, <3>2, <3>3, <3>4 DEF TypeOK
    <2> QED BY <1>7, <2>2, <2>3 DEF SaveJob
  \* The advance job: the type of what each step assigns.
  <1>8. ASSUME NEW p, LoopEnd(p)
        PROVE  /\ adv' \in AdvanceJob /\ mAdvanceWork' \in BOOLEAN
               /\ mAdvanceThread' \in BOOLEAN
    BY <1>1, <1>8, LoopEndEffect, RestingType DEF TypeOK
  <1>9. CASE advanceThread
    <2>1. adv' \in AdvanceJob /\ jobs' \in Nat
      BY <1>1, <1>9, RestingType DEF advanceThread, TypeOK
    <2> QED BY <1>1, <1>9, <2>1 DEF advanceThread, TypeOK, valid, filling,
               building, fetching, saves
  <1>10. CASE TopPublish
    <2>1. mPubLedgerSeq + 1 \in Nat /\ mValidLedgerSeq \in 0 .. MaxSeq
          /\ mPubLedgerSeq \in 0 .. MaxSeq
      BY <1>1, <1>2 DEF TypeOK
    <2>2. mValidLedgerSeq > mPubLedgerSeq
      BY <1>10 DEF TopPublish
    <2>3. <<mValidLedgerSeq>> \in Seq(Seqs)
      BY <1>2, <2>1, <2>2 DEF Seqs
    <2>4. adv' \in AdvanceJob
      <3>1. CASE adv' = [Resting EXCEPT !.pc = "publish", !.list = <<mValidLedgerSeq>>]
        BY <2>3, <3>1, RestingType DEF AdvanceJob
      <3>2. CASE adv' = [Resting EXCEPT !.pc = "scan", !.seq = mPubLedgerSeq + 1,
                           !.next = mPubLedgerSeq + 1, !.hi = mValidLedgerSeq]
        BY <2>1, <3>2, RestingType DEF AdvanceJob
      <3> QED BY <1>10, <3>1, <3>2 DEF TopPublish
    <2>5. mPubLedgerSeq' \in 0 .. MaxSeq
      BY <1>10, <2>1 DEF TopPublish
    <2> QED BY <1>1, <1>10, <2>4, <2>5 DEF TopPublish, TypeOK, valid, filling,
               building, fetching, saves
  <1>11. ASSUME NEW busy \in BOOLEAN, TopHistory(busy) PROVE TypeOK'
    <2> DEFINE missing == prevMissing(mCompleteLedgers, mPubLedgerSeq)
    <2>1. mPubLedgerSeq \in Seqs
      <3>1. mPubLedgerSeq \in Nat /\ mPubLedgerSeq <= MaxSeq /\ First \in Nat
            /\ First >= 1
        BY <1>1, ChainAssumption DEF TypeOK, Seqs
      <3>2. First <= mPubLedgerSeq
        BY <1>1, <1>11 DEF TopHistory, JobInv, ChainInv, MasterInv
      <3> QED BY <1>2, <3>1, <3>2 DEF Seqs
    <2>2. missing \in 0 .. MaxSeq
      BY <1>4, <2>1, PrevMissingType
    <2>3. \/ adv' = Resting /\ mAdvanceThread' = FALSE
          \/ /\ adv' = [Resting EXCEPT !.pc = "history", !.missing = missing]
             /\ UNCHANGED mAdvanceThread
      BY <1>11 DEF TopHistory, Leave
    <2> HIDE DEF missing
    <2>4. [Resting EXCEPT !.pc = "history", !.missing = missing] \in AdvanceJob
      BY <2>2, RestingType DEF AdvanceJob
    <2>5. adv' \in AdvanceJob /\ mAdvanceThread' \in BOOLEAN
      BY <1>1, <2>3, <2>4, RestingType DEF TypeOK
    <2> QED BY <1>1, <1>11, <2>5 DEF TopHistory, TypeOK, valid, filling,
               building, fetching, saves
  <1>12. CASE ScanLedger
    <2> DEFINE held == adv.seq \in have \/ adv.seq = adv.hi
    <2>1. /\ adv.pc = "scan" /\ adv.seq <= adv.hi
          /\ adv' = [adv EXCEPT
               !.seq = adv.seq + 1,
               !.acqs = IF held THEN @ ELSE @ + 1,
               !.list = IF held /\ adv.seq = adv.next THEN Append(@, adv.seq) ELSE @,
               !.next = IF held /\ adv.seq = @ THEN @ + 1 ELSE @]
          /\ \E S : Acquire(S)
      BY <1>12 DEF ScanLedger
    <2> HIDE DEF held
    <2>2. /\ adv.seq \in Nat /\ adv.next \in Nat /\ adv.acqs \in Nat
          /\ adv.hi \in 0 .. MaxSeq /\ adv.list \in Seq(Seqs)
      BY <1>3 DEF AdvanceJob
    <2>3. adv.seq \in Seqs
      <3>1. mPubLedgerSeq < adv.next /\ adv.next <= adv.seq
        BY <2>1 DEF MasterInv, StreamInv
      <3>2. mPubLedgerSeq \in Nat
        BY <1>1, <1>2 DEF TypeOK
      <3> QED BY <1>2, <2>1, <2>2, <3>1, <3>2 DEF Seqs
    <2>4. /\ adv.seq + 1 \in Nat /\ (IF held THEN adv.acqs ELSE adv.acqs + 1) \in Nat
          /\ (IF held /\ adv.seq = adv.next THEN Append(adv.list, adv.seq)
                                            ELSE adv.list) \in Seq(Seqs)
          /\ (IF held /\ adv.seq = adv.next THEN adv.next + 1 ELSE adv.next) \in Nat
      BY <2>2, <2>3
    <2>5. adv' \in AdvanceJob
      BY <1>3, <2>1, <2>4 DEF AdvanceJob
    <2>6. inbound' \in [Seqs -> {"none", "fetching", "failed"}]
      BY <1>1, <2>1, AcquireType
    <2> QED BY <1>1, <1>12, <2>5, <2>6 DEF ScanLedger, TypeOK, valid, work,
               filling, building, saves
  <1>13. CASE ScanThrows
    <2>1. adv.hi + 1 \in Nat
      BY <1>2, <1>3 DEF AdvanceJob
    <2>2. adv' \in AdvanceJob
      BY <1>3, <1>13, <2>1 DEF ScanThrows, AdvanceJob
    <2>3. faults' \in 0 .. MaxFaults
      BY <1>1, <1>13, FaultType DEF ScanThrows
    <2>4. stalled' \subseteq Stops
      BY <1>1, <1>13 DEF ScanThrows, TypeOK, Stops
    <2> QED BY <1>1, <1>13, <2>2, <2>3, <2>4 DEF ScanThrows, TypeOK, valid, filling,
               building, fetching, saves
  <1>14. ASSUME NEW l \in Seq(Seqs)
         PROVE  [Resting EXCEPT !.pc = "publish", !.list = l] \in AdvanceJob
    BY <1>14, RestingType DEF AdvanceJob
  <1>15. CASE ScanDone
    <2>1. /\ adv' \in AdvanceJob /\ mAdvanceWork' \in BOOLEAN
          /\ mAdvanceThread' \in BOOLEAN
      <3>1. adv.list \in Seq(Seqs)
        BY <1>3 DEF AdvanceJob
      <3> QED BY <1>1, <1>8, <1>14, <1>15, <3>1 DEF ScanDone, TypeOK
    <2> QED BY <1>1, <1>15, <2>1 DEF ScanDone, TypeOK, valid, filling,
               building, fetching, saves
  <1>16. CASE Publish
    <2>1. Head(adv.list) \in Seqs /\ SaveNow(Head(adv.list))
      BY <1>16, ListHead DEF Publish
    <2>2. /\ sql' \subseteq Seqs /\ saving' = saving /\ lost' \subseteq Seqs
          /\ inbound' \in [Seqs -> {"none", "fetching", "failed"}]
          /\ faults' \in 0 .. MaxFaults
      BY <1>1, <2>1, SaveNowEffect
    <2>3. mCompleteLedgers' \subseteq Seqs \X Seqs
      BY <1>4, <1>16, <2>1, SetValue DEF Publish
    <2>4. adv' \in AdvanceJob /\ have' \subseteq Seqs
      BY <1>1, <1>3, <1>16, <2>1 DEF Publish, AdvanceJob, TypeOK
    <2> QED BY <1>1, <1>16, <2>2, <2>3, <2>4 DEF Publish, TypeOK, valid, work,
               filling, building
  <1>17. CASE Announce
    <2>1. Head(adv.list) \in Seqs /\ adv.list \in Seq(Seqs) /\ adv.list # <<>>
      BY <1>3, <1>17, ListHead DEF Announce, AdvanceJob, MasterInv, StreamInv
    <2>2. stream' \in 0 .. MaxSeq /\ mPubLedgerSeq' \in 0 .. MaxSeq
      BY <1>17, <2>1, SeqsInRange DEF Announce
    <2>3. Tail(adv.list) \in Seq(Seqs)
      BY <2>1
    <2>4. /\ adv' \in AdvanceJob /\ mAdvanceWork' \in BOOLEAN
          /\ mAdvanceThread' \in BOOLEAN
      BY <1>1, <1>8, <1>14, <1>17, <2>3 DEF Announce, TypeOK
    <2> QED BY <1>1, <1>17, <2>2, <2>4 DEF Announce, TypeOK, valid, filling,
               building, fetching, saves
  <1>18. CASE AdvanceThrows
    <2>1. faults' \in 0 .. MaxFaults
      <3>1. \E s : Fault(s)
        BY <1>18 DEF AdvanceThrows
      <3> QED BY <1>1, <3>1, FaultType
    <2>2. stalled' \subseteq Stops
      BY <1>1, <1>18 DEF AdvanceThrows, TypeOK, Stops
    <2> QED BY <1>1, <1>18, <2>1, <2>2, RestingType DEF AdvanceThrows, Leave, TypeOK,
               valid, filling, building, fetching, saves
  <1>19. adv.pc = "history" => adv.missing \in Seqs /\ adv.missing \in 0 .. MaxSeq
    <2>1. adv.missing \in 0 .. MaxSeq
      BY <1>3 DEF AdvanceJob
    <2> QED BY <1>1, <1>2, <2>1 DEF JobInv, Seqs
  <1>20. CASE HistoryFound
    <2> DEFINE s == adv.missing
    <2>1. s \in Seqs /\ s \in 0 .. MaxSeq
      BY <1>19, <1>20 DEF HistoryFound
    <2>2. /\ adv' \in AdvanceJob /\ mAdvanceWork' \in BOOLEAN
          /\ mAdvanceThread' \in BOOLEAN
      BY <1>8, <1>20 DEF HistoryFound, HistoryEnd
    <2>3. saving' \subseteq Seqs
      BY <1>1, <1>20, <2>1 DEF HistoryFound, TypeOK
    <2>4. mCompleteLedgers' \subseteq Seqs \X Seqs
      BY <1>4, <1>20, <2>1, SetValue DEF HistoryFound
    <2>5. mFillInProgress' \in 0 .. MaxSeq /\ fill' \in FillJob
      <3>1. CASE UNCHANGED filling
        BY <1>1, <3>1 DEF filling, TypeOK
      <3>2. CASE /\ mFillInProgress' = s
                 /\ fill' = [NotFilling EXCEPT !.at = "step", !.seq = s,
                                               !.min = s, !.max = s]
        BY <2>1, <3>2 DEF NotFilling, FillJob
      <3> QED BY <1>20, <3>1, <3>2 DEF HistoryFound
    <2> QED BY <1>1, <1>20, <2>2, <2>3, <2>4, <2>5 DEF HistoryFound, TypeOK,
               valid, building, fetching
  <1>21. CASE HistoryFetch
    <2>1. /\ adv' \in AdvanceJob /\ mAdvanceWork' \in BOOLEAN
          /\ mAdvanceThread' \in BOOLEAN
      BY <1>8, <1>21 DEF HistoryFetch, HistoryEnd
    <2>2. inbound' \in [Seqs -> {"none", "fetching", "failed"}]
      <3>1. \E S : Acquire(S)
        BY <1>21 DEF HistoryFetch
      <3> QED BY <1>1, <3>1, AcquireType
    <2> QED BY <1>1, <1>21, <2>1, <2>2 DEF HistoryFetch, TypeOK, valid,
               filling, building, saves
  <1>22. CASE HistoryNoHash
    <2>1. /\ adv' \in AdvanceJob /\ mAdvanceWork' \in BOOLEAN
          /\ mAdvanceThread' \in BOOLEAN
      BY <1>8, <1>22 DEF HistoryNoHash, HistoryEnd
    <2>2. adv.missing + 1 \in Nat
      BY <1>2, <1>3 DEF AdvanceJob
    <2>3. mCompleteLedgers' \subseteq Seqs \X Seqs
      BY <1>4, <1>22, <2>2, ClearValue DEF HistoryNoHash
    <2>4. faults' \in 0 .. MaxFaults
      BY <1>1, <1>22, FaultType DEF HistoryNoHash
    <2> QED BY <1>1, <1>22, <2>1, <2>3, <2>4 DEF HistoryNoHash, TypeOK, valid,
               filling, building, fetching, saves
  <1>23. CASE FillStep
    <2> DEFINE at == IF hasValue(mCompleteLedgers, fill.seq - 1) THEN "end"
                     ELSE IF fill.seq - 1 \in fill.hashes
                            THEN IF fill.seq - 1 > 0 THEN "step" ELSE "end"
                            ELSE "hashes"
    <2>1. /\ fill.at = "step" /\ at \in {"step", "end", "hashes"}
          /\ fill' = [fill EXCEPT !.min = fill.seq, !.seq = @ - 1, !.at = at]
      BY <1>23 DEF FillStep
    <2> HIDE DEF at
    <2>2. fill.seq \in 0 .. MaxSeq /\ fill.seq - 1 \in 0 .. MaxSeq
      BY <1>1, <1>2, <1>3, <2>1 DEF FillInv, FillJob
    <2>3. fill' \in FillJob
      BY <1>3, <2>1, <2>2 DEF FillJob
    <2> QED BY <1>1, <1>23, <2>3 DEF FillStep, TypeOK, valid, work, building,
               fetching, saves
  <1>24. fill.at # "idle" =>
           setRange(mCompleteLedgers, fill.min, fill.max) \subseteq Seqs \X Seqs
    <2>1. fill.at # "idle" => fill.min \in Seqs /\ fill.max \in Seqs
      BY <1>1, <1>2, <1>3 DEF FillInv, FillJob, Seqs
    <2> QED BY <1>4, <2>1, SetRange
  <1>25. CASE FillHashes
    <2> DEFINE hashes == {t \in sql : t <= fill.seq /\ fill.seq < t + FillWindow}
               at == IF fill.seq \in hashes /\ fill.seq > 0 THEN "step" ELSE "end"
    <2>1. /\ fill.at = "hashes" /\ at \in {"step", "end"} /\ hashes \subseteq sql
          /\ fill' = [fill EXCEPT !.max = fill.min, !.hashes = hashes, !.at = at]
      BY <1>25 DEF FillHashes
    <2> HIDE DEF hashes, at
    <2>2. hashes \in SUBSET Seqs
      BY <1>1, <2>1 DEF TypeOK
    <2>3. fill' \in FillJob
      BY <1>3, <2>1, <2>2 DEF FillJob
    <2> QED BY <1>1, <1>24, <1>25, <2>1, <2>3 DEF FillHashes, TypeOK, valid, work,
               building, fetching, saves
  <1>26. CASE FillEnd
    <2>1. fill' \in FillJob
      BY <1>2, <1>26 DEF FillEnd, NotFilling, FillJob
    <2>2. /\ mAdvanceWork' \in BOOLEAN /\ mAdvanceThread' \in BOOLEAN
          /\ jobs' \in Nat /\ stalled' \subseteq Stops
      BY <1>1, <1>26, TryAdvanceType DEF FillEnd
    <2>3. mFillInProgress' \in 0 .. MaxSeq
      BY <1>2, <1>26 DEF FillEnd
    <2> QED BY <1>1, <1>24, <1>26, <2>1, <2>2, <2>3 DEF FillEnd, TypeOK, valid,
               building, fetching, saves
  <1>27. CASE UNCHANGED vars
    BY <1>1, <1>27 DEF vars, valid, work, filling, building, fetching, saves, TypeOK
  <1> QED BY <1>5, <1>6, <1>7, <1>9, <1>10, <1>11, <1>12, <1>13, <1>15, <1>16,
             <1>17, <1>18, <1>20, <1>21, <1>22, <1>23, <1>25, <1>26, <1>27,
             NextCases

-----------------------------------------------------------------------------
(* The invariant holds in every reachable state, whatever the network      *)
(* validates, peers answer and saves fail.                                 *)
THEOREM MasterCorrect == Spec => []MasterInv
  <1>1. MasterInv /\ [Next]_vars => MasterInv'
    BY TypeStep, JobStep, SavedStep, ChainStep, StreamStep DEF MasterInv
  <1> QED BY InitInv, <1>1, PTL DEF Spec

(* mAdvanceThread says exactly whether an advance job is queued or runs,   *)
(* and work asked for with tryAdvance while a ledger is valid has such a   *)
(* job, unless an exception in doAdvance ended it.                         *)
THEOREM AdvanceCorrect == Spec => []AdvanceNotLost
  <1>1. MasterInv => AdvanceNotLost
    <2> SUFFICES ASSUME MasterInv PROVE AdvanceNotLost
      OBVIOUS
    <2>1. JobInv /\ jobs \in Nat /\ mAdvanceThread \in BOOLEAN
      BY DEF MasterInv, TypeOK
    <2>2. CASE mAdvanceThread
      BY <2>1, <2>2 DEF JobInv, AdvanceNotLost
    <2>3. CASE ~ mAdvanceThread
      BY <2>1, <2>3 DEF JobInv, AdvanceNotLost
    <2> QED BY <2>2, <2>3
  <1> QED BY <1>1, MasterCorrect, PTL

(* What is announced as complete is in the database, or its save pends or  *)
(* failed, however tryFill, the advance job and failing saves interleave;  *)
(* and the ranges of mCompleteLedgers neither overlap nor touch.           *)
THEOREM CompleteCorrect == Spec => []CompleteSaved
  <1>1. MasterInv => CompleteSaved
    <2> SUFFICES ASSUME MasterInv PROVE CompleteSaved
      OBVIOUS
    <2>1. simplify(mCompleteLedgers) = mCompleteLedgers
      BY CompleteType, CanonicalFixed DEF MasterInv, CompleteInv
    <2>2. ASSUME NEW v \in Values(mCompleteLedgers)
          PROVE  v \in sql \union saving \union lost
      <3>1. PICK r \in mCompleteLedgers : v \in r[1] .. r[2]
        BY DEF Values
      <3>2. r[1] \in Nat /\ r[2] \in Nat
        BY CompleteType, RangeType, SeqsType
      <3>3. v \in Nat /\ hasValue(mCompleteLedgers, v)
        BY <3>1, <3>2 DEF hasValue
      <3> QED BY <3>3 DEF MasterInv, CompleteInv, Held
    <2> QED BY <2>1, <2>2 DEF CompleteSaved
  <1> QED BY <1>1, MasterCorrect, PTL

(* Subscribers see the validated ledgers in order: each announced ledger   *)
(* is validated and complete, and is the successor of the one before, or   *)
(* more than MAX_LEDGER_GAP later.                                         *)
THEOREM PublishCorrect == Spec => PublishedInOrder
  <1> DEFINE InOrder ==
        stream' # stream =>
          /\ stream' <= mValidLedgerSeq
          /\ stream' \in Values(mCompleteLedgers) \union lost
          /\ IF stream = 0 THEN stream' > First
             ELSE stream' = stream + 1 \/ stream' > stream + MAX_LEDGER_GAP
  <1>1. MasterInv /\ [Next]_vars => [InOrder]_vars
    <2> SUFFICES ASSUME MasterInv, [Next]_vars, stream' # stream
                 PROVE  InOrder
      OBVIOUS
    <2>1. Announce
      BY NextCases DEF Accepting, Other, StartBuilding, AcquireDone,
         AcquireFail, Sweep, ExpireFailure, SaveJob, advanceThread, TopPublish, TopHistory,
         ScanLedger, ScanThrows, ScanDone, Publish, AdvanceThrows,
         HistoryFound, HistoryFetch, HistoryNoHash, FillStep, FillHashes,
         FillEnd, vars
    <2> DEFINE s == Head(adv.list)
    <2>2. adv.pc = "announce" /\ stream' = s
      BY <2>1 DEF Announce
    <2>3. 1 \in 1 .. Len(adv.list) /\ s = adv.list[1] /\ s \in Nat
      <3>1. Len(adv.list) \in Nat /\ Len(adv.list) >= 1 /\ s = adv.list[1] /\ s \in Seqs
        BY <2>2, ListHead
      <3> HIDE DEF s
      <3> QED BY <3>1, SeqsType
    <2>4. /\ Behind \/ stream = mPubLedgerSeq
          /\ s <= mValidLedgerSeq
          /\ \/ s = mPubLedgerSeq + 1
             \/ s = mPubLedgerSeq /\ Behind /\ mPubLedgerSeq > First
          /\ hasValue(mCompleteLedgers, s) \/ s \in lost
      BY <2>2, <2>3 DEF MasterInv, StreamInv
    <2> HIDE DEF s
    <2>5. s \in Values(mCompleteLedgers) \union lost
      BY <2>3, <2>4, CompleteType, ValuesHas
    <2>6. /\ mPubLedgerSeq \in Nat /\ stream \in Nat /\ First \in Nat
          /\ First <= mPubLedgerSeq
      BY <2>2, ChainAssumption, SeqsType DEF MasterInv, TypeOK, JobInv, ChainInv
    <2>7. IF stream = 0 THEN s > First
          ELSE s = stream + 1 \/ s > stream + MAX_LEDGER_GAP
      BY <2>3, <2>4, <2>6, GapType DEF Behind
    <2> QED BY <2>2, <2>4, <2>5, <2>7
  <1> QED BY <1>1, MasterCorrect, PTL DEF Spec, PublishedInOrder
==============================================================================
