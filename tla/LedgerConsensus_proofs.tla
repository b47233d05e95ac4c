------------------------ MODULE LedgerConsensus_proofs -----------------------
(***************************************************************************)
(* Proofs about the consensus round, for any set of peers, transactions    *)
(* and ledgers and any times: the votes on disputed transactions are what  *)
(* the positions of the tracked peers and our own position say, and the    *)
(* close time we settle on has half of the participants behind it.  The    *)
(* close time vote is shared with CloseTime, whose theorems are here too.  *)
(*                                                                         *)
(* The handlers are compositions of operators from a round to a round, and *)
(* so are the proofs: one lemma per operator, about any round r.           *)
(***************************************************************************)
EXTENDS LedgerConsensus, CloseTime, FiniteSetTheorems, WellFoundedInduction,
        TLAPS

(* The members of LedgerConsensusImp that a round has. *)
HasFields(r) ==
  DOMAIN r =
    {"state", "prevLedgerHash", "previousLedger", "acquiringLedger",
     "haveCorrectLCL", "proposing", "validating", "consensusFail",
     "haveCloseTimeConsensus", "closeResolution", "startTime", "ourPosition",
     "peerPositions", "deadNodes", "acquired", "compares", "wanted", "disputes"}

IsPosition(o) ==
  /\ DOMAIN o = {"prevLedger", "seq", "pos", "closeTime", "time"}
  /\ o.seq \in Nat

(* A dispute whose counters are the sums of the votes it records. *)
Counted(d) ==
  /\ d \in Dispute
  /\ d.yays = Holding(d, Peers, "yes")
  /\ d.nays = Holding(d, Peers, "no")

PeersOK(r) ==
  /\ HasFields(r)
  /\ DOMAIN r.peerPositions \subseteq Peers
  /\ r.deadNodes \cap DOMAIN r.peerPositions = {}

VotesOK(r) ==
  /\ \A t \in DOMAIN r.disputes : Counted(r.disputes[t])
  /\ \A t \in DOMAIN r.disputes, p \in Peers :
       r.disputes[t].votes[p] # "none" => p \in DOMAIN r.peerPositions

(* The votes of the peers of S are those of the sets they propose. *)
CurrentOn(r, S) ==
  \A t \in DOMAIN r.disputes, p \in S :
    r.peerPositions[p].pos \in r.acquired =>
      r.disputes[t].votes[p] = VoteOf(t, r.peerPositions[p].pos)

(* Our votes are those of the set we propose. *)
OurVotes(r) ==
  InConsensus(r) =>
    \A t \in DOMAIN r.disputes : r.disputes[t].ourVote <=> t \in r.ourPosition.pos

(* We have a position once the ledger is closed, and hold its set. *)
OursHeld(r) ==
  /\ r.state = "open" <=> r.ourPosition = NoPosition
  /\ r.ourPosition # NoPosition => IsPosition(r.ourPosition)
  /\ r.ourPosition # NoPosition => r.ourPosition.pos \in r.acquired

(* Where our position and a set we compared it with differ is disputed.    *)
Covered(r) ==
  /\ r.ourPosition = NoPosition => r.compares = {}
  /\ InConsensus(r) =>
       \A s \in r.compares :
         SymDiff(r.ourPosition.pos, s) \subseteq DOMAIN r.disputes

PeerVotes(r) == PeersOK(r) /\ VotesOK(r)
Current(r) == CurrentOn(r, DOMAIN r.peerPositions)

(* A set of in that a tracked peer takes is acquired; of the sets that     *)
(* InboundTransactions has, in will be those mapComplete has run for.      *)
Known(r, in) ==
  \A p \in DOMAIN r.peerPositions :
    r.peerPositions[p].pos \in in => r.peerPositions[p].pos \in r.acquired

(* A proposing server has never left the ledger it started from. *)
InSync(r) ==
  r.proposing =>
    /\ r.haveCorrectLCL
    /\ r.prevLedgerHash = OurLCL /\ r.previousLedger = OurLCL
    /\ r.ourPosition # NoPosition => r.ourPosition.prevLedger = OurLCL

(* The compared sets stay covered until a change of ledger ends proposing. *)
StillCovered(r) == r.proposing => Covered(r)

IsLog(log) == \E S : log \in Seq(S)

(* The i-th broadcast of a round has sequence number i - 1, except the one *)
(* with which we bow out; while we propose, the last one is our position.  *)
SentOK(r, log) ==
  /\ IsLog(log)
  /\ r.proposing /\ r.ourPosition = NoPosition => Len(log) = 0
  /\ r.proposing /\ r.ourPosition # NoPosition => Len(log) = r.ourPosition.seq + 1
  /\ \A i \in 1 .. Len(log) :
       \/ log[i].seq = i - 1
       \/ i = Len(log) /\ log[i].seq = SeqLeave /\ ~r.proposing

RoundOK(r) ==
  /\ PeerVotes(r) /\ OurVotes(r) /\ OursHeld(r) /\ InSync(r) /\ StillCovered(r)
  /\ r.prevLedgerHash \in Ledgers

Tracked(r, in) == Current(r) /\ Known(r, in)

MoveOK(m) ==
  /\ DOMAIN m = {"r", "sent"}
  /\ RoundOK(m.r) /\ SentOK(m.r, m.sent)

(* What the operators on votes leave alone. *)
SameOurs(q, r) ==
  /\ q.state = r.state
  /\ q.prevLedgerHash = r.prevLedgerHash
  /\ q.previousLedger = r.previousLedger
  /\ q.haveCorrectLCL = r.haveCorrectLCL
  /\ q.proposing = r.proposing
  /\ q.ourPosition = r.ourPosition

SamePeers(q, r) ==
  /\ q.peerPositions = r.peerPositions
  /\ q.deadNodes = r.deadNodes

-----------------------------------------------------------------------------
(* Disputes. *)

Outside(d, S, v) == Cardinality({p \in Peers \ S : d.votes[p] = v})

(* The peers that hold a vote, split by membership in S. *)
LEMMA HoldingSplit ==
  ASSUME NEW d, NEW S \in SUBSET Peers, NEW v
  PROVE  /\ Holding(d, S, v) \in Nat /\ Cardinality(S) \in Nat
         /\ Outside(d, S, v) \in Nat
         /\ Holding(d, Peers, v) = Holding(d, S, v) + Outside(d, S, v)
  <1> DEFINE A == {p \in S : d.votes[p] = v}
             B == {p \in Peers \ S : d.votes[p] = v}
             C == {p \in Peers : d.votes[p] = v}
  <1>1. IsFiniteSet(Peers)
    BY RoundAssumption
  <1>2. IsFiniteSet(S) /\ IsFiniteSet(A) /\ IsFiniteSet(B)
    <2>1. S \subseteq Peers /\ A \subseteq Peers /\ B \subseteq Peers
      OBVIOUS
    <2> QED BY <1>1, <2>1, FS_Subset
  <1>3. C = A \cup B /\ A \cap B = {}
    OBVIOUS
  <1>4. Cardinality(S) \in Nat /\ Cardinality(A) \in Nat /\ Cardinality(B) \in Nat
    BY <1>2, FS_CardinalityType
  <1> HIDE DEF A, B, C
  <1>5. Cardinality(C) = Cardinality(A) + Cardinality(B)
    <2>1. Cardinality(A \cup B)
            = Cardinality(A) + Cardinality(B) - Cardinality(A \cap B)
      BY <1>2, FS_Union
    <2>2. Cardinality(A \cap B) = 0
      BY <1>3, FS_EmptySet
    <2> QED BY <1>3, <1>4, <2>1, <2>2
  <1>6. Holding(d, S, v) = Cardinality(A) /\ Holding(d, Peers, v) = Cardinality(C)
    BY DEF Holding, A, C
  <1>7. Outside(d, S, v) = Cardinality(B)
    BY DEF B, Outside
  <1> QED BY <1>4, <1>5, <1>6, <1>7

(* What is held after one vote was recorded for all of S. *)
LEMMA HoldingRecorded ==
  ASSUME NEW d, NEW e, NEW S \in SUBSET Peers, NEW v, NEW w,
         e.votes = Recorded(d, S, w)
  PROVE  /\ w = v => Holding(e, Peers, v) =
                       Cardinality(S) + Holding(d, Peers, v) - Holding(d, S, v)
         /\ w # v => Holding(e, Peers, v) =
                       Holding(d, Peers, v) - Holding(d, S, v)
  <1>1. \A p \in Peers : e.votes[p] = IF p \in S THEN w ELSE d.votes[p]
    BY DEF Recorded
  <1>2. {p \in Peers \ S : e.votes[p] = v} = {p \in Peers \ S : d.votes[p] = v}
    BY <1>1
  <1>3. /\ w = v => {p \in S : e.votes[p] = v} = S
        /\ w # v => {p \in S : e.votes[p] = v} = {}
    BY <1>1
  <1>4. /\ w = v => Holding(e, S, v) = Cardinality(S)
        /\ w # v => Holding(e, S, v) = 0
    BY <1>3, FS_EmptySet DEF Holding
  <1>5. /\ Holding(d, S, v) \in Nat /\ Cardinality(S) \in Nat
        /\ Outside(d, S, v) \in Nat
        /\ Holding(d, Peers, v) = Holding(d, S, v) + Outside(d, S, v)
        /\ Holding(e, Peers, v) = Holding(e, S, v) + Outside(e, S, v)
    BY HoldingSplit
  <1>6. Outside(e, S, v) = Outside(d, S, v)
    BY <1>2 DEF Outside
  <1> QED BY <1>4, <1>5, <1>6

LEMMA DisputeExcept ==
  ASSUME NEW d \in Dispute, NEW v \in [Peers -> Vote], NEW a \in Nat, NEW b \in Nat
  PROVE  [d EXCEPT !.votes = v, !.yays = a, !.nays = b] \in Dispute
  BY DEF Dispute

LEMMA HoldingNat ==
  ASSUME NEW d, NEW v PROVE Holding(d, Peers, v) \in Nat
  BY HoldingSplit

(* setVote keeps the counters exact, for a new and for a changed vote. *)
LEMMA SetVoteCounted ==
  ASSUME NEW d, Counted(d), NEW S \in SUBSET Peers, NEW w \in {"yes", "no"}
  PROVE  /\ Counted(SetVote(d, S, w))
         /\ SetVote(d, S, w).ourVote = d.ourVote
         /\ \A p \in Peers : SetVote(d, S, w).votes[p] =
              IF p \in S THEN w ELSE d.votes[p]
  <1> DEFINE e == SetVote(d, S, w)
  <1>1. /\ d \in Dispute
        /\ d.yays = Holding(d, Peers, "yes") /\ d.nays = Holding(d, Peers, "no")
    BY DEF Counted
  <1>2. /\ e.ourVote = d.ourVote
        /\ e.votes = Recorded(d, S, w)
        /\ e.yays = d.yays + ((IF w = "yes" THEN Cardinality(S) ELSE 0)
                              - Holding(d, S, "yes"))
        /\ e.nays = d.nays + ((IF w = "no" THEN Cardinality(S) ELSE 0)
                              - Holding(d, S, "no"))
    BY <1>1 DEF SetVote, Dispute
  <1>3. e.votes \in [Peers -> Vote]
    BY <1>1, <1>2 DEF Recorded, Dispute, Vote
  <1>4. \A p \in Peers : e.votes[p] = IF p \in S THEN w ELSE d.votes[p]
    BY <1>2 DEF Recorded
  <1>5. e = [d EXCEPT !.votes = e.votes, !.yays = e.yays, !.nays = e.nays]
    BY <1>1, <1>2 DEF SetVote
  <1> HIDE DEF e
  <1>6. /\ Holding(d, S, "yes") \in Nat /\ Holding(d, S, "no") \in Nat
        /\ Cardinality(S) \in Nat /\ Holding(d, Peers, "yes") \in Nat
        /\ Holding(d, Peers, "no") \in Nat
        /\ Holding(e, Peers, "yes") \in Nat /\ Holding(e, Peers, "no") \in Nat
    BY HoldingSplit, HoldingNat
  <1>7. e.yays = Holding(e, Peers, "yes") /\ e.nays = Holding(e, Peers, "no")
    <2>1. CASE w = "yes"
      <3>1. /\ Holding(e, Peers, "yes") =
                 Cardinality(S) + Holding(d, Peers, "yes") - Holding(d, S, "yes")
            /\ Holding(e, Peers, "no") =
                 Holding(d, Peers, "no") - Holding(d, S, "no")
        BY <1>2, <2>1, HoldingRecorded
      <3> QED BY <1>1, <1>2, <1>6, <2>1, <3>1
    <2>2. CASE w = "no"
      <3>1. /\ Holding(e, Peers, "no") =
                 Cardinality(S) + Holding(d, Peers, "no") - Holding(d, S, "no")
            /\ Holding(e, Peers, "yes") =
                 Holding(d, Peers, "yes") - Holding(d, S, "yes")
        BY <1>2, <2>2, HoldingRecorded
      <3> QED BY <1>1, <1>2, <1>6, <2>2, <3>1
    <2> QED BY <2>1, <2>2
  <1>8. e \in Dispute
    <2>1. e.yays \in Nat /\ e.nays \in Nat
      BY <1>6, <1>7
    <2>2. [d EXCEPT !.votes = e.votes, !.yays = e.yays, !.nays = e.nays]
            \in Dispute
      BY <1>1, <1>3, <2>1, DisputeExcept
    <2> QED BY <1>5, <2>2
  <1> QED BY <1>2, <1>4, <1>7, <1>8 DEF Counted, e

(* unVote keeps them exact too. *)
LEMMA UnVoteCounted ==
  ASSUME NEW d, Counted(d), NEW S \in SUBSET Peers
  PROVE  /\ Counted(UnVote(d, S))
         /\ UnVote(d, S).ourVote = d.ourVote
         /\ \A p \in Peers : UnVote(d, S).votes[p] =
              IF p \in S THEN "none" ELSE d.votes[p]
  <1> DEFINE e == UnVote(d, S)
  <1>1. /\ d \in Dispute
        /\ d.yays = Holding(d, Peers, "yes") /\ d.nays = Holding(d, Peers, "no")
    BY DEF Counted
  <1>2. /\ e.ourVote = d.ourVote
        /\ e.votes = Recorded(d, S, "none")
        /\ e.yays = d.yays - Holding(d, S, "yes")
        /\ e.nays = d.nays - Holding(d, S, "no")
    BY <1>1 DEF UnVote, Dispute
  <1>3. e.votes \in [Peers -> Vote]
    BY <1>1, <1>2 DEF Recorded, Dispute, Vote
  <1>4. \A p \in Peers : e.votes[p] = IF p \in S THEN "none" ELSE d.votes[p]
    BY <1>2 DEF Recorded
  <1>5. e = [d EXCEPT !.votes = e.votes, !.yays = e.yays, !.nays = e.nays]
    BY <1>1, <1>2 DEF UnVote
  <1> HIDE DEF e
  <1>6. Holding(e, Peers, "yes") \in Nat /\ Holding(e, Peers, "no") \in Nat
    BY HoldingNat
  <1>7. /\ Holding(e, Peers, "yes") =
             Holding(d, Peers, "yes") - Holding(d, S, "yes")
        /\ Holding(e, Peers, "no") =
             Holding(d, Peers, "no") - Holding(d, S, "no")
    <2>1. "none" # "yes" /\ "none" # "no"
      OBVIOUS
    <2> QED BY <1>2, <2>1, HoldingRecorded
  <1>8. e.yays = Holding(e, Peers, "yes") /\ e.nays = Holding(e, Peers, "no")
    BY <1>1, <1>2, <1>7
  <1>9. e \in Dispute
    <2>1. e.yays \in Nat /\ e.nays \in Nat
      BY <1>6, <1>8
    <2>2. [d EXCEPT !.votes = e.votes, !.yays = e.yays, !.nays = e.nays]
            \in Dispute
      BY <1>1, <1>3, <2>1, DisputeExcept
    <2> QED BY <1>5, <2>2
  <1> QED BY <1>2, <1>4, <1>8, <1>9 DEF Counted, e

LEMMA NewCounted ==
  ASSUME NEW b \in BOOLEAN
  PROVE  /\ Counted(NewDispute(b)) /\ NewDispute(b).ourVote = b
         /\ \A p \in Peers : NewDispute(b).votes[p] = "none"
  <1> DEFINE d == NewDispute(b)
  <1>1. /\ d \in Dispute /\ d.ourVote = b /\ d.yays = 0 /\ d.nays = 0
        /\ \A p \in Peers : d.votes[p] = "none"
    BY DEF NewDispute, Dispute, Vote
  <1> HIDE DEF d
  <1>2. {p \in Peers : d.votes[p] = "yes"} = {}
          /\ {p \in Peers : d.votes[p] = "no"} = {}
    BY <1>1
  <1>3. Holding(d, Peers, "yes") = 0 /\ Holding(d, Peers, "no") = 0
    BY <1>2, FS_EmptySet DEF Holding
  <1> QED BY <1>1, <1>3 DEF Counted, d

-----------------------------------------------------------------------------
(* Operators on a round. *)

(* adjustCount for peers that propose s. *)
LEMMA AdjustCountOK ==
  ASSUME NEW r, PeersOK(r), VotesOK(r), NEW s,
         NEW S \in SUBSET DOMAIN r.peerPositions,
         \A p \in S : r.peerPositions[p].pos = s
  PROVE  LET q == AdjustCount(r, s, S) IN
         /\ PeerVotes(q) /\ SameOurs(q, r) /\ SamePeers(q, r)
         /\ q.acquired = r.acquired /\ q.compares = r.compares
         /\ DOMAIN q.disputes = DOMAIN r.disputes
         /\ \A t \in DOMAIN r.disputes :
              q.disputes[t].ourVote = r.disputes[t].ourVote
         /\ CurrentOn(r, DOMAIN r.peerPositions \ S) => Current(q)
  <1> DEFINE q == AdjustCount(r, s, S)
  <1>1. /\ HasFields(q) /\ SameOurs(q, r) /\ SamePeers(q, r)
        /\ q.acquired = r.acquired /\ q.compares = r.compares
        /\ q.disputes = [t \in DOMAIN r.disputes |->
                           SetVote(r.disputes[t], S, VoteOf(t, s))]
    BY DEF AdjustCount, PeersOK, HasFields, SameOurs, SamePeers
  <1> HIDE DEF q
  <1>2. S \subseteq Peers
    BY DEF PeersOK
  <1>3. ASSUME NEW t \in DOMAIN r.disputes
        PROVE  /\ Counted(q.disputes[t])
               /\ q.disputes[t].ourVote = r.disputes[t].ourVote
               /\ \A p \in Peers : q.disputes[t].votes[p] =
                    IF p \in S THEN VoteOf(t, s) ELSE r.disputes[t].votes[p]
    <2>1. q.disputes[t] = SetVote(r.disputes[t], S, VoteOf(t, s))
      BY <1>1
    <2>2. Counted(r.disputes[t])
      BY DEF VotesOK
    <2>3. VoteOf(t, s) \in {"yes", "no"}
      BY DEF VoteOf
    <2> QED BY <1>2, <2>1, <2>2, <2>3, SetVoteCounted
  <1>4. DOMAIN q.disputes = DOMAIN r.disputes
    BY <1>1
  <1>5. PeersOK(q)
    BY <1>1 DEF PeersOK, SamePeers
  <1>6. VotesOK(q)
    BY <1>1, <1>3, <1>4 DEF VotesOK, SamePeers
  <1>7. CurrentOn(r, DOMAIN r.peerPositions \ S) => Current(q)
    <2> SUFFICES ASSUME CurrentOn(r, DOMAIN r.peerPositions \ S),
                        NEW t \in DOMAIN r.disputes,
                        NEW p \in DOMAIN r.peerPositions,
                        r.peerPositions[p].pos \in r.acquired
                 PROVE  q.disputes[t].votes[p] =
                     VoteOf(t, r.peerPositions[p].pos)
      BY <1>1, <1>4 DEF Current, CurrentOn, SamePeers
    <2>1. p \in Peers
      BY DEF PeersOK
    <2>2. CASE p \in S
      BY <1>3, <2>1, <2>2
    <2>3. CASE p \notin S
      BY <1>3, <2>1, <2>3 DEF CurrentOn
    <2> QED BY <2>2, <2>3
  <1>8. PeerVotes(q)
    BY <1>5, <1>6 DEF PeerVotes
  <1> QED BY <1>1, <1>3, <1>4, <1>7, <1>8 DEF q

(* A new dispute has our vote and those of the peers whose set we hold. *)
LEMMA DisputedOK ==
  ASSUME NEW r, PeersOK(r), NEW t
  PROVE  LET d == Disputed(r, t) IN
         /\ Counted(d)
         /\ d.ourVote <=> (r.ourPosition # NoPosition /\ t \in r.ourPosition.pos)
         /\ \A p \in Peers :
              /\ d.votes[p] # "none" => p \in DOMAIN r.peerPositions
              /\ p \in DOMAIN r.peerPositions
                   /\ r.peerPositions[p].pos \in r.acquired =>
                   d.votes[p] =
                     VoteOf(t, r.peerPositions[p].pos)
  <1> DEFINE known == {p \in DOMAIN r.peerPositions :
                         r.peerPositions[p].pos \in r.acquired}
             yes == {p \in known : t \in r.peerPositions[p].pos}
             ours == r.ourPosition # NoPosition /\ t \in r.ourPosition.pos
             d0 == NewDispute(ours)
             d1 == SetVote(d0, yes, "yes")
             d2 == SetVote(d1, known \ yes, "no")
  <1>1. Disputed(r, t) = d2
    BY DEF Disputed
  <1>2. yes \subseteq Peers /\ known \ yes \subseteq Peers /\ ours \in BOOLEAN
    BY DEF PeersOK
  <1>3. \A p \in Peers :
          /\ p \in known <=> /\ p \in DOMAIN r.peerPositions
                             /\ r.peerPositions[p].pos \in r.acquired
          /\ p \in yes <=> p \in known /\ t \in r.peerPositions[p].pos
    OBVIOUS
  <1> HIDE DEF known, yes
  <1>4. ours <=> (r.ourPosition # NoPosition /\ t \in r.ourPosition.pos)
    OBVIOUS
  <1> HIDE DEF ours
  <1>5. /\ Counted(d0) /\ d0.ourVote = ours
        /\ \A p \in Peers : d0.votes[p] = "none"
    BY <1>2, NewCounted
  <1> HIDE DEF d0
  <1>6. /\ Counted(d1) /\ d1.ourVote = d0.ourVote
        /\ \A p \in Peers : d1.votes[p] =
             IF p \in yes THEN "yes" ELSE d0.votes[p]
    BY <1>2, <1>5, SetVoteCounted
  <1> HIDE DEF d1
  <1>7. /\ Counted(d2) /\ d2.ourVote = d1.ourVote
        /\ \A p \in Peers : d2.votes[p] =
             IF p \in known \ yes THEN "no" ELSE d1.votes[p]
    BY <1>2, <1>6, SetVoteCounted
  <1> HIDE DEF d2
  <1> QED BY <1>1, <1>3, <1>4, <1>5, <1>6, <1>7 DEF VoteOf

(* createDisputes adds disputes and changes none. *)
LEMMA CreateDisputesOK ==
  ASSUME NEW r, PeerVotes(r), OurVotes(r), NEW D
  PROVE  LET q == CreateDisputes(r, D) IN
         /\ PeerVotes(q) /\ OurVotes(q) /\ SameOurs(q, r) /\ SamePeers(q, r)
         /\ q.acquired = r.acquired /\ q.compares = r.compares
         /\ DOMAIN q.disputes = DOMAIN r.disputes \cup D
         /\ Current(r) => Current(q)
  <1> DEFINE q == CreateDisputes(r, D)
  <1>0. PeersOK(r) /\ VotesOK(r)
    BY DEF PeerVotes
  <1>1. /\ HasFields(q) /\ SameOurs(q, r) /\ SamePeers(q, r)
        /\ q.acquired = r.acquired /\ q.compares = r.compares
        /\ q.disputes = [t \in DOMAIN r.disputes \cup D |->
                           IF t \in DOMAIN r.disputes THEN r.disputes[t]
                           ELSE Disputed(r, t)]
    BY <1>0 DEF CreateDisputes, PeersOK, HasFields, SameOurs, SamePeers
  <1> HIDE DEF q
  <1>2. DOMAIN q.disputes = DOMAIN r.disputes \cup D
    BY <1>1
  <1>3. \A t \in DOMAIN q.disputes :
          \/ t \in DOMAIN r.disputes /\ q.disputes[t] = r.disputes[t]
          \/ q.disputes[t] = Disputed(r, t)
    BY <1>1, <1>2
  <1>4. PeersOK(q)
    BY <1>0, <1>1 DEF PeersOK, SamePeers
  <1>5. ASSUME NEW t \in DOMAIN q.disputes
        PROVE  /\ Counted(q.disputes[t])
               /\ \A p \in Peers : q.disputes[t].votes[p] # "none" =>
                    p \in DOMAIN r.peerPositions
               /\ Current(r) => \A p \in DOMAIN r.peerPositions :
                    r.peerPositions[p].pos \in r.acquired =>
                      q.disputes[t].votes[p] =
                     VoteOf(t, r.peerPositions[p].pos)
               /\ InConsensus(r) =>
                    (q.disputes[t].ourVote <=> t \in r.ourPosition.pos)
    <2>1. CASE t \in DOMAIN r.disputes /\ q.disputes[t] = r.disputes[t]
      BY <1>0, <2>1 DEF VotesOK, Current, CurrentOn, OurVotes
    <2>2. CASE q.disputes[t] = Disputed(r, t)
      <3>1. DOMAIN r.peerPositions \subseteq Peers
        BY <1>0 DEF PeersOK
      <3> QED BY <1>0, <2>2, <3>1, DisputedOK DEF InConsensus
    <2> QED BY <1>3, <2>1, <2>2
  <1>6. VotesOK(q)
    BY <1>1, <1>5 DEF VotesOK, SamePeers
  <1>7. Current(r) => Current(q)
    <2>1. q.peerPositions = r.peerPositions /\ q.acquired = r.acquired
      BY <1>1 DEF SamePeers
    <2>2. SUFFICES ASSUME Current(r), NEW t \in DOMAIN q.disputes,
                          NEW p \in DOMAIN r.peerPositions,
                          r.peerPositions[p].pos \in r.acquired
                   PROVE  q.disputes[t].votes[p] =
                            VoteOf(t, r.peerPositions[p].pos)
      BY <2>1 DEF Current, CurrentOn
    <2> QED BY <1>5, <2>2
  <1>8. OurVotes(q)
    <2>1. q.ourPosition = r.ourPosition /\ (InConsensus(q) => InConsensus(r))
      BY <1>1 DEF SameOurs, InConsensus
    <2> QED BY <1>5, <2>1 DEF OurVotes
  <1> QED BY <1>1, <1>2, <1>4, <1>6, <1>7, <1>8 DEF PeerVotes, q

(* Comparing our position with other sets. *)
LEMMA CompareOK ==
  ASSUME NEW r, PeerVotes(r), OurVotes(r), r.ourPosition # NoPosition, NEW sets
  PROVE  LET q == Compare(r, sets) IN
         /\ PeerVotes(q) /\ OurVotes(q) /\ SameOurs(q, r) /\ SamePeers(q, r)
         /\ q.acquired = r.acquired /\ (Current(r) => Current(q))
         /\ Covered(r) => Covered(q)
  <1> DEFINE D == UNION {SymDiff(r.ourPosition.pos, s) : s \in sets}
             c == CreateDisputes(r, D)
             q == Compare(r, sets)
  <1>1. q = [c EXCEPT !.compares = @ \cup sets]
    BY DEF Compare
  <1> HIDE DEF D, q
  <1>2. /\ PeerVotes(c) /\ OurVotes(c) /\ SameOurs(c, r) /\ SamePeers(c, r)
        /\ c.acquired = r.acquired /\ (Current(r) => Current(c))
        /\ c.compares = r.compares
        /\ DOMAIN c.disputes = DOMAIN r.disputes \cup D
    BY CreateDisputesOK
  <1> HIDE DEF c
  <1>3. /\ HasFields(q) /\ q.acquired = c.acquired /\ q.disputes = c.disputes
        /\ SameOurs(q, c) /\ SamePeers(q, c)
    BY <1>1, <1>2 DEF PeerVotes, PeersOK, HasFields, SameOurs, SamePeers
  <1>4. PeerVotes(q) /\ OurVotes(q) /\ (Current(c) => Current(q))
    BY <1>2, <1>3 DEF PeerVotes, PeersOK, VotesOK, Current, CurrentOn, OurVotes,
                      InConsensus, SameOurs, SamePeers
  <1>5. Covered(r) => Covered(q)
    <2>1. /\ q.compares = r.compares \cup sets
          /\ DOMAIN q.disputes = DOMAIN r.disputes \cup D
          /\ q.ourPosition = r.ourPosition /\ (InConsensus(q) => InConsensus(r))
      BY <1>1, <1>2, <1>3 DEF PeerVotes, PeersOK, HasFields, SameOurs, InConsensus
    <2>2. \A s \in sets : SymDiff(r.ourPosition.pos, s) \subseteq D
      BY DEF D
    <2>3. SUFFICES ASSUME Covered(r), InConsensus(r), NEW s \in r.compares \cup sets
                   PROVE  SymDiff(r.ourPosition.pos, s) \subseteq
                            DOMAIN r.disputes \cup D
      BY <2>1 DEF Covered
    <2>4. CASE s \in r.compares
      BY <2>3, <2>4 DEF Covered
    <2>5. CASE s \in sets
      BY <2>2, <2>5
    <2> QED BY <2>3, <2>4, <2>5
  <1> QED BY <1>2, <1>3, <1>4, <1>5 DEF SameOurs, SamePeers, q

(* mapCompleteInternal: the set is known and the peers that take it count. *)
LEMMA AcquireOK ==
  ASSUME NEW r, PeerVotes(r), OurVotes(r), NEW s
  PROVE  LET q == Acquire(r, s) IN
         /\ PeerVotes(q) /\ OurVotes(q) /\ SameOurs(q, r) /\ SamePeers(q, r)
         /\ q.acquired = r.acquired \cup {s} /\ (Current(r) => Current(q))
         /\ Covered(r) => Covered(q)
  <1> DEFINE a == [r EXCEPT !.acquired = @ \cup {s}]
             S == OnSet(r, s)
             q == Acquire(r, s)
  <1>0. PeersOK(r) /\ VotesOK(r)
    BY DEF PeerVotes
  <1>1. q = AdjustCount(a, s, S)
    BY DEF Acquire
  <1>2. /\ HasFields(a) /\ SameOurs(a, r) /\ SamePeers(a, r)
        /\ a.acquired = r.acquired \cup {s} /\ a.disputes = r.disputes
        /\ a.compares = r.compares
    BY <1>0 DEF PeersOK, HasFields, SameOurs, SamePeers
  <1>3. /\ S \subseteq DOMAIN r.peerPositions
        /\ \A p \in S : r.peerPositions[p].pos = s
        /\ \A p \in DOMAIN r.peerPositions \ S : r.peerPositions[p].pos # s
    BY DEF OnSet
  <1> HIDE DEF a, S, q
  <1>4. PeersOK(a) /\ VotesOK(a)
    BY <1>0, <1>2 DEF PeersOK, VotesOK, SamePeers
  <1>5. Current(r) => CurrentOn(a, DOMAIN a.peerPositions \ S)
    BY <1>2, <1>3 DEF Current, CurrentOn, SamePeers
  <1>6. a.peerPositions = r.peerPositions
    BY <1>2 DEF SamePeers
  <1>7. /\ PeerVotes(q) /\ SameOurs(q, a) /\ SamePeers(q, a)
        /\ q.acquired = a.acquired /\ q.compares = a.compares
        /\ DOMAIN q.disputes = DOMAIN a.disputes
        /\ \A t \in DOMAIN a.disputes :
             q.disputes[t].ourVote = a.disputes[t].ourVote
        /\ CurrentOn(a, DOMAIN a.peerPositions \ S) => Current(q)
    <2>1. /\ S \in SUBSET DOMAIN a.peerPositions
          /\ \A p \in S : a.peerPositions[p].pos = s
      BY <1>3, <1>6
    <2> QED BY <1>1, <1>4, <2>1, AdjustCountOK
  <1>8. OurVotes(q)
    <2>1. q.ourPosition = r.ourPosition /\ (InConsensus(q) => InConsensus(r))
      BY <1>2, <1>7 DEF SameOurs, InConsensus
    <2>2. \A t \in DOMAIN q.disputes : /\ t \in DOMAIN r.disputes
                                      /\ q.disputes[t].ourVote = r.disputes[t].ourVote
      BY <1>2, <1>7
    <2> QED BY <2>1, <2>2 DEF OurVotes
  <1>9. Covered(r) => Covered(q)
    BY <1>2, <1>7 DEF Covered, InConsensus, SameOurs
  <1> QED BY <1>2, <1>5, <1>7, <1>8, <1>9 DEF SameOurs, SamePeers, q

LEMMA MapCompleteOK ==
  ASSUME NEW r, PeerVotes(r), OurVotes(r), NEW s
  PROVE  LET q == MapComplete(r, s) IN
         /\ PeerVotes(q) /\ OurVotes(q) /\ SameOurs(q, r) /\ SamePeers(q, r)
         /\ q.acquired = r.acquired \cup {s} /\ (Current(r) => Current(q))
         /\ Covered(r) => Covered(q)
  <1> DEFINE q == MapComplete(r, s)
             c == IF InConsensus(r) /\ s # r.ourPosition.pos
                    THEN Compare(r, {s}) ELSE r
  <1>1. CASE s \in r.acquired
    <2>1. q = r
      BY <1>1 DEF MapComplete
    <2> QED BY <1>1, <2>1 DEF SameOurs, SamePeers
  <1>2. CASE s \notin r.acquired
    <2>1. q = Acquire(c, s)
      BY <1>2 DEF MapComplete
    <2>2. /\ PeerVotes(c) /\ OurVotes(c) /\ SameOurs(c, r) /\ SamePeers(c, r)
          /\ c.acquired = r.acquired /\ (Current(r) => Current(c))
          /\ Covered(r) => Covered(c)
      <3>1. CASE InConsensus(r) /\ s # r.ourPosition.pos
        BY <3>1, CompareOK DEF InConsensus
      <3>2. CASE ~ (InConsensus(r) /\ s # r.ourPosition.pos)
        BY <3>2 DEF SameOurs, SamePeers
      <3> QED BY <3>1, <3>2
    <2> HIDE DEF c, q
    <2>3. /\ PeerVotes(q) /\ OurVotes(q) /\ SameOurs(q, c) /\ SamePeers(q, c)
          /\ q.acquired = c.acquired \cup {s} /\ (Current(c) => Current(q))
          /\ Covered(c) => Covered(q)
      BY <2>1, <2>2, AcquireOK
    <2> QED BY <2>2, <2>3 DEF SameOurs, SamePeers, q
  <1> QED BY <1>1, <1>2

(* Forgetting peers withdraws their votes. *)
LEMMA UnVoteAllOK ==
  ASSUME NEW r, PeerVotes(r), OurVotes(r),
         NEW S \in SUBSET Peers, NEW D,
         NEW q, HasFields(q), SameOurs(q, r), q.acquired = r.acquired,
         q.disputes = UnVoteAll(r, S).disputes,
         q.peerPositions = Drop(r.peerPositions, S),
         q.deadNodes = r.deadNodes \cup D, D \subseteq S,
         q.compares = r.compares
  PROVE  /\ PeerVotes(q) /\ OurVotes(q)
         /\ Current(r) => Current(q)
         /\ Covered(r) => Covered(q)
  <1>0. PeersOK(r) /\ VotesOK(r)
    BY DEF PeerVotes
  <1>1. q.disputes = [t \in DOMAIN r.disputes |-> UnVote(r.disputes[t], S)]
    BY <1>0 DEF UnVoteAll, PeersOK, HasFields
  <1>2. DOMAIN q.disputes = DOMAIN r.disputes
    BY <1>1
  <1>3. /\ DOMAIN q.peerPositions = DOMAIN r.peerPositions \ S
        /\ \A p \in DOMAIN q.peerPositions :
             q.peerPositions[p] = r.peerPositions[p]
    BY DEF Drop, Restrict
  <1>4. PeersOK(q)
    BY <1>0, <1>3 DEF PeersOK
  <1>5. ASSUME NEW t \in DOMAIN r.disputes
        PROVE  /\ Counted(q.disputes[t])
               /\ q.disputes[t].ourVote = r.disputes[t].ourVote
               /\ \A p \in Peers : q.disputes[t].votes[p] =
                    IF p \in S THEN "none" ELSE r.disputes[t].votes[p]
    <2>1. q.disputes[t] = UnVote(r.disputes[t], S) /\ Counted(r.disputes[t])
      BY <1>0, <1>1 DEF VotesOK
    <2> QED BY <2>1, UnVoteCounted
  <1>6. VotesOK(q)
    BY <1>0, <1>2, <1>3, <1>5 DEF VotesOK
  <1>7. Current(r) => Current(q)
    <2> SUFFICES ASSUME Current(r), NEW t \in DOMAIN q.disputes,
                        NEW p \in DOMAIN q.peerPositions,
                        q.peerPositions[p].pos \in q.acquired
                 PROVE  q.disputes[t].votes[p] =
                          VoteOf(t, q.peerPositions[p].pos)
      BY DEF Current, CurrentOn
    <2>1. /\ p \in DOMAIN r.peerPositions /\ p \notin S /\ p \in Peers
          /\ q.peerPositions[p] = r.peerPositions[p]
      BY <1>3, <1>4 DEF PeersOK
    <2>2. q.disputes[t].votes[p] = r.disputes[t].votes[p]
      BY <1>2, <1>5, <2>1
    <2>3. r.disputes[t].votes[p] = VoteOf(t, r.peerPositions[p].pos)
      BY <1>2, <2>1 DEF Current, CurrentOn
    <2> QED BY <2>1, <2>2, <2>3
  <1>8. OurVotes(q)
    BY <1>2, <1>5 DEF OurVotes, InConsensus, SameOurs
  <1>9. Covered(r) => Covered(q)
    BY <1>2 DEF Covered, InConsensus, SameOurs
  <1> QED BY <1>4, <1>6, <1>7, <1>8, <1>9 DEF PeerVotes

(* peerPosition: a peer bows out, moves to a set we hold, or to one that   *)
(* has to be fetched and whose votes are still the old ones.               *)
LEMMA PeerPositionOK ==
  ASSUME NEW r, PeerVotes(r), OurVotes(r), NEW in, NEW prop, prop.peer \in Peers
  PROVE  LET q == PeerPosition(r, in, prop) IN
         /\ PeerVotes(q) /\ OurVotes(q) /\ SameOurs(q, r)
         /\ r.acquired \subseteq q.acquired
         /\ Current(r) /\ Known(r, in) => Current(q) /\ Known(q, in)
         /\ Covered(r) => Covered(q)
  <1> DEFINE q == PeerPosition(r, in, prop)
             p == prop.peer
             taken == [r EXCEPT !.peerPositions = Put(@, p, prop)]
  <1>0. PeersOK(r) /\ VotesOK(r) /\ HasFields(r)
    BY DEF PeerVotes, PeersOK
  <1>1. CASE ~Supersedes(r, prop)
    <2>1. q = r
      BY <1>1 DEF PeerPosition
    <2> QED BY <2>1 DEF SameOurs
  <1>2. CASE Supersedes(r, prop) /\ BowedOut(prop)
    <2> DEFINE u == UnVoteAll(r, {p})
    <2>1. q = [u EXCEPT !.peerPositions = Drop(@, {p}), !.deadNodes = @ \cup {p}]
      BY <1>2 DEF PeerPosition
    <2>2. /\ HasFields(u) /\ SameOurs(u, r) /\ SamePeers(u, r)
          /\ u.acquired = r.acquired /\ u.compares = r.compares
      BY <1>0 DEF UnVoteAll, HasFields, SameOurs, SamePeers
    <2> HIDE DEF q, u
    <2>3. /\ HasFields(q) /\ SameOurs(q, u) /\ q.acquired = u.acquired
          /\ q.disputes = u.disputes /\ q.compares = u.compares
          /\ q.peerPositions = Drop(u.peerPositions, {p})
          /\ q.deadNodes = u.deadNodes \cup {p}
      BY <2>1, <2>2 DEF HasFields, SameOurs
    <2>4. /\ SameOurs(q, r) /\ q.acquired = r.acquired
          /\ q.disputes = UnVoteAll(r, {p}).disputes
          /\ q.peerPositions = Drop(r.peerPositions, {p})
          /\ q.deadNodes = r.deadNodes \cup {p}
          /\ q.compares = r.compares
      BY <2>2, <2>3 DEF SameOurs, SamePeers, u
    <2>5. {p} \in SUBSET Peers /\ {p} \subseteq {p}
      OBVIOUS
    <2>6. /\ PeerVotes(q) /\ OurVotes(q)
          /\ (Current(r) => Current(q)) /\ (Covered(r) => Covered(q))
      BY <2>3, <2>4, <2>5, UnVoteAllOK
    <2>7. Known(r, in) => Known(q, in)
      BY <2>4 DEF Known, Drop, Restrict
    <2> QED BY <2>4, <2>6, <2>7 DEF q
  <1>3. CASE Supersedes(r, prop) /\ ~BowedOut(prop)
    <2>1. p \notin r.deadNodes
      BY <1>3 DEF Supersedes
    <2>2. q = IF prop.pos \in r.acquired \cup in
                THEN AdjustCount([taken EXCEPT !.acquired = @ \cup {prop.pos}],
                                 prop.pos, {p})
                ELSE [taken EXCEPT !.wanted = @ \cup {prop.pos}]
      BY <1>3 DEF PeerPosition
    <2>3. /\ HasFields(taken) /\ SameOurs(taken, r)
          /\ taken.acquired = r.acquired /\ taken.disputes = r.disputes
          /\ taken.deadNodes = r.deadNodes /\ taken.compares = r.compares
          /\ taken.peerPositions = Put(r.peerPositions, p, prop)
      BY <1>0 DEF HasFields, SameOurs
    <2> HIDE DEF taken, q
    <2>4. /\ DOMAIN taken.peerPositions = DOMAIN r.peerPositions \cup {p}
          /\ taken.peerPositions[p] = prop
          /\ \A x \in DOMAIN r.peerPositions \ {p} :
               taken.peerPositions[x] = r.peerPositions[x]
      BY <2>3 DEF Put
    <2>5. PeersOK(taken)
      BY <1>0, <2>1, <2>3, <2>4 DEF PeersOK
    <2>6. VotesOK(taken)
      BY <1>0, <2>3, <2>4 DEF VotesOK
    <2>8. OurVotes(taken)
      BY <2>3 DEF OurVotes, InConsensus, SameOurs
    <2>9. CASE prop.pos \in r.acquired \cup in
      <3> DEFINE a == [taken EXCEPT !.acquired = @ \cup {prop.pos}]
      <3>1. q = AdjustCount(a, prop.pos, {p})
        BY <2>2, <2>9
      <3>2. /\ HasFields(a) /\ SameOurs(a, taken) /\ SamePeers(a, taken)
            /\ a.acquired = r.acquired \cup {prop.pos}
            /\ a.disputes = taken.disputes /\ a.compares = taken.compares
        BY <2>3 DEF HasFields, SameOurs, SamePeers
      <3> HIDE DEF a
      <3>3. PeersOK(a) /\ VotesOK(a)
        BY <2>5, <2>6, <3>2 DEF PeersOK, VotesOK, SamePeers
      <3>4. Current(r) /\ Known(r, in) =>
              CurrentOn(a, DOMAIN a.peerPositions \ {p})
        <4> SUFFICES ASSUME Current(r), Known(r, in), NEW t \in DOMAIN a.disputes,
                            NEW x \in DOMAIN a.peerPositions \ {p},
                            a.peerPositions[x].pos \in a.acquired
                     PROVE  a.disputes[t].votes[x] =
                              VoteOf(t, a.peerPositions[x].pos)
          BY DEF CurrentOn
        <4>1. /\ x \in DOMAIN r.peerPositions
              /\ a.peerPositions[x] = r.peerPositions[x]
              /\ a.disputes[t] = r.disputes[t] /\ t \in DOMAIN r.disputes
          BY <2>3, <2>4, <3>2 DEF SamePeers
        <4>2. r.peerPositions[x].pos \in r.acquired
          BY <2>9, <3>2, <4>1 DEF Known
        <4> QED BY <4>1, <4>2 DEF Current, CurrentOn
      <3>5. /\ {p} \in SUBSET DOMAIN a.peerPositions
            /\ \A x \in {p} : a.peerPositions[x].pos = prop.pos
        BY <2>4, <3>2 DEF SamePeers
      <3>6. /\ PeerVotes(q) /\ SameOurs(q, a) /\ SamePeers(q, a)
            /\ q.acquired = a.acquired /\ q.compares = a.compares
            /\ DOMAIN q.disputes = DOMAIN a.disputes
            /\ \A t \in DOMAIN a.disputes :
                 q.disputes[t].ourVote = a.disputes[t].ourVote
            /\ CurrentOn(a, DOMAIN a.peerPositions \ {p}) => Current(q)
        BY <3>1, <3>3, <3>5, AdjustCountOK
      <3>7. SameOurs(q, r)
        BY <2>3, <3>2, <3>6 DEF SameOurs
      <3>8. OurVotes(q)
        BY <2>3, <3>2, <3>6, <3>7 DEF OurVotes, InConsensus, SameOurs
      <3>9. Known(r, in) => Known(q, in)
        BY <2>4, <3>2, <3>6 DEF Known, SamePeers
      <3>10. Covered(r) => Covered(q)
        BY <2>3, <3>2, <3>6, <3>7 DEF Covered, InConsensus, SameOurs
      <3> QED BY <3>2, <3>4, <3>6, <3>7, <3>8, <3>9, <3>10 DEF q
    <2>10. CASE prop.pos \notin r.acquired \cup in
      <3>1. q = [taken EXCEPT !.wanted = @ \cup {prop.pos}]
        BY <2>2, <2>10
      <3>2. /\ HasFields(q) /\ SameOurs(q, taken) /\ SamePeers(q, taken)
            /\ q.acquired = r.acquired /\ q.disputes = taken.disputes
            /\ q.compares = taken.compares
        BY <2>3, <3>1 DEF HasFields, SameOurs, SamePeers
      <3>3. PeerVotes(q)
        BY <2>5, <2>6, <3>2 DEF PeerVotes, PeersOK, VotesOK, SamePeers
      <3>4. OurVotes(q) /\ SameOurs(q, r)
        BY <2>3, <2>8, <3>2 DEF OurVotes, InConsensus, SameOurs
      <3>5. Current(r) => Current(q)
        BY <2>3, <2>4, <2>10, <3>2 DEF Current, CurrentOn, SamePeers
      <3>6. Known(r, in) => Known(q, in)
        BY <2>4, <2>10, <3>2 DEF Known, SamePeers
      <3>7. Covered(r) => Covered(q)
        BY <2>3, <3>2, <3>4 DEF Covered, InConsensus, SameOurs
      <3> QED BY <3>2, <3>3, <3>4, <3>5, <3>6, <3>7 DEF q
    <2> QED BY <2>9, <2>10
  <1> QED BY <1>1, <1>2, <1>3 DEF Supersedes

-----------------------------------------------------------------------------
(* A change of the last closed ledger.  Two facts about finite sets first: *)
(* playback leaves a peer at the last proposal that was taken, and the     *)
(* close time vote, further down, uses both.                               *)

(* A collection of subsets of a finite set has a smallest member.          *)
LEMMA SmallestSet ==
  ASSUME NEW S, IsFiniteSet(S), NEW X, X \subseteq SUBSET S, X # {}
  PROVE  \E T \in X : \A x \in T : T \ {x} \notin X
  <1>1. FiniteSubsetsOf(S) = SUBSET S
    BY FS_FiniteSubsetsOfFinite
  <1>2. IsWellFoundedOn(StrictSubsetOrdering(S), SUBSET S)
    BY <1>1, FS_StrictSubsetOrderingWellFounded
  <1>3. PICK T \in X : \A U \in X : ~ (<<U, T>> \in StrictSubsetOrdering(S))
    BY <1>2, WFMin
  <1>4. \A x \in T : <<T \ {x}, T>> \in StrictSubsetOrdering(S)
    BY DEF StrictSubsetOrdering
  <1>5. QED
    BY <1>3, <1>4

(* A finite set of numbers has a greatest one, and that is Max. *)
LEMMA GreatestIsMax ==
  ASSUME NEW S \in SUBSET Int, IsFiniteSet(S), S # {}
  PROVE  Max(S) \in S /\ \A y \in S : Max(S) >= y
  <1> DEFINE X == {T \in SUBSET S : T # {} /\ ~ \E x \in T : \A y \in T : x >= y}
  <1>0. X \subseteq SUBSET S
    OBVIOUS
  <1>1. ASSUME X # {} PROVE FALSE
    <2> HIDE DEF X
    <2>1. PICK T \in X : \A x \in T : T \ {x} \notin X
      BY <1>0, <1>1, SmallestSet
    <2> USE DEF X
    <2>2. PICK t \in T : TRUE
      OBVIOUS
    <2>3. T \ {t} \notin X
      BY <2>1, <2>2
    <2>4. CASE T \ {t} = {}
      BY <2>2, <2>4
    <2>5. CASE T \ {t} # {}
      <3>1. PICK x \in T \ {t} : \A y \in T \ {t} : x >= y
        BY <2>3, <2>5
      <3>2. x \in Int /\ t \in Int /\ \A y \in T : y \in Int
        OBVIOUS
      <3>3. \E z \in T : \A y \in T : z >= y
        <4>1. CASE t >= x
          BY <3>1, <3>2, <4>1
        <4>2. CASE x >= t
          BY <3>1, <3>2, <4>2
        <4>3. QED
          BY <3>2, <4>1, <4>2
      <3>4. QED
        BY <3>3
    <2>6. QED
      BY <2>4, <2>5
  <1>2. \E x \in S : \A y \in S : x >= y
    BY <1>1
  <1>3. QED
    BY <1>2 DEF Max

(* After playback no dispute has a vote, and every set that a peer takes   *)
(* and InboundTransactions holds is acquired.                              *)
LEMMA PlaybackOK ==
  ASSUME NEW r, HasFields(r), DOMAIN r.disputes = {}, NEW in,
         NEW props \in [Peers -> Seq(Proposal)]
  PROVE  LET q == PlaybackProposals(r, in, props) IN
         /\ PeerVotes(q) /\ SameOurs(q, r) /\ DOMAIN q.disputes = {}
         /\ r.acquired \subseteq q.acquired /\ q.compares = r.compares
         /\ Current(q) /\ Known(q, in)
  <1> DEFINE played(p) == {i \in DOMAIN props[p] :
                             props[p][i].prevLedger = r.prevLedgerHash}
             taken(p) == {i \in played(p) :
                            /\ ~BowedOut(props[p][i])
                            /\ \A j \in played(p) : j < i =>
                                 /\ ~BowedOut(props[p][j])
                                 /\ props[p][j].seq < props[p][i].seq}
             dead == {p \in Peers : \E i \in played(p) : BowedOut(props[p][i])}
             sets == UNION {{props[p][i].pos : i \in taken(p)} : p \in Peers}
             kept == {x \in Peers \ dead : taken(x) # {}}
             last(p) == props[p][Max(taken(p))]
             q == PlaybackProposals(r, in, props)
  <1>1. q = [r EXCEPT !.peerPositions = [p \in kept |-> last(p)],
                      !.deadNodes = dead,
                      !.acquired = @ \cup (sets \cap in),
                      !.wanted = @ \cup (sets \ (r.acquired \cup in))]
    BY DEF PlaybackProposals
  <1>2. kept \subseteq Peers /\ dead \cap kept = {}
    OBVIOUS
  <1>3. ASSUME NEW p \in kept PROVE last(p).pos \in sets
    <2>1. p \in Peers /\ taken(p) # {}
      OBVIOUS
    <2>2. Len(props[p]) \in Nat /\ DOMAIN props[p] = 1 .. Len(props[p])
      BY <2>1
    <2>3. taken(p) \in SUBSET (1 .. Len(props[p]))
      BY <2>2
    <2> HIDE DEF taken
    <2>4. Max(taken(p)) \in taken(p)
      <3>1. taken(p) \in SUBSET Int
        BY <2>2, <2>3
      <3>2. IsFiniteSet(1 .. Len(props[p]))
        BY <2>2, FS_Interval
      <3>3. IsFiniteSet(taken(p))
        BY <2>3, <3>2, FS_Subset
      <3> QED BY <2>1, <3>1, <3>3, GreatestIsMax
    <2> QED BY <2>1, <2>4
  <1> HIDE DEF q, kept, dead, sets, last
  <1>4. /\ HasFields(q) /\ SameOurs(q, r) /\ q.disputes = r.disputes
        /\ q.deadNodes = dead /\ q.acquired = r.acquired \cup (sets \cap in)
        /\ q.compares = r.compares
        /\ q.peerPositions = [p \in kept |-> last(p)]
    BY <1>1 DEF HasFields, SameOurs
  <1>5. PeerVotes(q)
    BY <1>2, <1>4 DEF PeerVotes, PeersOK, VotesOK
  <1>6. Current(q)
    BY <1>4 DEF Current, CurrentOn
  <1>7. Known(q, in)
    BY <1>3, <1>4 DEF Known
  <1> QED BY <1>4, <1>5, <1>6, <1>7 DEF q

LEMMA PositionIsSome ==
  ASSUME NEW o, IsPosition(o) PROVE o # NoPosition
  BY DEF IsPosition, NoPosition

(* A broadcast gets the next place in the log. *)
LEMMA AppendSent ==
  ASSUME NEW log, IsLog(log), NEW e
  PROVE  /\ IsLog(Append(log, e))
         /\ Len(log) \in Nat /\ Len(Append(log, e)) = Len(log) + 1
         /\ Append(log, e)[Len(log) + 1] = e
         /\ \A i \in 1 .. Len(log) : Append(log, e)[i] = log[i]
  <1>1. PICK S : log \in Seq(S)
    BY DEF IsLog
  <1> DEFINE X == S \cup {e}
  <1>2. log \in Seq(X) /\ e \in X
    BY <1>1
  <1> HIDE DEF X
  <1>3. Append(log, e) \in Seq(X)
    BY <1>2
  <1>4. /\ Len(log) \in Nat /\ Len(Append(log, e)) = Len(log) + 1
        /\ Append(log, e)[Len(log) + 1] = e
        /\ \A i \in 1 .. Len(log) : Append(log, e)[i] = log[i]
    BY <1>2
  <1> QED BY <1>3, <1>4 DEF IsLog

(* handleLCL: we bow out if we proposed, and start over with no votes. *)
LEMMA SwitchOK ==
  ASSUME NEW m, MoveOK(m), NEW in, NEW lcl \in Ledgers,
         lcl # m.r.prevLedgerHash, NEW props \in [Peers -> Seq(Proposal)]
  PROVE  LET q == SwitchLCL(m, in, props, lcl) IN
         /\ MoveOK(q) /\ q.r.state = m.r.state /\ q.r.prevLedgerHash = lcl
         /\ ~q.r.proposing /\ Tracked(q.r, in)
  <1> DEFINE r == m.r
             bow == r.haveCorrectLCL /\ r.proposing /\ r.ourPosition # NoPosition
             b == IF bow THEN [r EXCEPT !.ourPosition = BowOut(@)] ELSE r
             f == ForgetRound(b, lcl)
             x == PlaybackProposals(f, in, props)
             log == IF bow THEN Propose(m.sent, b) ELSE m.sent
             q == SwitchLCL(m, in, props, lcl)
  <1>1. q = [r |-> x, sent |-> log]
    BY DEF SwitchLCL
  <1>2. /\ RoundOK(r) /\ SentOK(r, m.sent) /\ HasFields(r)
        /\ OursHeld(r)
    BY DEF MoveOK, RoundOK, PeerVotes, PeersOK
  <1>3. /\ HasFields(b) /\ b.state = r.state /\ b.acquired = r.acquired
        /\ b.ourPosition = NoPosition <=> r.ourPosition = NoPosition
        /\ b.ourPosition # NoPosition => IsPosition(b.ourPosition)
        /\ b.ourPosition # NoPosition => b.ourPosition.pos = r.ourPosition.pos
        /\ bow => b.ourPosition.seq = SeqLeave
    <2>1. CASE bow
      <3> DEFINE o == BowOut(r.ourPosition)
      <3>1. b = [r EXCEPT !.ourPosition = o]
        BY <2>1
      <3>2. IsPosition(r.ourPosition)
        BY <1>2, <2>1 DEF OursHeld
      <3>3. IsPosition(o) /\ o.seq = SeqLeave /\ o.pos = r.ourPosition.pos
        BY <3>2, RoundAssumption DEF BowOut, IsPosition
      <3>4. o # NoPosition
        BY <3>3, PositionIsSome
      <3> HIDE DEF o, b
      <3>5. /\ HasFields(b) /\ b.state = r.state /\ b.acquired = r.acquired
            /\ b.ourPosition = o
        BY <1>2, <3>1 DEF HasFields
      <3> QED BY <2>1, <3>3, <3>4, <3>5
    <2>2. CASE ~bow
      BY <1>2, <2>2 DEF OursHeld
    <2> QED BY <2>1, <2>2
  <1>4. ASSUME bow PROVE log = Append(m.sent, b.ourPosition)
    BY <1>4 DEF Propose
  <1>5. ~bow => log = m.sent
    OBVIOUS
  <1> HIDE DEF b, log, q
  <1>6. /\ HasFields(f) /\ f.state = b.state /\ f.acquired = b.acquired
        /\ f.ourPosition = b.ourPosition /\ f.prevLedgerHash = lcl
        /\ f.proposing = FALSE /\ f.disputes = NoFun
    BY <1>3 DEF ForgetRound, HasFields
  <1>7. DOMAIN f.disputes = {}
    BY <1>6 DEF NoFun
  <1> HIDE DEF f
  <1>8. /\ PeerVotes(x) /\ SameOurs(x, f) /\ DOMAIN x.disputes = {}
        /\ f.acquired \subseteq x.acquired /\ Tracked(x, in)
    BY <1>6, <1>7, PlaybackOK DEF Tracked
  <1> HIDE DEF x
  <1>9. /\ x.state = r.state /\ x.ourPosition = b.ourPosition
        /\ x.prevLedgerHash = lcl /\ x.proposing = FALSE
        /\ r.acquired \subseteq x.acquired
    BY <1>3, <1>6, <1>8 DEF SameOurs
  <1>10. RoundOK(x)
    <2>1. OurVotes(x)
      BY <1>8 DEF OurVotes
    <2>2. OursHeld(x)
      BY <1>2, <1>3, <1>9 DEF OursHeld
    <2>3. InSync(x)
      BY <1>9 DEF InSync
    <2>4. StillCovered(x)
      <3>1. Ledgers # {OurLCL}
        BY <1>2 DEF RoundOK
      <3> QED BY <1>9, <3>1 DEF StillCovered
    <2> QED BY <1>8, <1>9, <2>1, <2>2, <2>3, <2>4 DEF RoundOK
  <1>11. SentOK(x, log)
    <2>1. CASE bow
      <3>1. IsLog(m.sent) /\ log = Append(m.sent, b.ourPosition)
        BY <1>2, <1>4, <2>1 DEF SentOK
      <3>2. /\ IsLog(log)
            /\ Len(m.sent) \in Nat /\ Len(log) = Len(m.sent) + 1
            /\ log[Len(m.sent) + 1] = b.ourPosition
            /\ \A i \in 1 .. Len(m.sent) : log[i] = m.sent[i]
        BY <3>1, AppendSent
      <3>3. \A i \in 1 .. Len(m.sent) : m.sent[i].seq = i - 1
        BY <1>2, <2>1 DEF SentOK
      <3>4. ASSUME NEW i \in 1 .. Len(log)
            PROVE  log[i].seq = i - 1 \/ (i = Len(log) /\ log[i].seq = SeqLeave)
        <4>1. CASE i \in 1 .. Len(m.sent)
          BY <3>2, <3>3, <4>1
        <4>2. CASE i = Len(m.sent) + 1
          BY <1>3, <2>1, <3>2, <4>2
        <4> QED BY <3>2, <4>1, <4>2
      <3> QED BY <1>9, <3>2, <3>4 DEF SentOK
    <2>2. CASE ~bow
      <3>1. log = m.sent
        BY <1>5, <2>2
      <3>2. ASSUME r.proposing PROVE Len(m.sent) = 0
        <4>1. r.ourPosition = NoPosition
          BY <1>2, <2>2, <3>2 DEF RoundOK, InSync
        <4> QED BY <1>2, <3>2, <4>1 DEF SentOK
      <3> QED BY <1>2, <1>9, <3>1, <3>2 DEF SentOK
    <2> QED BY <2>1, <2>2
  <1>12. DOMAIN q = {"r", "sent"} /\ q.r = x /\ q.sent = log
    BY <1>1
  <1> QED BY <1>8, <1>9, <1>10, <1>11, <1>12 DEF MoveOK, q

LEMMA WorkFromLCLOK ==
  ASSUME NEW r, RoundOK(r), NEW lcl, ~r.proposing \/ r.previousLedger = lcl
  PROVE  LET q == WorkFromLCL(r, lcl) IN
         /\ RoundOK(q) /\ q.state = r.state /\ q.proposing = r.proposing
         /\ q.ourPosition = r.ourPosition
         /\ \A in : Tracked(r, in) => Tracked(q, in)
  <1> DEFINE q == WorkFromLCL(r, lcl)
  <1>1. CASE q = r
    BY <1>1
  <1>2. CASE q # r
    <2>1. ~r.proposing
      BY <1>2 DEF WorkFromLCL
    <2>2. /\ HasFields(r) /\ PeersOK(r) /\ VotesOK(r) /\ OurVotes(r)
          /\ OursHeld(r) /\ StillCovered(r) /\ r.prevLedgerHash \in Ledgers
      BY DEF RoundOK, PeerVotes, PeersOK
    <2>3. /\ HasFields(q) /\ SamePeers(q, r) /\ q.disputes = r.disputes
          /\ q.state = r.state /\ q.proposing = r.proposing
          /\ q.acquired = r.acquired /\ q.compares = r.compares
          /\ q.ourPosition = r.ourPosition /\ q.prevLedgerHash = r.prevLedgerHash
      <3>1. \/ q = [r EXCEPT !.previousLedger = lcl, !.haveCorrectLCL = TRUE,
                              !.closeResolution = CloseResolutionOn(lcl)]
            \/ q = [r EXCEPT !.acquiringLedger = lcl, !.haveCorrectLCL = FALSE]
        BY <1>2 DEF WorkFromLCL
      <3> QED BY <2>2, <3>1 DEF HasFields, SamePeers
    <2> HIDE DEF q
    <2>4. PeerVotes(q)
      BY <2>2, <2>3 DEF PeerVotes, PeersOK, VotesOK, SamePeers
    <2>5. OurVotes(q) /\ OursHeld(q)
      BY <2>2, <2>3 DEF OurVotes, OursHeld, InConsensus
    <2>6. InSync(q)
      BY <2>1, <2>3 DEF InSync
    <2>7. StillCovered(q)
      BY <2>2, <2>3 DEF StillCovered, Covered, InConsensus
    <2>8. ASSUME NEW in, Tracked(r, in) PROVE Tracked(q, in)
      BY <2>3, <2>8 DEF Tracked, Current, CurrentOn, Known, SamePeers
    <2> QED BY <2>2, <2>3, <2>4, <2>5, <2>6, <2>7, <2>8 DEF RoundOK, q
  <1> QED BY <1>1, <1>2

LEMMA SentSame ==
  ASSUME NEW r, NEW q, NEW log, SentOK(r, log),
         q.proposing = r.proposing, q.ourPosition = r.ourPosition
  PROVE  SentOK(q, log)
  BY DEF SentOK

(* checkLCL: while we propose, the network's ledger is the one we started  *)
(* from or we stop proposing.                                              *)
LEMMA CheckLCLOK ==
  ASSUME NEW m, MoveOK(m), NEW lcl \in Ledgers,
         stored \in [Peers -> Seq(Proposal)]
  PROVE  LET q == CheckLCL(m, lcl) IN
         /\ MoveOK(q) /\ q.r.state = m.r.state
         /\ \A in \in SUBSET inbound : Tracked(m.r, in) => Tracked(q.r, in)
  <1> DEFINE q == CheckLCL(m, lcl)
             n == IF m.r.prevLedgerHash = lcl THEN m
                  ELSE SwitchLCL(m, inbound, stored, lcl)
             w == WorkFromLCL(n.r, lcl)
  <1>1. CASE q = m
    BY <1>1
  <1>2. CASE q = HandleLCL(m, lcl)
    <2>1. q = [n EXCEPT !.r = w]
      BY <1>2 DEF HandleLCL
    <2>2. /\ MoveOK(n) /\ n.r.state = m.r.state
          /\ ~n.r.proposing \/ n.r.previousLedger = lcl
          /\ \A in \in SUBSET inbound : Tracked(m.r, in) => Tracked(n.r, in)
      <3>1. CASE m.r.prevLedgerHash = lcl
        <4>1. n = m
          BY <3>1
        <4>2. m.r.proposing => m.r.previousLedger = lcl
          BY <3>1 DEF MoveOK, RoundOK, InSync
        <4> QED BY <4>1, <4>2
      <3>2. CASE m.r.prevLedgerHash # lcl
        <4>1. n = SwitchLCL(m, inbound, stored, lcl)
          BY <3>2
        <4>2. /\ MoveOK(n) /\ n.r.state = m.r.state /\ ~n.r.proposing
              /\ Tracked(n.r, inbound)
          BY <3>2, <4>1, SwitchOK
        <4>3. \A in \in SUBSET inbound : Tracked(n.r, in)
          BY <4>2 DEF Tracked, Known
        <4> QED BY <4>2, <4>3
      <3> QED BY <3>1, <3>2
    <2> HIDE DEF n, q
    <2>3. /\ RoundOK(n.r) /\ SentOK(n.r, n.sent) /\ DOMAIN n = {"r", "sent"}
      BY <2>2 DEF MoveOK
    <2>4. /\ RoundOK(w) /\ w.state = n.r.state /\ w.proposing = n.r.proposing
          /\ w.ourPosition = n.r.ourPosition
          /\ \A in : Tracked(n.r, in) => Tracked(w, in)
      BY <2>2, <2>3, WorkFromLCLOK
    <2> HIDE DEF w
    <2>5. SentOK(w, n.sent)
      BY <2>3, <2>4, SentSame
    <2>6. DOMAIN q = {"r", "sent"} /\ q.r = w /\ q.sent = n.sent
      BY <2>1, <2>3
    <2> QED BY <2>2, <2>4, <2>5, <2>6 DEF MoveOK, q
  <1> QED BY <1>1, <1>2 DEF CheckLCL

-----------------------------------------------------------------------------
(* The timer. *)

(* Known survives as long as the peers keep their positions and no set is  *)
(* forgotten.                                                              *)
LEMMA KnownSame ==
  ASSUME NEW r, NEW q, NEW in, q.peerPositions = r.peerPositions,
         r.acquired \subseteq q.acquired, Known(r, in)
  PROVE  Known(q, in)
  BY DEF Known

(* A round with new votes of our own. *)
LEMMA OurVoteChanged ==
  ASSUME NEW r, PeerVotes(r), NEW q, HasFields(q), SamePeers(q, r),
         q.acquired = r.acquired, DOMAIN q.disputes = DOMAIN r.disputes,
         \A t \in DOMAIN r.disputes : \E b \in BOOLEAN :
           q.disputes[t] = [r.disputes[t] EXCEPT !.ourVote = b]
  PROVE  PeerVotes(q) /\ (Current(r) => Current(q))
  <1>1. ASSUME NEW t \in DOMAIN r.disputes
        PROVE  Counted(q.disputes[t]) /\ q.disputes[t].votes = r.disputes[t].votes
    <2> DEFINE d == r.disputes[t]
    <2>1. PICK b \in BOOLEAN : q.disputes[t] = [d EXCEPT !.ourVote = b]
      OBVIOUS
    <2>2. Counted(d)
      BY DEF PeerVotes, VotesOK
    <2> DEFINE e == q.disputes[t]
    <2> HIDE DEF d, e
    <2>3. e \in Dispute /\ e.votes = d.votes /\ e.yays = d.yays /\ e.nays = d.nays
      BY <2>1, <2>2 DEF Counted, Dispute, e
    <2>4. Holding(e, Peers, "yes") = Holding(d, Peers, "yes")
            /\ Holding(e, Peers, "no") = Holding(d, Peers, "no")
      BY <2>3 DEF Holding
    <2>5. Counted(e) /\ e.votes = d.votes
      BY <2>2, <2>3, <2>4 DEF Counted
    <2> QED BY <2>5 DEF e, d
  <1>2. PeersOK(q)
    BY DEF PeerVotes, PeersOK, SamePeers
  <1>3. VotesOK(q)
    BY <1>1 DEF PeerVotes, VotesOK, SamePeers
  <1>4. Current(r) => Current(q)
    BY <1>1 DEF Current, CurrentOn, SamePeers
  <1> QED BY <1>2, <1>3, <1>4 DEF PeerVotes

(* closeLedger: our first position, its set and our votes agree. *)
LEMMA CloseLedgerOK ==
  ASSUME NEW m, MoveOK(m), m.r.state = "open", NEW ct
  PROVE  LET q == CloseLedger(m, ct) IN
         /\ MoveOK(q) /\ q.r.state = "establish"
         /\ \A in : Tracked(m.r, in) => Tracked(q.r, in)
  <1> DEFINE r == m.r
             c == MapComplete(r, openTxs)
             i == InitialPosition(c, ct)
             x == TakePosition(i)
             log == IF r.proposing THEN Propose(m.sent, x) ELSE m.sent
             q == CloseLedger(m, ct)
  <1>1. q = [r |-> x, sent |-> log]
    BY DEF CloseLedger
  <1>2. /\ RoundOK(r) /\ SentOK(r, m.sent) /\ PeerVotes(r) /\ OurVotes(r)
        /\ OursHeld(r) /\ InSync(r) /\ StillCovered(r) /\ r.ourPosition = NoPosition
        /\ r.prevLedgerHash \in Ledgers
    BY DEF MoveOK, RoundOK, OursHeld
  <1>3. /\ PeerVotes(c) /\ SameOurs(c, r) /\ SamePeers(c, r)
        /\ c.acquired = r.acquired \cup {openTxs} /\ (Current(r) => Current(c))
        /\ Covered(r) => Covered(c)
    BY <1>2, MapCompleteOK
  <1> HIDE DEF c
  <1> DEFINE o == [prevLedger |-> OurLCL, seq |-> 0, pos |-> openTxs,
                   closeTime |-> ct, time |-> clock]
  <1>4. /\ HasFields(i) /\ SamePeers(i, c) /\ i.acquired = c.acquired
        /\ i.state = "establish" /\ i.ourPosition = o
        /\ i.compares = c.compares /\ i.proposing = c.proposing
        /\ i.haveCorrectLCL = c.haveCorrectLCL
        /\ i.prevLedgerHash = c.prevLedgerHash
        /\ i.previousLedger = c.previousLedger
        /\ i.disputes = [t \in DOMAIN c.disputes |->
                           [c.disputes[t] EXCEPT !.ourVote = t \in openTxs]]
    BY <1>3 DEF InitialPosition, PeerVotes, PeersOK, HasFields, SamePeers
  <1>5. IsPosition(o) /\ o.pos = openTxs /\ o.seq = 0 /\ o.prevLedger = OurLCL
    BY DEF IsPosition
  <1>6. o # NoPosition
    BY <1>5, PositionIsSome
  <1> HIDE DEF i, o
  <1>7. /\ DOMAIN i.disputes = DOMAIN c.disputes
        /\ \A t \in DOMAIN c.disputes :
             i.disputes[t] = [c.disputes[t] EXCEPT !.ourVote = t \in openTxs]
    BY <1>4
  <1>8. PeerVotes(i) /\ (Current(c) => Current(i))
    <2>1. \A t \in DOMAIN c.disputes : \E b \in BOOLEAN :
            i.disputes[t] = [c.disputes[t] EXCEPT !.ourVote = b]
      <3> TAKE t \in DOMAIN c.disputes
      <3> DEFINE b == t \in openTxs
      <3>1. i.disputes[t] = [c.disputes[t] EXCEPT !.ourVote = b] /\ b \in BOOLEAN
        BY <1>7
      <3> HIDE DEF b
      <3> QED BY <3>1
    <2> QED BY <1>3, <1>4, <1>7, <2>1, OurVoteChanged
  <1>9. OurVotes(i)
    <2>1. ASSUME NEW t \in DOMAIN i.disputes
          PROVE  i.disputes[t].ourVote = (t \in openTxs)
      <3>1. c.disputes[t] \in Dispute
        BY <1>3, <1>7 DEF PeerVotes, VotesOK, Counted
      <3> QED BY <1>7, <3>1 DEF Dispute
    <2> QED BY <1>4, <1>5, <2>1 DEF OurVotes
  <1>10. /\ PeerVotes(x) /\ OurVotes(x) /\ SameOurs(x, i) /\ SamePeers(x, i)
         /\ x.acquired = i.acquired /\ (Current(i) => Current(x))
         /\ Covered(i) => Covered(x)
    <2>1. i.ourPosition # NoPosition
      BY <1>4, <1>6
    <2>2. x = Compare(i, PeerSets(i) \cap i.acquired)
      BY DEF TakePosition
    <2> QED BY <1>8, <1>9, <2>1, <2>2, CompareOK
  <1>11. log = IF r.proposing THEN Append(m.sent, x.ourPosition) ELSE m.sent
    BY DEF Propose
  <1> HIDE DEF x, log, q
  <1>12. /\ x.state = "establish" /\ x.ourPosition = o
         /\ x.proposing = r.proposing /\ x.haveCorrectLCL = r.haveCorrectLCL
         /\ x.prevLedgerHash = r.prevLedgerHash
         /\ x.previousLedger = r.previousLedger
         /\ x.peerPositions = r.peerPositions
         /\ x.acquired = r.acquired \cup {openTxs}
    BY <1>3, <1>4, <1>10 DEF SameOurs, SamePeers
  <1>13. OursHeld(x) /\ InSync(x)
    BY <1>2, <1>5, <1>6, <1>12 DEF OursHeld, InSync
  <1>14. StillCovered(x)
    <2>1. SUFFICES ASSUME Covered(r) PROVE Covered(i)
      BY <1>2, <1>10, <1>12 DEF StillCovered
    <2>2. c.compares = {}
      BY <1>2, <1>3, <2>1 DEF Covered, SameOurs
    <2> QED BY <1>4, <1>6, <2>2 DEF Covered
  <1>15. RoundOK(x)
    BY <1>2, <1>10, <1>12, <1>13, <1>14 DEF RoundOK
  <1>16. SentOK(x, log)
    <2>1. CASE r.proposing
      <3>1. IsLog(m.sent) /\ Len(m.sent) = 0 /\ log = Append(m.sent, o)
        BY <1>2, <1>11, <1>12, <2>1 DEF SentOK
      <3>2. IsLog(log) /\ Len(log) = 1 /\ log[1] = o
        BY <3>1, AppendSent
      <3> QED BY <1>5, <1>6, <1>12, <3>2 DEF SentOK
    <2>2. CASE ~r.proposing
      <3>1. log = m.sent
        BY <1>11, <2>2
      <3> QED BY <1>2, <1>12, <2>2, <3>1 DEF SentOK
    <2> QED BY <2>1, <2>2
  <1>17. DOMAIN q = {"r", "sent"} /\ q.r = x /\ q.sent = log
    BY <1>1
  <1>18. ASSUME NEW in, Tracked(r, in) PROVE Tracked(x, in)
    <2>1. Current(x)
      BY <1>3, <1>8, <1>10, <1>18 DEF Tracked
    <2>2. Known(x, in)
      BY <1>12, <1>18, KnownSame DEF Tracked
    <2> QED BY <2>1, <2>2 DEF Tracked
  <1> QED BY <1>12, <1>15, <1>16, <1>17, <1>18 DEF MoveOK, q

LEMMA DropStaleOK ==
  ASSUME NEW r, RoundOK(r)
  PROVE  LET q == DropStale(r) IN
         /\ RoundOK(q) /\ SameOurs(q, r)
         /\ \A in : Tracked(r, in) => Tracked(q, in)
  <1> DEFINE stale == {p \in DOMAIN r.peerPositions :
                         clock - r.peerPositions[p].time >= ProposeFreshness}
             u == UnVoteAll(r, stale)
             q == DropStale(r)
  <1>1. q = [u EXCEPT !.peerPositions = Drop(@, stale)]
    BY DEF DropStale
  <1>2. /\ HasFields(r) /\ PeerVotes(r) /\ OurVotes(r) /\ OursHeld(r) /\ InSync(r)
        /\ StillCovered(r) /\ r.prevLedgerHash \in Ledgers
    BY DEF RoundOK, PeerVotes, PeersOK
  <1>3. stale \in SUBSET Peers
    BY <1>2 DEF PeerVotes, PeersOK
  <1> DEFINE none == {}
  <1> HIDE DEF stale, none
  <1>4. /\ HasFields(u) /\ SameOurs(u, r) /\ SamePeers(u, r)
        /\ u.acquired = r.acquired /\ u.compares = r.compares
    BY <1>2 DEF UnVoteAll, HasFields, SameOurs, SamePeers
  <1> HIDE DEF u, q
  <1>5. /\ HasFields(q) /\ SameOurs(q, u) /\ q.acquired = u.acquired
        /\ q.compares = u.compares /\ q.disputes = u.disputes
        /\ q.peerPositions = Drop(u.peerPositions, stale)
        /\ q.deadNodes = u.deadNodes
    BY <1>1, <1>4 DEF HasFields, SameOurs
  <1>6. /\ SameOurs(q, r) /\ q.acquired = r.acquired /\ q.compares = r.compares
        /\ q.peerPositions = Drop(r.peerPositions, stale)
        /\ q.deadNodes = r.deadNodes \cup none /\ none \subseteq stale
        /\ q.disputes = UnVoteAll(r, stale).disputes
    BY <1>4, <1>5 DEF SameOurs, SamePeers, u, none
  <1>7. /\ PeerVotes(q) /\ OurVotes(q)
        /\ Current(r) => Current(q)
        /\ Covered(r) => Covered(q)
    BY <1>2, <1>3, <1>5, <1>6, UnVoteAllOK
  <1>8. OursHeld(q) /\ InSync(q) /\ StillCovered(q) /\ q.prevLedgerHash \in Ledgers
    BY <1>2, <1>6, <1>7 DEF OursHeld, InSync, StillCovered, SameOurs
  <1>9. \A in : Known(r, in) => Known(q, in)
    BY <1>6 DEF Known, Drop, Restrict
  <1> QED BY <1>6, <1>7, <1>8, <1>9 DEF RoundOK, Tracked, q

LEMMA UpdatedVoteBoolean ==
  ASSUME NEW d \in Dispute, NEW pct, NEW proposing
  PROVE  UpdatedVote(d, pct, proposing) \in BOOLEAN
  <1> DEFINE una == IF d.ourVote THEN d.nays = 0 ELSE d.yays = 0
             weight == (d.yays * 100 + (IF d.ourVote THEN 100 ELSE 0))
                         \div (d.nays + d.yays + 1)
             a == weight > AvalancheThreshold(pct)
             b == d.yays > d.nays
  <1>1. d.ourVote \in BOOLEAN
    BY DEF Dispute
  <1>2. una \in BOOLEAN /\ a \in BOOLEAN /\ b \in BOOLEAN
    <2>1. (d.nays = 0) \in BOOLEAN /\ (d.yays = 0) \in BOOLEAN
      OBVIOUS
    <2>2. una \in BOOLEAN
      BY <1>1, <2>1
    <2> HIDE DEF weight
    <2>3. a \in BOOLEAN /\ b \in BOOLEAN
      OBVIOUS
    <2> QED BY <2>2, <2>3
  <1>3. UpdatedVote(d, pct, proposing) =
          CASE una -> d.ourVote
            [] ~una /\ proposing -> a
            [] ~una /\ ~proposing -> b
    BY DEF UpdatedVote
  <1> HIDE DEF una, a, b
  <1>4. CASE una
    BY <1>1, <1>3, <1>4
  <1>5. CASE ~una /\ proposing
    BY <1>2, <1>3, <1>5
  <1>6. CASE ~una /\ ~proposing
    BY <1>2, <1>3, <1>6
  <1> QED BY <1>4, <1>5, <1>6

LEMMA UpdateVotesOK ==
  ASSUME NEW r, PeerVotes(r)
  PROVE  LET q == UpdateVotes(r) IN
         /\ PeerVotes(q) /\ (Current(r) => Current(q))
         /\ SameOurs(q, r) /\ SamePeers(q, r)
         /\ q.acquired = r.acquired /\ q.compares = r.compares
         /\ DOMAIN q.disputes = DOMAIN r.disputes
  <1> DEFINE q == UpdateVotes(r)
             v(t) == UpdatedVote(r.disputes[t], ClosePercent(r), r.proposing)
  <1>1. /\ HasFields(q) /\ SameOurs(q, r) /\ SamePeers(q, r)
        /\ q.acquired = r.acquired /\ q.compares = r.compares
        /\ q.disputes = [t \in DOMAIN r.disputes |->
                           [r.disputes[t] EXCEPT !.ourVote = v(t)]]
    BY DEF UpdateVotes, PeerVotes, PeersOK, HasFields, SameOurs, SamePeers
  <1>2. \A t \in DOMAIN r.disputes : v(t) \in BOOLEAN
    BY UpdatedVoteBoolean DEF PeerVotes, VotesOK, Counted
  <1> HIDE DEF q, v
  <1>3. /\ DOMAIN q.disputes = DOMAIN r.disputes
        /\ \A t \in DOMAIN r.disputes : \E b \in BOOLEAN :
             q.disputes[t] = [r.disputes[t] EXCEPT !.ourVote = b]
    BY <1>1, <1>2
  <1>4. PeerVotes(q) /\ (Current(r) => Current(q))
    BY <1>1, <1>3, OurVoteChanged
  <1> QED BY <1>1, <1>3, <1>4 DEF q

(* updateOurPositions: the votes may flip, and then our set follows them. *)
LEMMA RepositionOK ==
  ASSUME NEW m, DOMAIN m = {"r", "sent"},
         NEW r, RoundOK(r), r.ourPosition # NoPosition, SentOK(r, m.sent),
         NEW v, PeerVotes(v), SameOurs(v, r), SamePeers(v, r),
         v.acquired = r.acquired, v.compares = r.compares,
         DOMAIN v.disputes = DOMAIN r.disputes, NEW choice
  PROVE  LET q == Reposition(m, v, Flips(r, v), choice) IN
         /\ MoveOK(q) /\ q.r.state = r.state /\ q.r.ourPosition # NoPosition
         /\ q.r.peerPositions = r.peerPositions /\ r.acquired \subseteq q.r.acquired
         /\ Current(v) => Current(q.r)
  <1> DEFINE flips == Flips(r, v)
             ours == v.ourPosition
             yes == {t \in flips : v.disputes[t].ourVote}
             moved == (ours.pos \cup yes) \ (flips \ yes)
             n == [v EXCEPT !.haveCloseTimeConsensus = choice.consensus,
                            !.ourPosition.pos = (@ \cup yes) \ (flips \ yes),
                            !.ourPosition.closeTime = choice.closeTime,
                            !.ourPosition.time = clock,
                            !.ourPosition.seq = @ + 1]
             k == [v EXCEPT !.haveCloseTimeConsensus = choice.consensus]
             q == Reposition(m, v, flips, choice)
  <1>1. \/ q = ChangePosition(m, n) /\ ~BowedOut(ours)
        \/ q = [m EXCEPT !.r = k] /\ (BowedOut(ours) \/ flips = {})
    BY DEF Reposition
  <1>2. /\ HasFields(v) /\ OurVotes(r) /\ OursHeld(r) /\ InSync(r) /\ StillCovered(r)
        /\ r.prevLedgerHash \in Ledgers /\ ours = r.ourPosition
        /\ IsPosition(ours) /\ ours # NoPosition
    BY DEF RoundOK, PeerVotes, PeersOK, OursHeld, SameOurs
  <1>3. \A t \in DOMAIN r.disputes :
          t \in flips \/ v.disputes[t].ourVote = r.disputes[t].ourVote
    BY DEF Flips
  <1>4. flips \subseteq DOMAIN r.disputes
    BY DEF Flips
  <1>5. CASE q = ChangePosition(m, n) /\ ~BowedOut(ours)
    <2> DEFINE x == MapComplete(n, n.ourPosition.pos)
               log == IF n.proposing THEN Append(m.sent, n.ourPosition) ELSE m.sent
    <2>1. q = [r |-> x, sent |-> log]
      BY <1>5 DEF ChangePosition, Propose
    <2>2. /\ HasFields(n) /\ SamePeers(n, v) /\ n.acquired = v.acquired
          /\ n.compares = v.compares /\ n.disputes = v.disputes
          /\ n.state = v.state /\ n.proposing = v.proposing
          /\ n.haveCorrectLCL = v.haveCorrectLCL
          /\ n.prevLedgerHash = v.prevLedgerHash
          /\ n.previousLedger = v.previousLedger
          /\ n.ourPosition = [ours EXCEPT !.pos = moved,
                                !.closeTime = choice.closeTime,
                                !.time = clock, !.seq = @ + 1]
      BY <1>2 DEF HasFields, SamePeers
    <2> HIDE DEF n, flips
    <2>3. /\ IsPosition(n.ourPosition) /\ n.ourPosition.pos = moved
          /\ n.ourPosition.seq = ours.seq + 1
          /\ n.ourPosition.prevLedger = ours.prevLedger
      BY <1>2, <2>2 DEF IsPosition
    <2>4. n.ourPosition # NoPosition
      BY <2>3, PositionIsSome
    <2>5. InConsensus(r)
      BY <1>2, <1>5 DEF InConsensus
    <2>6. PeerVotes(n) /\ (Current(v) => Current(n))
      BY <2>2 DEF PeerVotes, PeersOK, VotesOK, Current, CurrentOn, SamePeers
    <2>7. OurVotes(n)
      <3>1. ASSUME NEW t \in DOMAIN v.disputes
            PROVE  v.disputes[t].ourVote <=> t \in moved
        <4>1. CASE t \in flips
          BY <4>1
        <4>2. CASE t \notin flips
          <5>1. v.disputes[t].ourVote = r.disputes[t].ourVote
            BY <1>3, <4>2
          <5>2. r.disputes[t].ourVote <=> t \in ours.pos
            BY <1>2, <2>5 DEF OurVotes
          <5> QED BY <4>2, <5>1, <5>2
        <4> QED BY <4>1, <4>2
      <3> QED BY <2>2, <2>3, <3>1 DEF OurVotes
    <2>8. Covered(r) => Covered(n)
      <3>1. ASSUME Covered(r), NEW s \in r.compares, NEW t \in SymDiff(moved, s)
            PROVE  t \in DOMAIN r.disputes
        <4>1. CASE t \in flips
          BY <1>4, <4>1
        <4>2. CASE t \notin flips
          <5>1. t \in SymDiff(ours.pos, s)
            BY <3>1, <4>2 DEF SymDiff
          <5>2. SymDiff(ours.pos, s) \subseteq DOMAIN r.disputes
            BY <1>2, <2>5, <3>1 DEF Covered
          <5> QED BY <5>1, <5>2
        <4> QED BY <4>1, <4>2
      <3> QED BY <2>2, <2>3, <2>4, <3>1 DEF Covered
    <2>9. /\ PeerVotes(x) /\ OurVotes(x) /\ SameOurs(x, n) /\ SamePeers(x, n)
          /\ x.acquired = n.acquired \cup {moved} /\ (Current(n) => Current(x))
          /\ Covered(n) => Covered(x)
      <3> HIDE DEF moved
      <3>1. x.acquired = n.acquired \cup {n.ourPosition.pos}
        BY <2>6, <2>7, MapCompleteOK
      <3>2. /\ PeerVotes(x) /\ OurVotes(x) /\ SameOurs(x, n) /\ SamePeers(x, n)
            /\ (Current(n) => Current(x)) /\ (Covered(n) => Covered(x))
        BY <2>6, <2>7, MapCompleteOK
      <3> QED BY <2>3, <3>1, <3>2
    <2> HIDE DEF x, log, q, moved
    <2>10. /\ x.state = r.state /\ x.proposing = r.proposing
           /\ x.haveCorrectLCL = r.haveCorrectLCL
           /\ x.prevLedgerHash = r.prevLedgerHash
           /\ x.previousLedger = r.previousLedger
           /\ x.ourPosition = n.ourPosition
           /\ x.peerPositions = r.peerPositions
           /\ x.acquired = r.acquired \cup {moved}
      BY <2>2, <2>9 DEF SameOurs, SamePeers
    <2>11. OursHeld(x) /\ InSync(x)
      BY <1>2, <2>3, <2>4, <2>10 DEF OursHeld, InSync
    <2>12. StillCovered(x)
      <3>1. Covered(r) => Covered(x)
        BY <2>8, <2>9
      <3> QED BY <1>2, <2>10, <3>1 DEF StillCovered
    <2>13. SentOK(x, log)
      <3>1. CASE r.proposing
        <4>1. /\ IsLog(m.sent) /\ log = Append(m.sent, n.ourPosition)
              /\ Len(m.sent) = ours.seq + 1 /\ ours.seq \in Nat
          BY <1>2, <2>2, <3>1 DEF SentOK, SameOurs, log, IsPosition
        <4>2. /\ IsLog(log) /\ Len(log) = Len(m.sent) + 1
              /\ log[Len(m.sent) + 1] = n.ourPosition
              /\ \A i \in 1 .. Len(m.sent) : log[i] = m.sent[i]
          BY <4>1, AppendSent
        <4>3. \A i \in 1 .. Len(m.sent) : m.sent[i].seq = i - 1
          BY <3>1 DEF SentOK
        <4>4. ASSUME NEW i \in 1 .. Len(log) PROVE log[i].seq = i - 1
          <5>1. CASE i \in 1 .. Len(m.sent)
            BY <4>2, <4>3, <5>1
          <5>2. CASE i = Len(m.sent) + 1
            BY <2>3, <4>1, <4>2, <5>2
          <5> QED BY <4>1, <4>2, <5>1, <5>2
        <4>5. Len(log) = n.ourPosition.seq + 1
          BY <2>3, <4>1, <4>2
        <4> QED BY <2>4, <2>10, <4>2, <4>4, <4>5 DEF SentOK
      <3>2. CASE ~r.proposing
        <4>1. log = m.sent
          BY <2>2, <3>2 DEF log, SameOurs
        <4> QED BY <2>10, <3>2, <4>1 DEF SentOK
      <3> QED BY <3>1, <3>2
    <2>14. DOMAIN q = {"r", "sent"} /\ q.r = x /\ q.sent = log
      BY <2>1
    <2>15. RoundOK(x)
      BY <1>2, <2>9, <2>10, <2>11, <2>12 DEF RoundOK
    <2>16. MoveOK(q)
      BY <2>13, <2>14, <2>15 DEF MoveOK
    <2>17. Current(v) => Current(q.r)
      BY <2>6, <2>9, <2>14
    <2> QED BY <2>4, <2>10, <2>14, <2>16, <2>17 DEF q, flips
  <1>6. CASE q = [m EXCEPT !.r = k] /\ (BowedOut(ours) \/ flips = {})
    <2>1. /\ HasFields(k) /\ SameOurs(k, v) /\ SamePeers(k, v)
          /\ k.acquired = v.acquired
          /\ k.compares = v.compares /\ k.disputes = v.disputes
      BY <1>2 DEF HasFields, SameOurs, SamePeers
    <2>2. DOMAIN q = {"r", "sent"} /\ q.r = k /\ q.sent = m.sent
      BY <1>6
    <2> HIDE DEF k, q, flips
    <2>3. PeerVotes(k) /\ (Current(v) => Current(k))
      BY <2>1 DEF PeerVotes, PeersOK, VotesOK, Current, CurrentOn, SamePeers
    <2>4. SameOurs(k, r) /\ SamePeers(k, r) /\ k.acquired = r.acquired
      BY <2>1 DEF SameOurs, SamePeers
    <2>5. OurVotes(k)
      <3>1. SUFFICES ASSUME InConsensus(k), NEW t \in DOMAIN v.disputes
                     PROVE  v.disputes[t].ourVote <=> t \in r.ourPosition.pos
        BY <2>1, <2>4 DEF OurVotes, SameOurs
      <3>2. InConsensus(r) /\ ~BowedOut(ours)
        BY <1>2, <2>4, <3>1 DEF InConsensus, SameOurs
      <3>3. v.disputes[t].ourVote = r.disputes[t].ourVote
        BY <1>3, <1>6, <3>2
      <3>4. r.disputes[t].ourVote <=> t \in r.ourPosition.pos
        BY <1>2, <3>2 DEF OurVotes
      <3> QED BY <3>3, <3>4
    <2>6. OursHeld(k) /\ InSync(k) /\ k.prevLedgerHash \in Ledgers
      BY <1>2, <2>4 DEF OursHeld, InSync, SameOurs
    <2>7. StillCovered(k)
      BY <1>2, <2>1, <2>4 DEF StillCovered, Covered, InConsensus, SameOurs
    <2>8. RoundOK(k)
      BY <2>3, <2>5, <2>6, <2>7 DEF RoundOK
    <2>9. SentOK(k, m.sent)
      BY <2>4, SentSame DEF SameOurs
    <2>10. MoveOK(q)
      BY <2>2, <2>8, <2>9 DEF MoveOK
    <2>11. /\ k.state = r.state /\ k.ourPosition = r.ourPosition
           /\ k.peerPositions = r.peerPositions
      BY <2>4 DEF SameOurs, SamePeers
    <2> QED BY <2>2, <2>3, <2>4, <2>10, <2>11 DEF q, flips
  <1> QED BY <1>1, <1>5, <1>6

LEMMA GenerateDisputesOK ==
  ASSUME NEW r, RoundOK(r), r.ourPosition # NoPosition
  PROVE  LET q == GenerateDisputes(r) IN
         /\ RoundOK(q) /\ SameOurs(q, r) /\ SamePeers(q, r)
         /\ q.acquired = r.acquired /\ (Current(r) => Current(q))
  <1> DEFINE q == GenerateDisputes(r)
  <1>1. CASE q = r
    BY <1>1 DEF SameOurs, SamePeers
  <1>2. CASE q = Compare(r, Uncompared(r))
    <2>1. /\ PeerVotes(r) /\ OurVotes(r) /\ OursHeld(r) /\ InSync(r)
          /\ StillCovered(r) /\ r.prevLedgerHash \in Ledgers
      BY DEF RoundOK
    <2>2. /\ PeerVotes(q) /\ OurVotes(q) /\ SameOurs(q, r) /\ SamePeers(q, r)
          /\ q.acquired = r.acquired /\ (Current(r) => Current(q))
          /\ Covered(r) => Covered(q)
      BY <1>2, <2>1, CompareOK
    <2> HIDE DEF q
    <2>3. OursHeld(q) /\ InSync(q) /\ StillCovered(q) /\ q.prevLedgerHash \in Ledgers
      BY <2>1, <2>2 DEF OursHeld, InSync, StillCovered, SameOurs
    <2> QED BY <2>2, <2>3 DEF RoundOK, q
  <1> QED BY <1>1, <1>2 DEF GenerateDisputes

LEMMA FinishOK ==
  ASSUME NEW r, RoundOK(r), r.state # "open", NEW result
  PROVE  LET q == Finish(r, result) IN
         /\ RoundOK(q) /\ q.state # "open" /\ SamePeers(q, r)
         /\ q.ourPosition = r.ourPosition /\ q.proposing = r.proposing
         /\ q.acquired = r.acquired /\ (Current(r) => Current(q))
  <1> DEFINE q == Finish(r, result)
  <1>1. CASE q = r
    BY <1>1 DEF SamePeers
  <1>2. CASE q # r
    <2>1. /\ PeerVotes(r) /\ OurVotes(r) /\ OursHeld(r) /\ InSync(r) /\ HasFields(r)
          /\ StillCovered(r) /\ r.prevLedgerHash \in Ledgers
      BY DEF RoundOK, PeerVotes, PeersOK
    <2>2. q = [r EXCEPT !.consensusFail = result = "MovedOn",
                        !.state = IF r.haveCloseTimeConsensus THEN "finished" ELSE @]
      BY <1>2 DEF Finish
    <2>3. /\ HasFields(q) /\ q.state # "open" /\ SamePeers(q, r)
          /\ q.ourPosition = r.ourPosition /\ q.proposing = r.proposing
          /\ q.haveCorrectLCL = r.haveCorrectLCL
          /\ q.prevLedgerHash = r.prevLedgerHash
          /\ q.previousLedger = r.previousLedger
          /\ q.acquired = r.acquired /\ q.compares = r.compares
          /\ q.disputes = r.disputes
      BY <2>1, <2>2 DEF HasFields, SamePeers
    <2> HIDE DEF q
    <2>4. PeerVotes(q) /\ (Current(r) => Current(q))
      BY <2>1, <2>3 DEF PeerVotes, PeersOK, VotesOK, Current, CurrentOn, SamePeers
    <2>5. OurVotes(q) /\ OursHeld(q) /\ InSync(q)
      BY <2>1, <2>3 DEF OurVotes, OursHeld, InSync, InConsensus
    <2>6. StillCovered(q)
      BY <2>1, <2>3 DEF StillCovered, Covered, InConsensus
    <2> QED BY <2>1, <2>3, <2>4, <2>5, <2>6 DEF RoundOK, q
  <1> QED BY <1>1, <1>2

LEMMA EstablishOK ==
  ASSUME NEW m, MoveOK(m), m.r.state # "open", NEW finished
  PROVE  LET q == StateEstablish(m, finished) IN
         /\ MoveOK(q) /\ q.r.state # "open"
         /\ \A in : Tracked(m.r, in) => Tracked(q.r, in)
  <1> DEFINE q == StateEstablish(m, finished)
             d == DropStale(m.r)
             v == UpdateVotes(d)
             u == Reposition(m, v, Flips(d, v), CloseTimeChoice(v))
             g == GenerateDisputes(u.r)
             x == Finish(g, ConsensusOf(g, finished))
  <1>1. CASE q = m
    BY <1>1
  <1>2. CASE q # m
    <2>1. q = [u EXCEPT !.r = x]
      BY <1>2 DEF StateEstablish, UpdateOurPositions, VoteWith, VoteAndReposition,
                  Conclude
    <2>2. /\ DOMAIN m = {"r", "sent"} /\ RoundOK(m.r) /\ SentOK(m.r, m.sent)
          /\ m.r.ourPosition # NoPosition
      BY DEF MoveOK, RoundOK, OursHeld
    <2>3. /\ RoundOK(d) /\ SameOurs(d, m.r)
          /\ \A in : Tracked(m.r, in) => Tracked(d, in)
      BY <2>2, DropStaleOK
    <2> HIDE DEF d
    <2>4. /\ PeerVotes(d) /\ d.ourPosition # NoPosition /\ d.state # "open"
          /\ SentOK(d, m.sent)
      BY <2>2, <2>3, SentSame DEF RoundOK, SameOurs
    <2>5. /\ PeerVotes(v) /\ (Current(d) => Current(v))
          /\ SameOurs(v, d) /\ SamePeers(v, d)
          /\ v.acquired = d.acquired /\ v.compares = d.compares
          /\ DOMAIN v.disputes = DOMAIN d.disputes
      BY <2>4, UpdateVotesOK
    <2> HIDE DEF v
    <2>6. /\ MoveOK(u) /\ u.r.state = d.state /\ u.r.ourPosition # NoPosition
          /\ u.r.peerPositions = d.peerPositions /\ d.acquired \subseteq u.r.acquired
          /\ Current(v) => Current(u.r)
      BY <2>2, <2>3, <2>4, <2>5, RepositionOK
    <2> HIDE DEF u
    <2>7. RoundOK(u.r) /\ SentOK(u.r, u.sent) /\ DOMAIN u = {"r", "sent"}
      BY <2>6 DEF MoveOK
    <2>8. /\ RoundOK(g) /\ SameOurs(g, u.r) /\ SamePeers(g, u.r)
          /\ g.acquired = u.r.acquired /\ (Current(u.r) => Current(g))
      BY <2>6, <2>7, GenerateDisputesOK
    <2> HIDE DEF g
    <2>9. g.state # "open"
      BY <2>4, <2>6, <2>8 DEF SameOurs
    <2>10. /\ RoundOK(x) /\ x.state # "open" /\ SamePeers(x, g)
           /\ x.ourPosition = g.ourPosition /\ x.proposing = g.proposing
           /\ x.acquired = g.acquired /\ (Current(g) => Current(x))
      BY <2>8, <2>9, FinishOK
    <2> HIDE DEF x, q
    <2>11. SentOK(x, u.sent)
      BY <2>7, <2>8, <2>10, SentSame DEF SameOurs
    <2>12. DOMAIN q = {"r", "sent"} /\ q.r = x /\ q.sent = u.sent
      BY <2>1, <2>7
    <2>13. ASSUME NEW in, Tracked(m.r, in) PROVE Tracked(x, in)
      <3>1. Current(d) /\ Known(d, in)
        BY <2>3, <2>13 DEF Tracked
      <3>2. Current(x)
        BY <2>5, <2>6, <2>8, <2>10, <3>1
      <3>3. x.peerPositions = d.peerPositions /\ d.acquired \subseteq x.acquired
        BY <2>6, <2>8, <2>10 DEF SamePeers
      <3> QED BY <3>1, <3>2, <3>3, KnownSame DEF Tracked
    <2> QED BY <2>10, <2>11, <2>12, <2>13 DEF MoveOK, q
  <1> QED BY <1>1, <1>2

LEMMA TimerOK ==
  ASSUME NEW m, MoveOK(m), NEW lcl \in Ledgers, NEW validators, NEW ct,
         stored \in [Peers -> Seq(Proposal)]
  PROVE  LET q == Timer(m, lcl, validators, ct) IN
         /\ MoveOK(q)
         /\ \A in \in SUBSET inbound : Tracked(m.r, in) => Tracked(q.r, in)
  <1> DEFINE n == CheckLCL(m, lcl)
             q == Timer(m, lcl, validators, ct)
  <1>1. /\ MoveOK(n) /\ n.r.state = m.r.state
        /\ \A in \in SUBSET inbound : Tracked(m.r, in) => Tracked(n.r, in)
    BY CheckLCLOK
  <1>2. q = IF n.r.state = "open" THEN StatePreClose(n, validators, ct)
            ELSE StateEstablish(n, validators)
    BY DEF Timer, TimerStep
  <1> HIDE DEF n, q
  <1>3. CASE n.r.state = "open"
    <2>1. q = n \/ q = CloseLedger(n, ct)
      BY <1>2, <1>3 DEF StatePreClose
    <2>2. CASE q = n
      BY <1>1, <2>2 DEF q
    <2>3. CASE q = CloseLedger(n, ct)
      <3>1. MoveOK(q) /\ (\A in : Tracked(n.r, in) => Tracked(q.r, in))
        BY <1>1, <1>3, <2>3, CloseLedgerOK
      <3> QED BY <1>1, <3>1 DEF q
    <2> QED BY <2>1, <2>2, <2>3
  <1>4. CASE n.r.state # "open"
    <2>1. MoveOK(q) /\ (\A in : Tracked(n.r, in) => Tracked(q.r, in))
      BY <1>1, <1>2, <1>4, EstablishOK
    <2> QED BY <1>1, <2>1 DEF q
  <1> QED BY <1>3, <1>4

-----------------------------------------------------------------------------
(* The inductive invariant. *)

JobOK ==
  /\ DOMAIN job = {"at", "set"}
  /\ job.at \in {"queued", "started"} =>
       round.state = "finished" /\ job.set = round.ourPosition.pos

ValidationOK ==
  validation # None /\ validation.full => validation.parent = validation.network

InputsOK == clock \in Clocks /\ stored \in [Peers -> Seq(Proposal)]

ConsensusInv ==
  /\ RoundOK(round) /\ SentOK(round, sent)
  /\ JobOK /\ ValidationOK /\ InputsOK

LEMMA InitConsensusInv == Init => ConsensusInv
  <1> SUFFICES ASSUME Init PROVE ConsensusInv
    OBVIOUS
  <1>1. PICK network \in Ledgers, mode \in {"watching", "validating", "full"} :
          /\ network # OurLCL => mode # "full"
          /\ round = WorkFromLCL(NewRound(network, mode = "full",
                                          mode # "watching"), network)
    BY DEF Init
  <1> DEFINE n == NewRound(network, mode = "full", mode # "watching")
  <1>2. /\ HasFields(n) /\ n.state = "open" /\ n.prevLedgerHash = network
        /\ n.previousLedger = OurLCL /\ n.haveCorrectLCL = (network = OurLCL)
        /\ n.proposing = (mode = "full") /\ n.ourPosition = NoPosition
        /\ n.peerPositions = NoFun /\ n.deadNodes = {} /\ n.compares = {}
        /\ n.disputes = NoFun /\ n.acquired = {}
    BY DEF NewRound, HasFields
  <1>3. round = WorkFromLCL(n, network)
    BY <1>1
  <1> HIDE DEF n
  <1>4. DOMAIN n.peerPositions = {} /\ DOMAIN n.disputes = {}
    BY <1>2 DEF NoFun
  <1>5. RoundOK(n)
    <2>1. PeerVotes(n)
      BY <1>2, <1>4 DEF PeerVotes, PeersOK, VotesOK
    <2>2. OurVotes(n) /\ OursHeld(n)
      BY <1>2, <1>4 DEF OurVotes, OursHeld
    <2>3. InSync(n)
      BY <1>1, <1>2 DEF InSync
    <2>4. StillCovered(n)
      BY <1>2 DEF StillCovered, Covered, InConsensus
    <2> QED BY <1>2, <2>1, <2>2, <2>3, <2>4 DEF RoundOK
  <1>7. ~n.proposing \/ n.previousLedger = network
    BY <1>1, <1>2
  <1>8. /\ RoundOK(round) /\ round.proposing = n.proposing
        /\ round.ourPosition = n.ourPosition
    BY <1>3, <1>5, <1>7, WorkFromLCLOK
  <1>9. SentOK(round, sent)
    <2>1. sent = <<>> /\ Len(sent) = 0 /\ IsLog(sent)
      BY DEF Init, IsLog
    <2> QED BY <1>2, <1>8, <2>1 DEF SentOK
  <1>10. JobOK /\ ValidationOK
    BY DEF Init, JobOK, ValidationOK
  <1>11. InputsOK
    BY RoundAssumption DEF Init, InputsOK
  <1> QED BY <1>8, <1>9, <1>10, <1>11 DEF ConsensusInv

(* Operators that leave our side alone keep the whole round in order. *)
LEMMA RoundSame ==
  ASSUME NEW r, RoundOK(r), NEW q, PeerVotes(q), OurVotes(q), SameOurs(q, r),
         r.acquired \subseteq q.acquired, Covered(r) => Covered(q)
  PROVE  RoundOK(q)
  <1>1. OursHeld(q)
    BY DEF RoundOK, OursHeld, SameOurs
  <1>2. InSync(q)
    BY DEF RoundOK, InSync, SameOurs
  <1>3. StillCovered(q)
    BY DEF RoundOK, StillCovered, SameOurs
  <1> QED BY <1>1, <1>2, <1>3 DEF RoundOK, SameOurs

LEMMA MapCompleteKeeps ==
  ASSUME NEW r, RoundOK(r), NEW s
  PROVE  LET q == MapComplete(r, s) IN
         /\ RoundOK(q) /\ SameOurs(q, r) /\ q.peerPositions = r.peerPositions
         /\ q.acquired = r.acquired \cup {s} /\ (Current(r) => Current(q))
  <1> DEFINE q == MapComplete(r, s)
  <1>1. PeerVotes(r) /\ OurVotes(r)
    BY DEF RoundOK
  <1>2. /\ PeerVotes(q) /\ OurVotes(q) /\ SameOurs(q, r) /\ SamePeers(q, r)
        /\ q.acquired = r.acquired \cup {s} /\ (Current(r) => Current(q))
        /\ Covered(r) => Covered(q)
    BY <1>1, MapCompleteOK
  <1> HIDE DEF q
  <1>3. RoundOK(q)
    BY <1>2, RoundSame
  <1> QED BY <1>2, <1>3 DEF SamePeers, q

LEMMA TimerEntryInv ==
  ASSUME ConsensusInv, NEW counts, NEW validators, NEW ct,
         TimerEntry(counts, validators, ct)
  PROVE  ConsensusInv'
  <1>1. PICK lcl \in NetLedgers(round, counts) :
          LET m == Timer(Now, lcl, validators, ct)
              mine == IF m.r.ourPosition = NoPosition THEN {}
                      ELSE {m.r.ourPosition.pos} IN
          /\ round' = m.r
          /\ sent' = m.sent
          /\ inbound' = inbound \cup mine
          /\ job' = IF m.r.state = "finished"
                      THEN [at |-> "queued", set |-> m.r.ourPosition.pos]
                      ELSE job
    BY DEF TimerEntry
  <1> DEFINE m == Timer(Now, lcl, validators, ct)
  <1>2. /\ round' = m.r /\ sent' = m.sent
        /\ inbound' = inbound \cup (IF m.r.ourPosition = NoPosition THEN {}
                                    ELSE {m.r.ourPosition.pos})
        /\ job' = IF m.r.state = "finished"
                    THEN [at |-> "queued", set |-> m.r.ourPosition.pos] ELSE job
    BY <1>1
  <1>3. lcl \in Ledgers
    BY <1>1 DEF NetLedgers, ConsensusInv, RoundOK
  <1>4. Now.r = round /\ MoveOK(Now)
    BY DEF Now, MoveOK, ConsensusInv
  <1>5. MoveOK(m)
    BY <1>3, <1>4, TimerOK DEF ConsensusInv, InputsOK
  <1> HIDE DEF m
  <1>6. RoundOK(round)' /\ SentOK(round, sent)'
    BY <1>2, <1>5 DEF MoveOK
  <1>7. JobOK'
    <2>1. CASE m.r.state = "finished"
      BY <1>2, <2>1 DEF JobOK
    <2>2. CASE m.r.state # "finished"
      <3>1. job.at \notin {"queued", "started"} /\ DOMAIN job = {"at", "set"}
        BY DEF TimerEntry, ConsensusInv, JobOK
      <3>2. job' = job
        BY <1>2, <2>2
      <3> QED BY <3>1, <3>2 DEF JobOK
    <2> QED BY <2>1, <2>2
  <1>8. ValidationOK' /\ InputsOK'
    BY DEF TimerEntry, ConsensusInv, ValidationOK, InputsOK
  <1> QED BY <1>6, <1>7, <1>8 DEF ConsensusInv

LEMMA TrustedProposalInv ==
  ASSUME ConsensusInv, NEW prop \in Proposal, TrustedProposal(prop)
  PROVE  ConsensusInv'
  <1> DEFINE q == PeerPosition(round, inbound, prop)
  <1>1. prop.peer \in Peers
    BY DEF Proposal
  <1>2. RoundOK(round) /\ SentOK(round, sent) /\ PeerVotes(round) /\ OurVotes(round)
    BY DEF ConsensusInv, RoundOK
  <1>3. /\ PeerVotes(q) /\ OurVotes(q) /\ SameOurs(q, round)
        /\ round.acquired \subseteq q.acquired
        /\ Covered(round) => Covered(q)
    BY <1>1, <1>2, PeerPositionOK
  <1>4. (round' = q \/ round' = round) /\ inbound' = inbound /\ sent' = sent
    BY DEF TrustedProposal
  <1> HIDE DEF q
  <1>5. RoundOK(q)
    BY <1>2, <1>3, RoundSame
  <1>6. SameOurs(round', round)
    BY <1>3, <1>4 DEF SameOurs
  <1>7. RoundOK(round)' /\ SentOK(round, sent)'
    <2>1. SentOK(round', sent)
      BY <1>2, <1>6, SentSame DEF SameOurs
    <2> QED BY <1>2, <1>4, <1>5, <2>1
  <1>8. JobOK' /\ ValidationOK'
    BY <1>6 DEF TrustedProposal, ConsensusInv, JobOK, ValidationOK, SameOurs
  <1>9. InputsOK'
    <2>1. /\ stored \in [Peers -> Seq(Proposal)] /\ clock \in Clocks
      BY DEF ConsensusInv, InputsOK
    <2> DEFINE s == stored[prop.peer]
               k == IF Len(s) >= StoreLimit THEN Tail(s) ELSE s
    <2>2. stored' = [stored EXCEPT ![prop.peer] = Append(k, prop)] /\ clock' = clock
      BY DEF TrustedProposal
    <2>3. k \in Seq(Proposal)
      <3>1. s \in Seq(Proposal)
        BY <1>1, <2>1
      <3>2. CASE Len(s) >= StoreLimit
        <4>1. s # <<>>
          BY <3>1, <3>2, RoundAssumption
        <4> QED BY <3>1, <3>2, <4>1
      <3>3. CASE ~(Len(s) >= StoreLimit)
        BY <3>1, <3>3
      <3> QED BY <3>2, <3>3
    <2> HIDE DEF k
    <2>4. Append(k, prop) \in Seq(Proposal)
      BY <2>3
    <2> QED BY <1>1, <2>1, <2>2, <2>4 DEF InputsOK
  <1> QED BY <1>7, <1>8, <1>9 DEF ConsensusInv

LEMMA SetInv ==
  ASSUME ConsensusInv, NEW s, GiveSet(s) \/ GotSet(s)
  PROVE  ConsensusInv'
  <1> DEFINE q == MapComplete(round, s)
  <1>1. RoundOK(round) /\ SentOK(round, sent)
    BY DEF ConsensusInv
  <1>2. /\ RoundOK(q) /\ SameOurs(q, round)
    BY <1>1, MapCompleteKeeps
  <1>3. /\ round' = q \/ round' = round
        /\ sent' = sent /\ UNCHANGED <<clock, stored, job, validation>>
    BY DEF GiveSet, GotSet
  <1> HIDE DEF q
  <1>4. SameOurs(round', round)
    BY <1>2, <1>3 DEF SameOurs
  <1>5. RoundOK(round)' /\ SentOK(round, sent)'
    <2>1. SentOK(round', sent)
      BY <1>1, <1>4, SentSame DEF SameOurs
    <2> QED BY <1>1, <1>2, <1>3, <2>1
  <1>6. JobOK' /\ ValidationOK' /\ InputsOK'
    BY <1>3, <1>4 DEF ConsensusInv, JobOK, ValidationOK, InputsOK, SameOurs
  <1> QED BY <1>5, <1>6 DEF ConsensusInv

(* The end of the round only moves its state. *)
LEMMA StateMoved ==
  ASSUME NEW r, RoundOK(r), r.state # "open", NEW s, s # "open"
  PROVE  LET q == [r EXCEPT !.state = s] IN
         /\ RoundOK(q) /\ q.ourPosition = r.ourPosition /\ q.proposing = r.proposing
         /\ q.state = s
         /\ \A in : Tracked(r, in) => Tracked(q, in)
  <1> DEFINE q == [r EXCEPT !.state = s]
  <1>1. /\ PeerVotes(r) /\ OurVotes(r) /\ OursHeld(r) /\ InSync(r) /\ HasFields(r)
        /\ StillCovered(r) /\ r.prevLedgerHash \in Ledgers
    BY DEF RoundOK, PeerVotes, PeersOK
  <1>2. /\ HasFields(q) /\ q.state = s /\ SamePeers(q, r)
        /\ q.ourPosition = r.ourPosition /\ q.proposing = r.proposing
        /\ q.haveCorrectLCL = r.haveCorrectLCL
        /\ q.prevLedgerHash = r.prevLedgerHash
        /\ q.previousLedger = r.previousLedger
        /\ q.acquired = r.acquired /\ q.compares = r.compares
        /\ q.disputes = r.disputes
    BY <1>1 DEF HasFields, SamePeers
  <1> HIDE DEF q
  <1>3. PeerVotes(q) /\ (Current(r) => Current(q))
    BY <1>1, <1>2 DEF PeerVotes, PeersOK, VotesOK, Current, CurrentOn, SamePeers
  <1>4. OurVotes(q) /\ OursHeld(q) /\ InSync(q)
    BY <1>1, <1>2 DEF OurVotes, OursHeld, InSync, InConsensus
  <1>5. StillCovered(q)
    BY <1>1, <1>2 DEF StillCovered, Covered, InConsensus
  <1>6. ASSUME NEW in, Tracked(r, in) PROVE Tracked(q, in)
    BY <1>2, <1>3, <1>6 DEF Tracked, Known, SamePeers
  <1> QED BY <1>1, <1>2, <1>3, <1>4, <1>5, <1>6 DEF RoundOK, q

LEMMA AcceptBuildInv ==
  ASSUME ConsensusInv, AcceptBuild PROVE ConsensusInv'
  <1>1. /\ RoundOK(round) /\ SentOK(round, sent) /\ round.state = "finished"
        /\ InSync(round) /\ DOMAIN job = {"at", "set"}
    BY DEF ConsensusInv, RoundOK, JobOK, AcceptBuild
  <1>2. round' = [round EXCEPT !.state = "accepted"] /\ sent' = sent
    BY DEF AcceptBuild
  <1>3. /\ RoundOK(round') /\ round'.ourPosition = round.ourPosition
        /\ round'.proposing = round.proposing
        /\ \A in : Tracked(round, in) => Tracked(round', in)
    BY <1>1, <1>2, StateMoved
  <1>4. SentOK(round', sent)
    BY <1>1, <1>3, SentSame
  <1>5. job' = [job EXCEPT !.at = "built"]
    BY DEF AcceptBuild
  <1>6. JobOK'
    BY <1>1, <1>5 DEF JobOK
  <1>7. ValidationOK'
    <2>1. \/ validation' = None
          \/ validation' = [parent |-> round.previousLedger,
                            network |-> round.prevLedgerHash,
                            set |-> job.set, full |-> round.proposing]
      BY DEF AcceptBuild
    <2>2. round.proposing => round.previousLedger = round.prevLedgerHash
      BY <1>1 DEF InSync
    <2> QED BY <2>1, <2>2 DEF ValidationOK
  <1>8. InputsOK'
    BY DEF AcceptBuild, ConsensusInv, InputsOK
  <1> QED BY <1>2, <1>3, <1>4, <1>6, <1>7, <1>8 DEF ConsensusInv

LEMMA EndConsensusInv ==
  ASSUME ConsensusInv, EndConsensus PROVE ConsensusInv'
  <1>1. RoundOK(round) /\ SentOK(round, sent) /\ round.state = "accepted"
    BY DEF ConsensusInv, EndConsensus
  <1>2. round' = [round EXCEPT !.state = "ended"]
    BY DEF EndConsensus
  <1>3. /\ RoundOK(round') /\ round'.ourPosition = round.ourPosition
        /\ round'.proposing = round.proposing
        /\ \A in : Tracked(round, in) => Tracked(round', in)
    BY <1>1, <1>2, StateMoved
  <1>4. SentOK(round', sent)
    BY <1>1, <1>3, SentSame
  <1>5. JobOK'
    BY <1>1 DEF EndConsensus, ConsensusInv, JobOK
  <1>6. ValidationOK' /\ InputsOK' /\ sent' = sent
    BY DEF EndConsensus, ConsensusInv, ValidationOK, InputsOK
  <1> QED BY <1>3, <1>4, <1>5, <1>6 DEF ConsensusInv

LEMMA NextConsensusInv == ConsensusInv /\ [Next]_vars => ConsensusInv'
  <1> SUFFICES ASSUME ConsensusInv, [Next]_vars PROVE ConsensusInv'
    OBVIOUS
  <1>1. ASSUME NEW counts \in Counts, NEW validators \in 0 .. Cardinality(Peers),
               NEW ct \in OurCloseTimes, TimerEntry(counts, validators, ct)
        PROVE  ConsensusInv'
    BY <1>1, TimerEntryInv
  <1>2. ASSUME NEW p \in Peers, NEW l \in Ledgers,
               NEW seq \in PeerSeqs \cup {SeqLeave}, NEW pos \in Positions,
               NEW ct \in CloseTimes,
               TrustedProposal([peer |-> p, prevLedger |-> l, seq |-> seq,
                                pos |-> pos, closeTime |-> ct, time |-> clock])
        PROVE  ConsensusInv'
    <2> DEFINE prop == [peer |-> p, prevLedger |-> l, seq |-> seq, pos |-> pos,
                        closeTime |-> ct, time |-> clock]
    <2>1. prop \in Proposal
      BY DEF Proposal, ConsensusInv, InputsOK
    <2> HIDE DEF prop
    <2>2. TrustedProposal(prop)
      BY <1>2 DEF prop
    <2> QED BY <2>1, <2>2, TrustedProposalInv
  <1>3. ASSUME NEW s \in TxSets, GiveSet(s) \/ GotSet(s) PROVE ConsensusInv'
    BY <1>3, SetInv
  <1>4. ASSUME NEW l \in Ledgers, AcquireLedger(l) PROVE ConsensusInv'
    BY <1>4 DEF AcquireLedger, ConsensusInv, JobOK, ValidationOK, InputsOK
  <1>5. CASE AcceptStart
    <2>1. /\ UNCHANGED <<round, clock, inbound, sent, validation>>
          /\ stored' = [p \in Peers |-> <<>>]
          /\ job.at = "queued" /\ job' = [job EXCEPT !.at = "started"]
      BY <1>5 DEF AcceptStart
    <2>2. JobOK'
      BY <2>1 DEF ConsensusInv, JobOK
    <2>3. InputsOK'
      BY <2>1 DEF ConsensusInv, InputsOK
    <2> QED BY <2>1, <2>2, <2>3 DEF ConsensusInv, ValidationOK
  <1>6. CASE AcceptBuild
    BY <1>6, AcceptBuildInv
  <1>7. CASE EndConsensus
    BY <1>7, EndConsensusInv
  <1>8. CASE Tick
    <2>1. /\ UNCHANGED <<round, inbound, sent, validation, stored, job>>
          /\ clock' \in Clocks
      BY <1>8 DEF Tick
    <2> QED BY <2>1 DEF ConsensusInv, JobOK, ValidationOK, InputsOK
  <1>9. CASE UNCHANGED vars
    BY <1>9 DEF vars, ConsensusInv, JobOK, ValidationOK, InputsOK
  <1> QED BY <1>1, <1>2, <1>3, <1>4, <1>5, <1>6, <1>7, <1>8, <1>9 DEF Next

(* The invariant holds in every behaviour of the round. *)
THEOREM ConsensusInvariant == Spec => []ConsensusInv
  BY InitConsensusInv, NextConsensusInv, PTL DEF Spec

(* The counters of every disputed transaction (DisputedTx::setVote and     *)
(* unVote) are the sums of the votes on record, for any number of peers.   *)
THEOREM VotesCountedCorrect == Spec => []VotesCounted
  <1>1. ConsensusInv => VotesCounted
    BY DEF ConsensusInv, RoundOK, PeerVotes, VotesOK, Counted, VotesCounted
  <1> QED BY <1>1, ConsensusInvariant, PTL

(* A peer that bowed out, went stale or was dropped with the old ledger    *)
(* (peerPosition, updateOurPositions, handleLCL) leaves no vote behind.    *)
THEOREM VotersTrackedCorrect == Spec => []VotersTracked
  <1>1. ConsensusInv => VotersTracked
    BY DEF ConsensusInv, RoundOK, PeerVotes, VotesOK, PeersOK, VotersTracked
  <1> QED BY <1>1, ConsensusInvariant, PTL

(* Our votes say what is in our set, we hold that set, and the accept job  *)
(* still has it when it runs (the assertion in accept()), on any number of *)
(* ledgers and wherever sets arrive between giveSet and mapComplete.       *)
THEOREM VoteMatchesPositionCorrect == Spec => []VoteMatchesPosition
  <1>1. ConsensusInv => VoteMatchesPosition
    BY DEF ConsensusInv, RoundOK, OurVotes, OursHeld, JobOK, VoteMatchesPosition
  <1> QED BY <1>1, ConsensusInvariant, PTL

(* mapComplete is the first to acquire a set that giveSet handed over. *)
MapCompleteFirst ==
  \A s \in gotSet \cap gotSet' : s \in round'.acquired => s \in round.acquired

(* The votes of the peers are current, for the sets mapComplete has seen.  *)
TrackOK == Tracked(round, inbound \ gotSet)

LEMMA InitTrackOK == Init => TrackOK
  <1> SUFFICES ASSUME Init PROVE TrackOK
    OBVIOUS
  <1>1. PICK n : /\ round = n \/ \E l : round = WorkFromLCL(n, l)
                 /\ HasFields(n) /\ n.peerPositions = NoFun
    <2>1. PICK network \in Ledgers, mode \in {"watching", "validating", "full"} :
            round = WorkFromLCL(NewRound(network, mode = "full",
                                         mode # "watching"), network)
      BY DEF Init
    <2>2. LET n == NewRound(network, mode = "full", mode # "watching") IN
          HasFields(n) /\ n.peerPositions = NoFun
      BY DEF NewRound, HasFields
    <2> QED BY <2>1, <2>2
  <1>2. round.peerPositions = NoFun
    BY <1>1 DEF WorkFromLCL, HasFields
  <1> QED BY <1>2 DEF TrackOK, Tracked, Current, CurrentOn, Known, NoFun

(* A proposal for a set between giveSet and mapComplete is the one step    *)
(* that can acquire a set without counting all the peers that take it.     *)
LEMMA ProposalTrackOK ==
  ASSUME ConsensusInv, TrackOK, MapCompleteFirst, NEW prop \in Proposal,
         TrustedProposal(prop)
  PROVE  TrackOK'
  <1> DEFINE in == inbound \ gotSet
             q == PeerPosition(round, inbound, prop)
  <1>1. /\ round' = q \/ round' = round
        /\ inbound' = inbound /\ gotSet' = gotSet
    BY DEF TrustedProposal
  <1>2. CASE round' = round
    BY <1>1, <1>2 DEF TrackOK
  <1>3. CASE round' = q
    <2>1. prop.peer \in Peers /\ PeerVotes(round) /\ OurVotes(round)
      BY DEF Proposal, ConsensusInv, RoundOK
    <2>2. q = PeerPosition(round, in, prop)
      <3>1. CASE ~Supersedes(round, prop) \/ BowedOut(prop)
        BY <3>1 DEF PeerPosition
      <3>2. CASE Supersedes(round, prop) /\ ~BowedOut(prop)
        <4>1. prop.pos \in round.acquired \cup inbound
                => prop.pos \in q.acquired
          <5>1. ASSUME prop.pos \in round.acquired \cup inbound
                PROVE  prop.pos \in q.acquired
            <6> DEFINE a == [[round EXCEPT !.peerPositions =
                                Put(@, prop.peer, prop)]
                               EXCEPT !.acquired = @ \cup {prop.pos}]
            <6>1. q = AdjustCount(a, prop.pos, {prop.peer})
              BY <3>2, <5>1 DEF PeerPosition
            <6>2. HasFields(round)
              BY <2>1 DEF PeerVotes, PeersOK
            <6>3. HasFields(a) /\ prop.pos \in a.acquired
              BY <6>2 DEF HasFields
            <6> HIDE DEF a, q
            <6> QED BY <6>1, <6>3 DEF AdjustCount, HasFields
          <5> QED BY <5>1
        <4>2. prop.pos \in round.acquired \cup inbound
                <=> prop.pos \in round.acquired \cup in
          BY <1>1, <1>3, <4>1 DEF MapCompleteFirst
        <4> QED BY <3>2, <4>2 DEF PeerPosition
      <3> QED BY <3>1, <3>2
    <2>3. Current(q) /\ Known(q, in)
      <3> HIDE DEF in
      <3>1. Current(round) /\ Known(round, in)
        BY DEF TrackOK, Tracked, in
      <3> QED BY <2>1, <2>2, <3>1, PeerPositionOK
    <2> QED BY <1>1, <1>3, <2>3 DEF TrackOK, Tracked
  <1> QED BY <1>1, <1>2, <1>3

LEMMA TimerTrackOK ==
  ASSUME ConsensusInv, TrackOK, NEW counts, NEW validators, NEW ct,
         TimerEntry(counts, validators, ct)
  PROVE  TrackOK'
  <1>1. PICK lcl \in NetLedgers(round, counts) :
          LET m == Timer(Now, lcl, validators, ct)
              mine == IF m.r.ourPosition = NoPosition THEN {}
                      ELSE {m.r.ourPosition.pos} IN
          round' = m.r /\ inbound' = inbound \cup mine
    BY DEF TimerEntry
  <1> DEFINE m == Timer(Now, lcl, validators, ct)
             in == inbound \ gotSet
  <1>2. /\ round' = m.r /\ gotSet' = gotSet
        /\ inbound' = inbound \cup (IF m.r.ourPosition = NoPosition THEN {}
                                    ELSE {m.r.ourPosition.pos})
    BY <1>1 DEF TimerEntry
  <1>3. lcl \in Ledgers
    BY <1>1 DEF NetLedgers, ConsensusInv, RoundOK
  <1>4. Now.r = round /\ MoveOK(Now) /\ in \in SUBSET inbound
    BY DEF Now, MoveOK, ConsensusInv
  <1>5. MoveOK(m) /\ Tracked(m.r, in)
    <2> HIDE DEF in
    <2>1. Tracked(Now.r, in)
      BY <1>4 DEF TrackOK, in
    <2> QED BY <1>3, <1>4, <2>1, TimerOK DEF ConsensusInv, InputsOK
  <1> HIDE DEF m
  <1>6. m.r.ourPosition # NoPosition => m.r.ourPosition.pos \in m.r.acquired
    BY <1>5 DEF MoveOK, RoundOK, OursHeld
  <1>7. Known(m.r, inbound' \ gotSet)
    BY <1>2, <1>5, <1>6 DEF Tracked, Known
  <1> QED BY <1>2, <1>5, <1>7 DEF TrackOK, Tracked

LEMMA SetTrackOK ==
  ASSUME ConsensusInv, TrackOK, NEW s, GiveSet(s) \/ GotSet(s)
  PROVE  TrackOK'
  <1>1. CASE GiveSet(s)
    <2>1. /\ round' = round /\ inbound' = inbound \cup {s}
          /\ gotSet' = gotSet \cup {s}
      BY <1>1 DEF GiveSet
    <2> QED BY <2>1 DEF TrackOK, Tracked, Known
  <1>2. CASE GotSet(s)
    <2> DEFINE q == MapComplete(round, s)
    <2>1. round' = q /\ inbound' = inbound /\ gotSet' = gotSet \ {s}
      BY <1>2 DEF GotSet
    <2>2. /\ q.peerPositions = round.peerPositions
          /\ q.acquired = round.acquired \cup {s} /\ (Current(round) => Current(q))
      BY MapCompleteKeeps DEF ConsensusInv
    <2> HIDE DEF q
    <2>3. Current(q) /\ Known(q, inbound \ (gotSet \ {s}))
      BY <2>2 DEF TrackOK, Tracked, Known
    <2> QED BY <2>1, <2>3 DEF TrackOK, Tracked
  <1> QED BY <1>1, <1>2

LEMMA NextTrackOK ==
  ConsensusInv /\ TrackOK /\ [Next]_vars /\ [MapCompleteFirst]_vars => TrackOK'
  <1> SUFFICES ASSUME ConsensusInv, TrackOK, [Next]_vars, [MapCompleteFirst]_vars
               PROVE  TrackOK'
    OBVIOUS
  <1>1. CASE UNCHANGED vars
    BY <1>1 DEF vars, TrackOK
  <1>2. ASSUME NEW counts, NEW validators, NEW ct, TimerEntry(counts, validators, ct)
        PROVE  TrackOK'
    BY <1>2, TimerTrackOK
  <1>3. ASSUME NEW p \in Peers, NEW l \in Ledgers,
               NEW seq \in PeerSeqs \cup {SeqLeave}, NEW pos \in Positions,
               NEW ct \in CloseTimes,
               TrustedProposal([peer |-> p, prevLedger |-> l, seq |-> seq,
                                pos |-> pos, closeTime |-> ct, time |-> clock])
        PROVE  TrackOK'
    <2> DEFINE prop == [peer |-> p, prevLedger |-> l, seq |-> seq, pos |-> pos,
                        closeTime |-> ct, time |-> clock]
    <2>1. prop \in Proposal
      BY DEF Proposal, ConsensusInv, InputsOK
    <2> HIDE DEF prop
    <2>2. TrustedProposal(prop)
      BY <1>3 DEF prop
    <2>3. CASE MapCompleteFirst
      BY <2>1, <2>2, <2>3, ProposalTrackOK
    <2> QED BY <1>1, <2>3
  <1>4. ASSUME NEW s, GiveSet(s) \/ GotSet(s) PROVE TrackOK'
    BY <1>4, SetTrackOK
  <1>5. ASSUME NEW l, AcquireLedger(l) PROVE TrackOK'
    BY <1>5 DEF AcquireLedger, TrackOK
  <1>6. CASE AcceptStart \/ Tick
    BY <1>6 DEF AcceptStart, Tick, TrackOK
  <1>7. CASE AcceptBuild
    <2>1. RoundOK(round) /\ round.state = "finished"
      BY <1>7 DEF ConsensusInv, JobOK, AcceptBuild
    <2>2. /\ round' = [round EXCEPT !.state = "accepted"]
          /\ inbound' = inbound /\ gotSet' = gotSet
      BY <1>7 DEF AcceptBuild
    <2> QED BY <2>1, <2>2, StateMoved DEF TrackOK
  <1>8. CASE EndConsensus
    <2>1. RoundOK(round) /\ round.state = "accepted"
      BY <1>8 DEF ConsensusInv, EndConsensus
    <2>2. /\ round' = [round EXCEPT !.state = "ended"]
          /\ inbound' = inbound /\ gotSet' = gotSet
      BY <1>8 DEF EndConsensus
    <2> QED BY <2>1, <2>2, StateMoved DEF TrackOK
  <1> QED BY <1>1, <1>2, <1>3, <1>4, <1>5, <1>6, <1>7, <1>8 DEF Next

(* The race between giveSet and mapComplete is the only way to lose a vote:*)
(* in a round where no proposal overtakes mapComplete, a tracked peer is   *)
(* counted on every disputed transaction according to the set it proposes, *)
(* as mapCompleteInternal says.                                            *)
THEOREM PeerVotesCurrentUnlessRace ==
  Spec /\ [][MapCompleteFirst]_vars => []PeerVotesCurrent
  <1>1. TrackOK => PeerVotesCurrent
    BY DEF TrackOK, Tracked, Current, CurrentOn, PeerVotesCurrent
  <1> QED BY <1>1, InitTrackOK, NextTrackOK, ConsensusInvariant, PTL DEF Spec

(* haveConsensus may skip the sets it has compared: as long as we propose, *)
(* the differences to each of them are disputed, wherever our position has *)
(* moved since, on any number of ledgers.                                  *)
THEOREM DisputesCoverCorrect == Spec => []DisputesCoverDifferences
  <1>1. ConsensusInv => DisputesCoverDifferences
    BY DEF ConsensusInv, RoundOK, StillCovered, Covered, DisputesCoverDifferences
  <1> QED BY <1>1, ConsensusInvariant, PTL

(* A server that proposes is on the ledger it started from, and its        *)
(* broadcasts are ordered up to the number that changePosition cannot pass.*)
THEOREM ProposingInSyncCorrect ==
  Spec => [](Len(sent) =< SeqLeave => ProposingInSync)
  <1>1. ASSUME ConsensusInv, Len(sent) =< SeqLeave PROVE ProposingInSync
    <2>1. /\ round.proposing =>
               /\ round.haveCorrectLCL
               /\ round.previousLedger = round.prevLedgerHash
               /\ round.ourPosition # NoPosition =>
                    round.ourPosition.prevLedger = round.prevLedgerHash
          /\ validation # None /\ validation.full =>
               validation.parent = validation.network
      BY <1>1 DEF ConsensusInv, RoundOK, InSync, ValidationOK
    <2>2. ASSUME NEW i \in DOMAIN sent, NEW j \in DOMAIN sent, i < j
          PROVE  sent[i].seq < sent[j].seq
      <3>1. PICK S : sent \in Seq(S)
        BY <1>1 DEF ConsensusInv, SentOK, IsLog
      <3>2. Len(sent) \in Nat /\ DOMAIN sent = 1 .. Len(sent)
        BY <3>1
      <3>3. \A x \in 1 .. Len(sent) :
              \/ sent[x].seq = x - 1
              \/ x = Len(sent) /\ sent[x].seq = SeqLeave
        BY <1>1 DEF ConsensusInv, SentOK
      <3>4. i \in 1 .. Len(sent) /\ j \in 1 .. Len(sent) /\ i # Len(sent)
        BY <2>2, <3>2
      <3>5. sent[i].seq = i - 1 /\ (sent[j].seq = j - 1 \/ sent[j].seq = SeqLeave)
        BY <3>3, <3>4
      <3> QED BY <1>1, <2>2, <3>2, <3>4, <3>5, RoundAssumption
    <2> QED BY <2>1, <2>2 DEF ProposingInSync
  <1>2. ConsensusInv => (Len(sent) =< SeqLeave => ProposingInSync)
    BY <1>1
  <1> QED BY <1>2, ConsensusInvariant, PTL

(* accept() puts every disputed transaction that is not in the accepted    *)
(* set into the next open ledger, unless we have bowed out.                *)
THEOREM LosersRetriedCorrect == Spec => LosersRetried
  <1>1. ASSUME ConsensusInv, [Next]_vars PROVE [InConsensus(round) => RetriesLosers]_vars
    <2>1. SUFFICES ASSUME InConsensus(round), job.at = "started", job'.at = "built",
                          NEW t \in DOMAIN round.disputes, t \notin job.set
                   PROVE  t \in openTxs'
      BY DEF RetriesLosers
    <2>2. AcceptBuild
      <3>1. ~UNCHANGED job
        BY <2>1
      <3>2. round.state = "finished" /\ DOMAIN job = {"at", "set"}
        BY <1>1, <2>1 DEF ConsensusInv, JobOK
      <3>3. ASSUME NEW counts, NEW validators, NEW ct,
                   TimerEntry(counts, validators, ct)
            PROVE  FALSE
        BY <3>2, <3>3 DEF TimerEntry
      <3>4. ASSUME NEW prop, TrustedProposal(prop) PROVE FALSE
        BY <3>1, <3>4 DEF TrustedProposal
      <3>5. ASSUME NEW s, GiveSet(s) \/ GotSet(s) PROVE FALSE
        BY <3>1, <3>5 DEF GiveSet, GotSet
      <3>6. ASSUME NEW l, AcquireLedger(l) PROVE FALSE
        BY <3>1, <3>6 DEF AcquireLedger
      <3>7. ~AcceptStart
        BY <2>1 DEF AcceptStart
      <3>8. ~EndConsensus /\ ~Tick /\ ~UNCHANGED vars
        BY <3>1 DEF EndConsensus, Tick, vars
      <3> QED BY <1>1, <3>3, <3>4, <3>5, <3>6, <3>7, <3>8 DEF Next
    <2>3. t \notin round.ourPosition.pos
      BY <1>1, <2>1 DEF ConsensusInv, JobOK
    <2>4. ~round.disputes[t].ourVote
      BY <1>1, <2>1, <2>3 DEF ConsensusInv, RoundOK, OurVotes
    <2> QED BY <2>2, <2>4 DEF AcceptBuild, Retried
  <1> QED BY <1>1, ConsensusInvariant, PTL DEF Spec, LosersRetried

-----------------------------------------------------------------------------
(* The close time vote of updateOurPositions, for any tally, and the chain *)
(* of ledgers that is built on it (CloseTime).                             *)

(* t has most votes among the times T, and is the latest of those that do. *)
Leads(votes, T, t) ==
  \A u \in T : votes[u] < votes[t] \/ (votes[u] = votes[t] /\ u =< t)

(* What the loop of updateOurPositions has after the times T: need is the  *)
(* threshold it starts from, settled the one for consensus.                *)
Walked(votes, settled, need, T) ==
  IF \A t \in T : votes[t] < need
    THEN [closeTime |-> 0, consensus |-> FALSE, threshVote |-> need]
    ELSE LET best == CHOOSE t \in T : Leads(votes, T, t) IN
         [closeTime |-> best, consensus |-> votes[best] >= settled,
          threshVote |-> votes[best]]

LEMMA LeaderExists ==
  ASSUME NEW T \in SUBSET Nat, IsFiniteSet(T), T # {},
         NEW votes, \A t \in T : votes[t] \in Nat
  PROVE  \E t \in T : Leads(votes, T, t)
  <1> DEFINE X == {U \in SUBSET T : U # {} /\ ~ \E t \in U : Leads(votes, U, t)}
  <1>0. X \subseteq SUBSET T
    OBVIOUS
  <1>1. ASSUME X # {} PROVE FALSE
    <2> HIDE DEF X
    <2>1. PICK U \in X : \A x \in U : U \ {x} \notin X
      BY <1>0, <1>1, SmallestSet
    <2> USE DEF X
    <2>2. PICK u \in U : TRUE
      OBVIOUS
    <2>3. U \ {u} \notin X
      BY <2>1, <2>2
    <2>4. CASE U \ {u} = {}
      BY <2>2, <2>4 DEF Leads
    <2>5. CASE U \ {u} # {}
      <3>1. PICK t \in U \ {u} : Leads(votes, U \ {u}, t)
        BY <2>3, <2>5
      <3>2. t \in Nat /\ u \in Nat /\ \A y \in U : y \in Nat /\ votes[y] \in Nat
        OBVIOUS
      <3>3. CASE Leads(votes, {t}, u)
        BY <3>1, <3>2, <3>3 DEF Leads
      <3>4. CASE Leads(votes, {u}, t)
        BY <3>1, <3>2, <3>4 DEF Leads
      <3>5. QED
        BY <3>2, <3>3, <3>4 DEF Leads
    <2>6. QED
      BY <2>4, <2>5
  <1>2. QED
    BY <1>1

LEMMA LeaderUnique ==
  ASSUME NEW T \in SUBSET Nat, NEW votes, \A t \in T : votes[t] \in Nat,
         NEW t \in T, Leads(votes, T, t)
  PROVE  t = CHOOSE x \in T : Leads(votes, T, x)
  <1>1. \A x \in T : Leads(votes, T, x) => x = t
    BY DEF Leads
  <1>2. QED
    BY <1>1

(* One turn of the loop, on the latest of the times T. *)
LEMMA WalkedStep ==
  ASSUME NEW T \in SUBSET Nat, IsFiniteSet(T), T # {},
         NEW votes, \A t \in T : votes[t] \in Nat,
         NEW settled \in Nat, NEW need \in Nat
  PROVE  Walked(votes, settled, need, T) =
           closeTimeStep(votes, settled,
                         Walked(votes, settled, need, T \ {Max(T)}), Max(T))
  <1> DEFINE m == Max(T)
             R == T \ {m}
  <1>1. m \in T /\ \A y \in T : m >= y
    BY GreatestIsMax
  <1> HIDE DEF m
  <1>2. /\ m \in Nat /\ votes[m] \in Nat
        /\ \A y \in R : y \in Nat /\ m > y /\ votes[y] \in Nat
    BY <1>1
  <1>3. CASE \A t \in R : votes[t] < need
    <2>1. Walked(votes, settled, need, R) =
            [closeTime |-> 0, consensus |-> FALSE, threshVote |-> need]
      BY <1>3 DEF Walked
    <2>2. CASE votes[m] < need
      <3>1. \A t \in T : votes[t] < need
        BY <1>3, <2>2
      <3>2. ~ (votes[m] >= need)
        BY <1>2, <2>2
      <3>3. QED
        BY <2>1, <3>1, <3>2 DEF Walked, closeTimeStep, m
    <2>3. CASE votes[m] >= need
      <3>1. Leads(votes, T, m)
        BY <1>1, <1>2, <1>3, <2>3 DEF Leads
      <3>2. m = CHOOSE x \in T : Leads(votes, T, x)
        BY <1>1, <3>1, LeaderUnique
      <3>3. ~ \A t \in T : votes[t] < need
        BY <1>1, <1>2, <2>3
      <3>4. Walked(votes, settled, need, T) =
              [closeTime |-> m, consensus |-> votes[m] >= settled,
               threshVote |-> votes[m]]
        BY <3>2, <3>3 DEF Walked
      <3>5. QED
        BY <2>1, <2>3, <3>4 DEF closeTimeStep, m
    <2>4. QED
      BY <1>2, <2>2, <2>3
  <1>4. CASE ~ \A t \in R : votes[t] < need
    <2>1. R \in SUBSET Nat /\ IsFiniteSet(R) /\ R # {}
      BY <1>4, FS_RemoveElement
    <2>2. PICK b \in R : Leads(votes, R, b)
      BY <1>2, <2>1, LeaderExists
    <2>3. b = CHOOSE x \in R : Leads(votes, R, x)
      BY <1>2, <2>1, <2>2, LeaderUnique
    <2>4. Walked(votes, settled, need, R) =
            [closeTime |-> b, consensus |-> votes[b] >= settled,
             threshVote |-> votes[b]]
      BY <1>4, <2>3 DEF Walked
    <2>5. ~ \A t \in T : votes[t] < need
      BY <1>4
    <2>6. votes[b] \in Nat
      BY <1>2, <2>2
    <2>7. CASE votes[m] >= votes[b]
      <3>1. Leads(votes, T, m)
        BY <1>1, <1>2, <2>2, <2>7 DEF Leads
      <3>2. m = CHOOSE x \in T : Leads(votes, T, x)
        BY <1>1, <3>1, LeaderUnique
      <3>3. Walked(votes, settled, need, T) =
              [closeTime |-> m, consensus |-> votes[m] >= settled,
               threshVote |-> votes[m]]
        BY <2>5, <3>2 DEF Walked
      <3> DEFINE acc == Walked(votes, settled, need, R)
      <3>4. acc.threshVote = votes[b] /\ acc.consensus = (votes[b] >= settled)
        BY <2>4
      <3> HIDE DEF acc
      <3>5. closeTimeStep(votes, settled, acc, m) =
              [closeTime |-> m, threshVote |-> votes[m],
               consensus |-> acc.consensus \/ votes[m] >= settled]
        BY <2>7, <3>4 DEF closeTimeStep
      <3>6. (acc.consensus \/ votes[m] >= settled) = (votes[m] >= settled)
        <4>1. CASE votes[m] >= settled
          BY <1>2, <4>1
        <4>2. CASE ~ (votes[m] >= settled)
          <5>1. ~ (votes[b] >= settled)
            BY <1>2, <2>6, <2>7, <4>2
          <5>2. (votes[b] >= settled) = FALSE /\ (votes[m] >= settled) = FALSE
            BY <1>2, <2>6, <4>2, <5>1
          <5>3. acc.consensus = FALSE
            BY <3>4, <5>2
          <5>4. QED
            BY <5>2, <5>3
        <4>3. QED
          BY <4>1, <4>2
      <3>7. QED
        BY <3>3, <3>5, <3>6 DEF m, acc
    <2>8. CASE ~ (votes[m] >= votes[b])
      <3>1. Leads(votes, T, b)
        BY <1>1, <1>2, <2>2, <2>6, <2>8 DEF Leads
      <3>2. b = CHOOSE x \in T : Leads(votes, T, x)
        BY <2>2, <3>1, LeaderUnique
      <3>3. Walked(votes, settled, need, T) =
              [closeTime |-> b, consensus |-> votes[b] >= settled,
               threshVote |-> votes[b]]
        BY <2>5, <3>2 DEF Walked
      <3>4. QED
        BY <2>4, <2>8, <3>3 DEF closeTimeStep, m
    <2>9. QED
      BY <2>7, <2>8
  <1>5. QED
    BY <1>3, <1>4

(* The whole loop.  Walked is one function that satisfies the recursion of *)
(* the fold; a second one would differ first on some smallest set of       *)
(* times, and cannot.                                                      *)
LEMMA VoteWalks ==
  ASSUME NEW D \in SUBSET Nat, IsFiniteSet(D), NEW votes \in [D -> Nat],
         NEW settled \in Nat, NEW need \in Nat
  PROVE  MapThenFoldSet(LAMBDA t, acc : closeTimeStep(votes, settled, acc, t),
                        [closeTime |-> 0, consensus |-> FALSE,
                         threshVote |-> need],
                        LAMBDA t : t, Max, D)
         = Walked(votes, settled, need, D)
  <1> DEFINE start == [closeTime |-> 0, consensus |-> FALSE, threshVote |-> need]
             Walks(f) == f = [s \in SUBSET D |->
                                IF s = {} THEN start
                                ELSE closeTimeStep(votes, settled,
                                                   f[s \ {Max(s)}], Max(s))]
             w == [s \in SUBSET D |-> Walked(votes, settled, need, s)]
  <1>1. \A s \in SUBSET D : s # {} => Max(s) \in s
    <2> SUFFICES ASSUME NEW s \in SUBSET D, s # {} PROVE Max(s) \in s
      OBVIOUS
    <2>1. IsFiniteSet(s)
      BY FS_Subset
    <2>2. QED
      BY <2>1, GreatestIsMax
  <1>2. Walks(w)
    <2>1. Walked(votes, settled, need, {}) = start
      BY DEF Walked
    <2>2. ASSUME NEW s \in SUBSET D, s # {}
          PROVE  Walked(votes, settled, need, s) =
                   closeTimeStep(votes, settled, w[s \ {Max(s)}], Max(s))
      <3>1. IsFiniteSet(s) /\ \A t \in s : votes[t] \in Nat
        BY FS_Subset
      <3>2. s \ {Max(s)} \in SUBSET D
        OBVIOUS
      <3>3. QED
        BY <2>2, <3>1, <3>2, WalkedStep
    <2>3. QED
      BY <2>1, <2>2
  <1>3. ASSUME NEW f, Walks(f) PROVE f = w
    <2> DEFINE X == {s \in SUBSET D : f[s] # w[s]}
    <2>0. X \subseteq SUBSET D
      OBVIOUS
    <2>1. ASSUME X # {} PROVE FALSE
      <3> HIDE DEF X
      <3>1. PICK s \in X : \A x \in s : s \ {x} \notin X
        BY <2>0, <2>1, SmallestSet
      <3> USE DEF X
      <3>2. CASE s = {}
        BY <1>2, <1>3, <3>1, <3>2
      <3>3. CASE s # {}
        <4>1. s \ {Max(s)} \in SUBSET D /\ s \ {Max(s)} # s
          BY <1>1, <3>3
        <4>2. f[s \ {Max(s)}] = w[s \ {Max(s)}]
          BY <3>1, <4>1
        <4>3. /\ f[s] = closeTimeStep(votes, settled, f[s \ {Max(s)}], Max(s))
              /\ w[s] = closeTimeStep(votes, settled, w[s \ {Max(s)}], Max(s))
          BY <1>2, <1>3, <3>3
        <4>4. QED
          BY <3>1, <4>2, <4>3
      <3>4. QED
        BY <3>2, <3>3
    <2>2. \A s \in SUBSET D : f[s] = w[s]
      BY <2>1
    <2>3. QED
      BY <1>3, <2>2
  <1> HIDE DEF w
  <1>4. (CHOOSE f : Walks(f)) = w
    BY <1>2, <1>3
  <1>5. w[D] = Walked(votes, settled, need, D)
    BY DEF w
  <1>6. QED
    BY <1>4, <1>5 DEF MapThenFoldSet

LEMMA NeededType ==
  ASSUME NEW n \in Nat, NEW pct \in Nat
  PROVE  participantsNeeded(n, pct) \in Nat \ {0}
  <1> DEFINE votes == n * pct + pct \div 2
  <1>1. votes \in Nat
    <2>1. n * pct \in Nat
      OBVIOUS
    <2>2. pct \div 2 \in Nat
      OBVIOUS
    <2>3. QED
      BY <2>1, <2>2
  <1> HIDE DEF votes
  <1>2. votes \div 100 \in Nat
    BY <1>1
  <1>3. participantsNeeded(n, pct) =
          IF votes \div 100 = 0 THEN 1 ELSE votes \div 100
    BY DEF participantsNeeded, votes
  <1>4. QED
    BY <1>2, <1>3

LEMMA ThresholdType ==
  ASSUME NEW percentTime \in Int
  PROVE  AvalancheThreshold(percentTime) \in {50, 65, 70, 95}
  BY DEF AvalancheThreshold

(* closeTimeVote returns the leading time if it has the share that the     *)
(* stage asks for, and settles it with the share for consensus; otherwise  *)
(* zero, settled only if enough participants have no close time.           *)
LEMMA VoteOutcome ==
  ASSUME NEW D \in SUBSET Nat, IsFiniteSet(D), NEW votes \in [D -> Nat],
         NEW n \in Nat, NEW weight \in Nat
  PROVE  LET need == participantsNeeded(n, weight)
             settled == participantsNeeded(n, AvCtConsensusPct) IN
         \/ \E t \in D :
              /\ Leads(votes, D, t) /\ votes[t] >= need
              /\ closeTimeVote(votes, n, weight) =
                   [closeTime |-> t, consensus |-> votes[t] >= settled]
         \/ /\ \A t \in D : votes[t] < need
            /\ closeTimeVote(votes, n, weight) =
                 [closeTime |-> 0,
                  consensus |-> 0 \in D /\ votes[0] > settled]
  <1> DEFINE need == participantsNeeded(n, weight)
             settled == participantsNeeded(n, AvCtConsensusPct)
             end == Walked(votes, settled, need, D)
             zeros == IF 0 \in D THEN votes[0] ELSE 0
  <1>1. need \in Nat /\ settled \in Nat /\ settled # 0
    BY NeededType DEF AvCtConsensusPct
  <1>2. closeTimeVote(votes, n, weight) =
          IF ~end.consensus /\ zeros > settled
            THEN [closeTime |-> 0, consensus |-> TRUE]
            ELSE [closeTime |-> end.closeTime, consensus |-> end.consensus]
    <2>1. DOMAIN votes = D
      OBVIOUS
    <2> HIDE DEF need, settled
    <2>2. MapThenFoldSet(LAMBDA t, acc : closeTimeStep(votes, settled, acc, t),
                          [closeTime |-> 0, consensus |-> FALSE,
                           threshVote |-> need],
                          LAMBDA t : t, Max, D) = end
      BY <1>1, VoteWalks, Zenon
    <2> QED
      BY <2>1, <2>2, Zenon DEF closeTimeVote, need, settled
  <1> HIDE DEF need, settled
  <1>3. CASE \A t \in D : votes[t] < need
    <2>1. end.closeTime = 0 /\ end.consensus = FALSE
      BY <1>3 DEF Walked
    <2> HIDE DEF end
    <2>2. (zeros > settled) = (0 \in D /\ votes[0] > settled)
      <3>1. CASE 0 \in D
        BY <1>1, <3>1
      <3>2. CASE 0 \notin D
        <4>1. (zeros > settled) = FALSE
          BY <1>1, <3>2
        <4>2. QED
          BY <3>2, <4>1
      <3>3. QED
        BY <3>1, <3>2
    <2> HIDE DEF zeros
    <2>3. CASE zeros > settled
      BY <1>2, <1>3, <2>1, <2>2, <2>3 DEF need, settled
    <2>4. CASE ~ (zeros > settled)
      BY <1>2, <1>3, <2>1, <2>2, <2>4 DEF need, settled
    <2>5. QED
      BY <2>3, <2>4
  <1>4. CASE ~ \A t \in D : votes[t] < need
    <2>1. PICK t \in D : Leads(votes, D, t)
      BY <1>4, LeaderExists
    <2>2. t = CHOOSE x \in D : Leads(votes, D, x)
      BY <2>1, LeaderUnique
    <2>3. end = [closeTime |-> t, consensus |-> votes[t] >= settled,
                 threshVote |-> votes[t]]
      BY <1>4, <2>2 DEF Walked
    <2> HIDE DEF end
    <2>4. end.closeTime = t /\ end.consensus = (votes[t] >= settled)
      BY <2>3
    <2>5. votes[t] >= need
      BY <1>1, <1>4, <2>1 DEF Leads
    <2>6. zeros > settled => votes[t] >= settled
      BY <1>1, <2>1 DEF Leads
    <2> HIDE DEF zeros
    <2>7. closeTimeVote(votes, n, weight) =
            [closeTime |-> t, consensus |-> votes[t] >= settled]
      BY <1>2, <2>4, <2>6
    <2>8. QED
      BY <2>1, <2>5, <2>7 DEF need, settled
  <1>5. QED
    BY <1>3, <1>4

(* A settled close time leads with the share for consensus, or is the      *)
(* agreement to disagree.                                                  *)
LEMMA VoteSettled ==
  ASSUME NEW D \in SUBSET Nat, IsFiniteSet(D), NEW votes \in [D -> Nat],
         NEW n \in Nat, NEW weight \in Nat,
         closeTimeVote(votes, n, weight).consensus
  PROVE  LET settled == participantsNeeded(n, AvCtConsensusPct)
             v == closeTimeVote(votes, n, weight) IN
         \/ \E t \in D : /\ Leads(votes, D, t) /\ votes[t] >= settled
                         /\ v.closeTime = t
         \/ 0 \in D /\ votes[0] > settled /\ v.closeTime = 0
  <1> DEFINE need == participantsNeeded(n, weight)
             settled == participantsNeeded(n, AvCtConsensusPct)
             v == closeTimeVote(votes, n, weight)
  <1>1. \/ \E t \in D : /\ Leads(votes, D, t)
                        /\ v = [closeTime |-> t, consensus |-> votes[t] >= settled]
        \/ v = [closeTime |-> 0, consensus |-> 0 \in D /\ votes[0] > settled]
    BY VoteOutcome
  <1>2. settled \in Nat
    BY NeededType DEF AvCtConsensusPct
  <1> HIDE DEF settled, v
  <1>3. v.consensus
    BY DEF v
  <1>4. CASE \E t \in D : /\ Leads(votes, D, t)
                         /\ v = [closeTime |-> t, consensus |-> votes[t] >= settled]
    <2>1. PICK t \in D : /\ Leads(votes, D, t)
                         /\ v = [closeTime |-> t, consensus |-> votes[t] >= settled]
      BY <1>4
    <2>2. v.closeTime = t /\ (v.consensus <=> votes[t] >= settled)
      BY <1>2, <2>1
    <2>3. QED
      BY <1>3, <2>1, <2>2 DEF v, settled
  <1>5. CASE v = [closeTime |-> 0, consensus |-> 0 \in D /\ votes[0] > settled]
    <2>1. v.closeTime = 0 /\ (v.consensus <=> 0 \in D /\ votes[0] > settled)
      BY <1>2, <1>5
    <2>2. QED
      BY <1>3, <2>1 DEF v, settled
  <1>6. QED
    BY <1>1, <1>4, <1>5

LEMMA RemainderOfMultiple ==
  ASSUME NEW t \in Nat, NEW res \in Nat \ {0}, NEW h \in Nat, h < res
  PROVE  ((t - (t % res)) + h) % res = h
  <1> DEFINE q == t \div res
  <1>1. q \in Nat /\ t - (t % res) = res * q
    OBVIOUS
  <1> HIDE DEF q
  <1>2. (res * q + h) % res = h
    BY <1>1
  <1>3. QED
    BY <1>1, <1>2

(* Rounding gives a multiple of the resolution, so a second rounding does  *)
(* nothing, at most half a resolution away.                                *)
LEMMA RoundFacts ==
  ASSUME NEW c \in Nat, NEW res \in Nat \ {0}
  PROVE  /\ roundCloseTime(c, res) \in Nat
         /\ roundCloseTime(roundCloseTime(c, res), res) = roundCloseTime(c, res)
         /\ c # 0 => /\ 2 * (c - roundCloseTime(c, res)) =< res
                     /\ 2 * (roundCloseTime(c, res) - c) =< res
  <1>1. CASE c = 0
    BY <1>1 DEF roundCloseTime
  <1>2. CASE c # 0
    <2> DEFINE h == res \div 2
               t == c + h
               v == t - (t % res)
    <2>1. h \in Nat /\ h < res /\ 2 * h =< res /\ res - 1 =< 2 * h
      OBVIOUS
    <2> HIDE DEF h
    <2>2. t \in Nat
      BY <2>1
    <2>3. roundCloseTime(c, res) = v
      BY <1>2 DEF roundCloseTime, h
    <2> HIDE DEF t
    <2>4. t % res \in Nat /\ t % res < res /\ t % res =< t
      BY <2>2
    <2>5. (v + h) % res = h
      BY <2>1, <2>2, RemainderOfMultiple
    <2>6. v \in Nat
      BY <2>2, <2>4
    <2>7. 2 * (c - v) =< res /\ 2 * (v - c) =< res
      <3>1. c - v = (t % res) - h /\ v - c = h - (t % res)
        BY <2>1, <2>2, <2>4 DEF t
      <3>2. t % res =< res - 1
        BY <2>4
      <3> DEFINE x == t % res
      <3> HIDE DEF v, x
      <3>3. QED
        BY <2>1, <2>4, <3>1, <3>2 DEF x
    <2> HIDE DEF v
    <2>8. roundCloseTime(v, res) = v
      <3>1. CASE v = 0
        BY <3>1 DEF roundCloseTime
      <3>2. CASE v # 0
        <4>1. roundCloseTime(v, res) = (v + h) - ((v + h) % res)
          BY <3>2 DEF roundCloseTime, h
        <4>2. QED
          BY <2>1, <2>5, <2>6, <4>1
      <3>3. QED
        BY <3>1, <3>2
    <2>9. QED
      BY <2>3, <2>6, <2>7, <2>8
  <1>3. QED
    BY <1>1, <1>2

(* The share for consensus is at least half of the participants, and more  *)
(* than it is a majority.                                                  *)
LEMMA SettledShare ==
  ASSUME NEW n \in Nat, n # 0
  PROVE  /\ 2 * participantsNeeded(n, AvCtConsensusPct) >= n
         /\ 2 * (participantsNeeded(n, AvCtConsensusPct) + 1) > n
  <1>1. participantsNeeded(n, AvCtConsensusPct) =
          IF (n * 75 + 37) \div 100 = 0 THEN 1 ELSE (n * 75 + 37) \div 100
    BY DEF participantsNeeded, AvCtConsensusPct
  <1>2. QED
    BY <1>1

-----------------------------------------------------------------------------
LEMMA ResolutionsAre ==
  ToSet(PossibleTimeResolutions) = {10, 20, 30, 60, 90, 120}
  <1>1. DOMAIN PossibleTimeResolutions = 1 .. 6
    BY DEF PossibleTimeResolutions
  <1>2. \A i \in 1 .. 6 : i = 1 \/ i = 2 \/ i = 3 \/ i = 4 \/ i = 5 \/ i = 6
    OBVIOUS
  <1>3. QED
    BY <1>1, <1>2 DEF ToSet, PossibleTimeResolutions

(* A step along the table stays in it. *)
LEMMA NextResolution ==
  ASSUME NEW previous \in ToSet(PossibleTimeResolutions),
         NEW agree \in BOOLEAN, NEW seq \in Nat
  PROVE  getNextLedgerTimeResolution(previous, agree, seq)
           \in ToSet(PossibleTimeResolutions)
  <1> DEFINE i == SelectInSeq(PossibleTimeResolutions, LAMBDA x : x = previous)
             n == Len(PossibleTimeResolutions)
  <1>1. n = 6 /\ \A j \in 1 .. n :
          PossibleTimeResolutions[j] \in ToSet(PossibleTimeResolutions)
    BY DEF PossibleTimeResolutions, ToSet
  <1>2. i \in 0 .. n
    <2> DEFINE I == {j \in 1 .. n : PossibleTimeResolutions[j] = previous}
    <2>1. \A j, k \in I : j = k
      BY <1>1 DEF PossibleTimeResolutions
    <2>2. i = IF I # {} THEN Min(I) ELSE 0
      BY DEF SelectInSeq
    <2>3. I \subseteq 1 .. n
      OBVIOUS
    <2> HIDE DEF I, i, n
    <2>4. ASSUME NEW k \in I PROVE Min(I) \in I
      <3>1. k \in Int /\ \A y \in I : k =< y
        BY <1>1, <2>1, <2>3
      <3>2. QED
        BY <3>1 DEF Min
    <2>5. n = 6
      BY <1>1
    <2>6. CASE I = {}
      BY <2>2, <2>5, <2>6
    <2>7. CASE I # {}
      <3>1. Min(I) \in I
        BY <2>4, <2>7
      <3>2. i \in 1 .. n
        BY <2>2, <2>3, <2>7, <3>1
      <3>3. QED
        BY <2>5, <3>2
    <2>8. QED
      BY <2>6, <2>7
  <1>3. getNextLedgerTimeResolution(previous, agree, seq) =
          CASE i = 0 -> previous
            [] i # 0 /\ ~agree /\ seq % DecreaseResolutionEvery = 0 /\ i < n
                 -> PossibleTimeResolutions[i + 1]
            [] i # 0 /\ agree /\ seq % IncreaseResolutionEvery = 0 /\ i > 1
                 -> PossibleTimeResolutions[i - 1]
            [] OTHER -> previous
    BY DEF getNextLedgerTimeResolution
  <1> HIDE DEF i, n
  <1>4. QED
    BY <1>1, <1>2, <1>3

LEMMA ReportsGiven ==
  ASSUME ChainTypeOK, reports # NoReports
  PROVE  reports \in [Participants -> Nat]
  BY ReportsAssumption DEF ChainTypeOK

(* The tally counts each participant once. *)
LEMMA TallyFacts ==
  ASSUME ChainTypeOK, reports # NoReports
  PROVE  /\ DOMAIN Tally \in SUBSET Nat /\ IsFiniteSet(DOMAIN Tally)
         /\ DOMAIN Tally # {}
         /\ Tally \in [DOMAIN Tally -> Nat]
         /\ \A t \in DOMAIN Tally :
              /\ Tally[t] = Cardinality({p \in Participants :
                              roundCloseTime(reports[p], resolution) = t})
              /\ \E p \in Participants :
                   t = roundCloseTime(reports[p], resolution)
  <1> DEFINE rounded == [p \in Participants |->
                           roundCloseTime(reports[p], resolution)]
             D == {rounded[p] : p \in Participants}
  <1>1. reports \in [Participants -> Nat] /\ resolution \in Nat \ {0}
    BY ReportsGiven, ResolutionsAre DEF ChainTypeOK
  <1>2. \A p \in Participants : rounded[p] \in Nat
    BY <1>1, RoundFacts
  <1>3. Tally = [t \in D |-> Cardinality({p \in Participants : rounded[p] = t})]
    BY <1>1 DEF Tally
  <1>4. IsFiniteSet(D)
    <2>1. rounded \in Surjection(Participants, D)
      BY DEF Surjection
    <2>2. QED
      BY <2>1, ReportsAssumption, FS_Surjection
  <1>5. D \in SUBSET Nat /\ D # {}
    BY <1>2, ReportsAssumption
  <1>6. \A t : Cardinality({p \in Participants : rounded[p] = t}) \in Nat
    <2> TAKE t
    <2>1. IsFiniteSet({p \in Participants : rounded[p] = t})
      BY ReportsAssumption, FS_Subset
    <2>2. QED
      BY <2>1, FS_CardinalityType
  <1>7. \A t : {p \in Participants : rounded[p] = t} =
               {p \in Participants : roundCloseTime(reports[p], resolution) = t}
    OBVIOUS
  <1>8. \A t \in D : \E p \in Participants :
                     t = roundCloseTime(reports[p], resolution)
    OBVIOUS
  <1> HIDE DEF rounded, D
  <1>9. DOMAIN Tally = D /\ Tally \in [D -> Nat]
    BY <1>3, <1>6
  <1>10. \A t \in D : Tally[t] = Cardinality({p \in Participants : rounded[p] = t})
    BY <1>3
  <1>11. QED
    BY <1>4, <1>5, <1>7, <1>8, <1>9, <1>10

LEMMA ParticipantsCount == Cardinality(Participants) \in Nat \ {0}
  BY ReportsAssumption, FS_CardinalityType, FS_EmptySet

(* What the vote yields at any stage. *)
LEMMA ChoiceOutcome ==
  ASSUME ChainTypeOK, reports # NoReports, NEW stage \in Int
  PROVE  LET n == Cardinality(Participants)
             need == participantsNeeded(n, AvalancheThreshold(stage))
             settled == participantsNeeded(n, AvCtConsensusPct) IN
         \/ \E t \in DOMAIN Tally :
              /\ Leads(Tally, DOMAIN Tally, t) /\ Tally[t] >= need
              /\ Choice(stage) =
                   [closeTime |-> t, consensus |-> Tally[t] >= settled]
         \/ /\ \A t \in DOMAIN Tally : Tally[t] < need
            /\ Choice(stage) =
                 [closeTime |-> 0,
                  consensus |-> 0 \in DOMAIN Tally /\ Tally[0] > settled]
  <1>1. AvalancheThreshold(stage) \in Nat
    BY ThresholdType
  <1>2. QED
    BY <1>1, TallyFacts, ParticipantsCount, VoteOutcome DEF Choice

-----------------------------------------------------------------------------
LEMMA ChoiceSettled ==
  ASSUME ChainTypeOK, reports # NoReports, NEW stage \in Int,
         Choice(stage).consensus
  PROVE  LET settled == participantsNeeded(Cardinality(Participants),
                                           AvCtConsensusPct) IN
         \/ \E t \in DOMAIN Tally :
              /\ Leads(Tally, DOMAIN Tally, t) /\ Tally[t] >= settled
              /\ Choice(stage).closeTime = t
         \/ /\ 0 \in DOMAIN Tally /\ Tally[0] > settled
            /\ Choice(stage).closeTime = 0
  <1>1. AvalancheThreshold(stage) \in Nat
    BY ThresholdType
  <1>2. QED
    BY <1>1, TallyFacts, ParticipantsCount, VoteSettled DEF Choice

LEMMA LeaderHasMost ==
  ASSUME ChainTypeOK, reports # NoReports,
         NEW t \in DOMAIN Tally, Leads(Tally, DOMAIN Tally, t)
  PROVE  LET most == Max({Tally[u] : u \in DOMAIN Tally}) IN
         /\ most = Tally[t]
         /\ Max({u \in DOMAIN Tally : Tally[u] = most}) = t
  <1> DEFINE D == DOMAIN Tally
             C == {Tally[u] : u \in D}
             most == Max(C)
             L == {u \in D : Tally[u] = Tally[t]}
  <1>1. D \in SUBSET Nat /\ Tally \in [D -> Nat]
    BY TallyFacts
  <1>2. \A u \in D : Tally[u] < Tally[t] \/ (Tally[u] = Tally[t] /\ u =< t)
    BY DEF Leads
  <1> HIDE DEF D
  <1>3. t \in D
    BY DEF D
  <1>4. most = Tally[t]
    <2>1. Tally[t] \in C /\ \A y \in C : y \in Nat /\ Tally[t] >= y
      BY <1>1, <1>2, <1>3
    <2>2. \A x \in C : (\A y \in C : x >= y) => x = Tally[t]
      BY <2>1
    <2>3. QED
      BY <2>1, <2>2 DEF Max
  <1>5. Max(L) = t
    <2>1. t \in L /\ \A y \in L : y \in Nat /\ t >= y
      BY <1>1, <1>2, <1>3
    <2>2. \A x \in L : (\A y \in L : x >= y) => x = t
      BY <2>1
    <2>3. QED
      BY <2>1, <2>2 DEF Max
  <1>6. QED
    BY <1>4, <1>5 DEF D

LEMMA PluralityHolds == ChainTypeOK => VoteIsPlurality
  <1> SUFFICES ASSUME ChainTypeOK, reports # NoReports PROVE VoteIsPlurality
    BY DEF VoteIsPlurality
  <1> DEFINE D == DOMAIN Tally
             n == Cardinality(Participants)
             need == participantsNeeded(n, AvalancheThreshold(percent))
             settled == participantsNeeded(n, AvCtConsensusPct)
             most == Max({Tally[t] : t \in D})
             latest == Max({t \in D : Tally[t] = most})
             wins == most >= need
             disagreed == 0 \in D /\ Tally[0] > settled
  <1>1. percent \in Int
    BY DEF ChainTypeOK, Stages
  <1>2. need \in Nat /\ settled \in Nat
    <2>1. AvalancheThreshold(percent) \in Nat /\ AvCtConsensusPct \in Nat
      BY <1>1, ThresholdType DEF AvCtConsensusPct
    <2>2. n \in Nat
      BY ParticipantsCount
    <2>3. QED
      BY <2>1, <2>2, NeededType
  <1>3. D \in SUBSET Nat /\ IsFiniteSet(D) /\ D # {} /\ Tally \in [D -> Nat]
    BY TallyFacts
  <1>4. PICK t \in D : Leads(Tally, D, t)
    BY <1>3, LeaderExists
  <1>5. most = Tally[t] /\ latest = t
    BY <1>4, LeaderHasMost
  <1>6. \/ \E u \in D :
            /\ Leads(Tally, D, u) /\ Tally[u] >= need
            /\ Choice(percent) =
                 [closeTime |-> u, consensus |-> Tally[u] >= settled]
        \/ /\ \A u \in D : Tally[u] < need
           /\ Choice(percent) = [closeTime |-> 0, consensus |-> disagreed]
    BY <1>1, ChoiceOutcome
  <1>7. \A u \in D : Leads(Tally, D, u) => u = t
    BY <1>3, <1>4, LeaderUnique
  <1>8. Choice(percent) =
          [closeTime |-> IF wins THEN latest ELSE 0,
           consensus |-> (wins /\ most >= settled) \/ disagreed]
    <2>1. Tally[t] \in Nat /\ most \in Nat
      BY <1>3, <1>4, <1>5
    <2>2. disagreed => most >= settled
      BY <1>2, <1>3, <1>4, <1>5 DEF Leads
    <2> HIDE DEF D, need, settled, most, latest, disagreed
    <2>3. CASE wins
      <3>1. Choice(percent) = [closeTime |-> t, consensus |-> most >= settled]
        BY <1>2, <1>3, <1>4, <1>5, <1>6, <1>7, <2>1, <2>3
      <3>2. ((wins /\ most >= settled) \/ disagreed) = (most >= settled)
        <4>1. CASE most >= settled
          BY <1>2, <2>1, <2>3, <4>1
        <4>2. CASE ~ (most >= settled)
          <5>1. (most >= settled) = FALSE
            BY <1>2, <2>1, <4>2
          <5>2. QED
            BY <2>2, <4>2, <5>1
        <4>3. QED
          BY <4>1, <4>2
      <3> HIDE DEF wins
      <3>3. QED
        BY <1>5, <2>3, <3>1, <3>2
    <2>4. CASE ~ wins
      <3>1. Choice(percent) = [closeTime |-> 0, consensus |-> disagreed]
        BY <1>2, <1>3, <1>4, <1>5, <1>6, <1>7, <2>1, <2>4
      <3>2. ((wins /\ most >= settled) \/ disagreed) = disagreed
        BY <2>4 DEF disagreed
      <3> HIDE DEF wins
      <3>3. QED
        BY <2>4, <3>1, <3>2
    <2>5. QED
      BY <2>3, <2>4
  <1>9. QED
    BY <1>8 DEF VoteIsPlurality

LEMMA StagesHold == ChainTypeOK => StagesAgree
  <1> SUFFICES ASSUME ChainTypeOK, reports # NoReports,
                      NEW s \in Stages, NEW t \in Stages,
                      Choice(s).consensus, Choice(t).consensus
               PROVE  Choice(s).closeTime = Choice(t).closeTime
    BY DEF StagesAgree
  <1> DEFINE D == DOMAIN Tally
             n == Cardinality(Participants)
             settled == participantsNeeded(n, AvCtConsensusPct)
             Lead(c, u) == /\ Leads(Tally, D, u) /\ c.closeTime = u
             Zero(c) == /\ 0 \in D /\ Tally[0] > settled /\ c.closeTime = 0
  <1>1. /\ D \in SUBSET Nat /\ Tally \in [D -> Nat]
        /\ \A u \in D : Tally[u] = Cardinality({p \in Participants :
                             roundCloseTime(reports[p], resolution) = u})
    BY TallyFacts
  <1>2. n \in Nat \ {0} /\ settled \in Nat /\ 2 * (settled + 1) > n
    <2>1. n \in Nat \ {0} /\ AvCtConsensusPct \in Nat
      BY ParticipantsCount DEF AvCtConsensusPct
    <2> HIDE DEF n
    <2>2. QED
      BY <2>1, NeededType, SettledShare
  <1>3. ASSUME NEW stage \in Stages, Choice(stage).consensus
        PROVE  (\E u \in D : Lead(Choice(stage), u)) \/ Zero(Choice(stage))
    <2>1. stage \in Int
      BY DEF Stages
    <2>2. QED
      BY <1>3, <2>1, ChoiceSettled
  <1>4. ASSUME NEW u \in D, Leads(Tally, D, u), 0 \in D, Tally[0] > settled
        PROVE  u = 0
    <2> DEFINE P(v) == {p \in Participants :
                          roundCloseTime(reports[p], resolution) = v}
    <2>1. Tally[u] >= Tally[0] /\ Tally[u] \in Nat /\ Tally[0] \in Nat
      BY <1>1, <1>4 DEF Leads
    <2>2. Tally[u] = Cardinality(P(u)) /\ Tally[0] = Cardinality(P(0))
      BY <1>1, <1>4
    <2> HIDE DEF settled, n, D
    <2>3. Cardinality(P(u)) + Cardinality(P(0)) > n
      BY <1>2, <1>4, <2>1, <2>2
    <2>4. P(u) \cap P(0) # {}
      BY <2>3, ReportsAssumption, FS_MajoritiesIntersect DEF n
    <2>5. QED
      BY <2>4
  <1>5. \A u, v \in D : Leads(Tally, D, u) /\ Leads(Tally, D, v) => u = v
    BY <1>1 DEF Leads
  <1> HIDE DEF D, settled
  <1>6. QED
    BY <1>3, <1>4, <1>5

(* Accept stamps the ledger with an agreed time only if that is the        *)
(* leading time of the tally, with at least half of the participants.      *)
LEMMA StampNear ==
  ASSUME ChainTypeOK, Accept, ledger'.agree
  PROVE  LET near == {p \in Participants :
                        /\ 2 * (reports[p] - ledger'.closeTime) =< resolution
                        /\ 2 * (ledger'.closeTime - reports[p]) =< resolution}
         IN 2 * Cardinality(near) >= Cardinality(Participants)
  <1> DEFINE D == DOMAIN Tally
             n == Cardinality(Participants)
             settled == participantsNeeded(n, AvCtConsensusPct)
             stamp == Stamp(Choice(percent).closeTime)
             P(v) == {p \in Participants :
                        roundCloseTime(reports[p], resolution) = v}
  <1>1. /\ reports # NoReports /\ Choice(percent).consensus
        /\ ledger'.closeTime = stamp.closeTime /\ ledger'.agree = stamp.agree
    BY DEF Accept
  <1>2. /\ reports \in [Participants -> Nat] /\ resolution \in Nat \ {0}
        /\ percent \in Int
    BY <1>1, ReportsGiven, ResolutionsAre DEF ChainTypeOK, Stages
  <1>3. /\ D \in SUBSET Nat /\ Tally \in [D -> Nat]
        /\ \A t \in D : /\ Tally[t] = Cardinality(P(t))
                        /\ \E p \in Participants :
                             t = roundCloseTime(reports[p], resolution)
    BY <1>1, TallyFacts
  <1>4. n \in Nat /\ settled \in Nat /\ 2 * settled >= n
    <2>1. n \in Nat \ {0} /\ AvCtConsensusPct \in Nat
      BY ParticipantsCount DEF AvCtConsensusPct
    <2> HIDE DEF n
    <2>2. QED
      BY <2>1, NeededType, SettledShare
  <1>5. roundCloseTime(0, resolution) = 0
    BY DEF roundCloseTime
  <1> DEFINE c == Choice(percent).closeTime
  <1>6. c # 0
    BY <1>1, <1>5 DEF Stamp
  <1>7. c \in D /\ Tally[c] >= settled
    BY <1>1, <1>2, <1>6, ChoiceSettled
  <1>8. PICK q \in Participants : c = roundCloseTime(reports[q], resolution)
    BY <1>3, <1>7
  <1>9. roundCloseTime(c, resolution) = c
    BY <1>2, <1>8, RoundFacts
  <1>10. ledger'.closeTime = c
    BY <1>1, <1>6, <1>9 DEF Stamp
  <1> DEFINE near == {p \in Participants :
                        /\ 2 * (reports[p] - c) =< resolution
                        /\ 2 * (c - reports[p]) =< resolution}
  <1> HIDE DEF c
  <1>11. P(c) \subseteq near
    <2> SUFFICES ASSUME NEW p \in Participants,
                        roundCloseTime(reports[p], resolution) = c
                 PROVE  p \in near
      OBVIOUS
    <2>1. reports[p] \in Nat /\ reports[p] # 0
      BY <1>2, <1>5, <1>6
    <2>2. QED
      BY <1>2, <2>1, RoundFacts
  <1>12. /\ Cardinality(near) \in Nat
         /\ Cardinality(P(c)) \in Nat /\ Cardinality(P(c)) =< Cardinality(near)
    <2>1. IsFiniteSet(near)
      BY ReportsAssumption, FS_Subset
    <2>2. IsFiniteSet(P(c))
      BY ReportsAssumption, FS_Subset
    <2> HIDE DEF near, P
    <2>3. QED
      BY <1>11, <2>1, <2>2, FS_Subset, FS_CardinalityType
  <1>13. Tally[c] = Cardinality(P(c))
    BY <1>3, <1>7
  <1> HIDE DEF P, settled, D, near, n
  <1>14. 2 * Cardinality(near) >= n
    BY <1>4, <1>7, <1>12, <1>13
  <1>15. QED
    BY <1>10, <1>14 DEF near, n

LEMMA ChainTypeInit == ChainInit => ChainTypeOK
  <1> SUFFICES ASSUME ChainInit PROVE ChainTypeOK
    OBVIOUS
  <1>1. PICK i \in DOMAIN PossibleTimeResolutions, agree \in BOOLEAN :
          ledger = [seq |-> FirstSeq, closeTime |-> 0, agree |-> agree,
                    resolution |-> PossibleTimeResolutions[i]]
    BY DEF ChainInit
  <1>2. PossibleTimeResolutions[i] \in ToSet(PossibleTimeResolutions)
    BY DEF ToSet
  <1>3. ledger \in [seq: Nat, closeTime: Nat, agree: BOOLEAN,
                    resolution: ToSet(PossibleTimeResolutions)]
    BY <1>1, <1>2, ReportsAssumption
  <1>4. resolution \in ToSet(PossibleTimeResolutions)
    <2>1. /\ ledger.resolution \in ToSet(PossibleTimeResolutions)
          /\ ledger.agree \in BOOLEAN /\ ledger.seq + 1 \in Nat
      BY <1>3
    <2>2. QED
      BY <2>1, NextResolution DEF ChainInit
  <1>5. QED
    BY <1>3, <1>4 DEF ChainInit, ChainTypeOK, Stages

LEMMA ChoiceType ==
  ASSUME ChainTypeOK, reports # NoReports
  PROVE  Choice(percent).closeTime \in Nat
  <1>1. percent \in Int
    BY DEF ChainTypeOK, Stages
  <1>2. DOMAIN Tally \in SUBSET Nat
    BY TallyFacts
  <1>3. QED
    BY <1>1, <1>2, ChoiceOutcome

LEMMA ChainTypeNext == ChainTypeOK /\ [ChainNext]_chainVars => ChainTypeOK'
  <1> SUFFICES ASSUME ChainTypeOK, [ChainNext]_chainVars PROVE ChainTypeOK'
    OBVIOUS
  <1>1. CASE Report
    BY <1>1 DEF Report, ChainTypeOK
  <1>2. CASE Retry
    BY <1>2 DEF Retry, ChainTypeOK
  <1>3. CASE Accept
    <2> DEFINE stamp == Stamp(Choice(percent).closeTime)
               seq == ledger.seq + 1
    <2>1. /\ ledger' = [seq |-> seq, closeTime |-> stamp.closeTime,
                        agree |-> stamp.agree, resolution |-> resolution]
          /\ resolution' = getNextLedgerTimeResolution(resolution, stamp.agree,
                                                       seq + 1)
          /\ reports' = NoReports /\ percent' = percent
      BY <1>3 DEF Accept
    <2>2. seq \in Nat /\ ledger.closeTime \in Nat
      BY DEF ChainTypeOK
    <2>3. roundCloseTime(Choice(percent).closeTime, resolution) \in Nat
      <3>1. Choice(percent).closeTime \in Nat
        BY <1>3, ChoiceType DEF Accept
      <3>2. resolution \in Nat \ {0}
        BY ResolutionsAre DEF ChainTypeOK
      <3>3. QED
        BY <3>1, <3>2, RoundFacts
    <2>4. stamp.closeTime \in Nat /\ stamp.agree \in BOOLEAN
      BY <2>2, <2>3 DEF Stamp
    <2> HIDE DEF stamp
    <2>5. resolution' \in ToSet(PossibleTimeResolutions)
      BY <2>1, <2>2, <2>4, NextResolution DEF ChainTypeOK
    <2> HIDE DEF seq
    <2>6. QED
      BY <2>1, <2>2, <2>4, <2>5 DEF ChainTypeOK
  <1>4. CASE UNCHANGED chainVars
    BY <1>4 DEF chainVars, ChainTypeOK
  <1>5. QED
    BY <1>1, <1>2, <1>3, <1>4 DEF ChainNext

(* Whatever the history of agreement, the resolution never leaves the      *)
(* table that all servers share.                                           *)
THEOREM ChainTypeCorrect == ChainSpec => []ChainTypeOK
  BY ChainTypeInit, ChainTypeNext, PTL DEF ChainSpec

(* The loop with a moving threshold is a plurality vote. *)
THEOREM VoteCorrect == ChainSpec => []VoteIsPlurality
  BY ChainTypeCorrect, PluralityHolds, PTL

(* Servers at different stages that settle on a close time settle on the   *)
(* same one.                                                               *)
THEOREM StagesCorrect == ChainSpec => []StagesAgree
  BY ChainTypeCorrect, StagesHold, PTL

(* An agreed close time is near what half of the participants reported. *)
THEOREM StampCorrect == ChainSpec => StampNearReports
  <1> DEFINE Near == ledger' # ledger /\ ledger'.agree =>
         LET near == {p \in Participants :
                        /\ 2 * (reports[p] - ledger'.closeTime) =< resolution
                        /\ 2 * (ledger'.closeTime - reports[p]) =< resolution}
         IN 2 * Cardinality(near) >= Cardinality(Participants)
  <1>1. ChainTypeOK /\ [ChainNext]_chainVars => [Near]_chainVars
    <2> SUFFICES ASSUME ChainTypeOK, ChainNext, ledger' # ledger, ledger'.agree
                 PROVE  Near
      OBVIOUS
    <2>1. Accept
      BY DEF ChainNext, Report, Retry
    <2>2. QED
      BY <2>1, StampNear
  <1>2. QED
    BY <1>1, ChainTypeCorrect, PTL DEF ChainSpec, StampNearReports

-----------------------------------------------------------------------------
(* Type correctness, in the parts that different operators disturb.  The   *)
(* disputes are in VotesOK already.                                        *)
FlagsTyped(r) ==
  /\ r.state \in {"open", "establish", "finished", "accepted", "ended"}
  /\ r.prevLedgerHash \in Ledgers /\ r.previousLedger \in Ledgers
  /\ r.acquiringLedger \in Ledgers \cup {None}
  /\ r.haveCorrectLCL \in BOOLEAN /\ r.proposing \in BOOLEAN
  /\ r.validating \in BOOLEAN /\ r.consensusFail \in BOOLEAN
  /\ r.haveCloseTimeConsensus \in BOOLEAN
  /\ r.closeResolution = CloseResolutionOn(r.previousLedger)
  /\ r.startTime \in Clocks

PeersTyped(r) ==
  /\ \A p \in DOMAIN r.peerPositions :
       r.peerPositions[p] \in Proposal /\ r.peerPositions[p].peer = p
  /\ r.deadNodes \subseteq Peers

OursTyped(r) == r.ourPosition \in Mine \cup {NoPosition}

SetsTyped(r) ==
  /\ r.acquired \subseteq TxSets /\ r.compares \subseteq TxSets
  /\ r.wanted \subseteq TxSets
  /\ DOMAIN r.disputes \subseteq Txs

Typed(r) ==
  /\ HasFields(r) /\ FlagsTyped(r) /\ PeersTyped(r) /\ OursTyped(r)
  /\ SetsTyped(r)

(* What the operators on disputes and sets leave alone. *)
SameFlags(q, r) ==
  /\ q.state = r.state
  /\ q.prevLedgerHash = r.prevLedgerHash
  /\ q.previousLedger = r.previousLedger
  /\ q.acquiringLedger = r.acquiringLedger
  /\ q.haveCorrectLCL = r.haveCorrectLCL
  /\ q.proposing = r.proposing
  /\ q.validating = r.validating
  /\ q.consensusFail = r.consensusFail
  /\ q.haveCloseTimeConsensus = r.haveCloseTimeConsensus
  /\ q.closeResolution = r.closeResolution
  /\ q.startTime = r.startTime

Untouched(q, r) ==
  SameFlags(q, r) /\ SamePeers(q, r) /\ q.ourPosition = r.ourPosition

(* The constructor and handleLCL take a resolution of the table. *)
LEMMA ResolutionOn ==
  ASSUME NEW l \in Ledgers
  PROVE  CloseResolutionOn(l) \in ToSet(PossibleTimeResolutions)
  <1>1. /\ Info[l].resolution \in ToSet(PossibleTimeResolutions)
        /\ Info[l].agree \in BOOLEAN /\ Info[l].seq + 1 \in Nat
    BY RoundAssumption
  <1> QED BY <1>1, NextResolution DEF CloseResolutionOn

LEMMA ResolutionTyped ==
  ASSUME NEW r, FlagsTyped(r)
  PROVE  /\ r.closeResolution \in ToSet(PossibleTimeResolutions)
         /\ r.closeResolution \in Nat \ {0}
  <1>1. r.closeResolution \in ToSet(PossibleTimeResolutions)
    BY ResolutionOn DEF FlagsTyped
  <1> QED BY <1>1, ResolutionsAre

LEMMA SameTyped ==
  ASSUME NEW r, Typed(r), NEW q, HasFields(q), SetsTyped(q), Untouched(q, r)
  PROVE  Typed(q)
  BY DEF Typed, FlagsTyped, PeersTyped, OursTyped, SameFlags, SamePeers,
         Untouched

LEMMA AdjustCountTyped ==
  ASSUME NEW r, Typed(r), NEW s, NEW S
  PROVE  LET q == AdjustCount(r, s, S) IN
         Typed(q) /\ Untouched(q, r)
  <1> DEFINE q == AdjustCount(r, s, S)
  <1>1. /\ HasFields(q) /\ SameFlags(q, r) /\ SamePeers(q, r)
        /\ q.ourPosition = r.ourPosition
        /\ q.acquired = r.acquired /\ q.compares = r.compares
        /\ q.wanted = r.wanted /\ DOMAIN q.disputes = DOMAIN r.disputes
    BY DEF AdjustCount, Typed, HasFields, SameFlags, SamePeers
  <1> HIDE DEF q
  <1>2. SetsTyped(q)
    BY <1>1 DEF Typed, SetsTyped
  <1> QED BY <1>1, <1>2, SameTyped DEF Untouched, q

LEMMA CompareTyped ==
  ASSUME NEW r, Typed(r), r.ourPosition # NoPosition,
         NEW sets, sets \subseteq TxSets
  PROVE  LET q == Compare(r, sets) IN
         Typed(q) /\ Untouched(q, r)
  <1> DEFINE D == UNION {SymDiff(r.ourPosition.pos, s) : s \in sets}
             c == CreateDisputes(r, D)
             q == Compare(r, sets)
  <1>1. q = [c EXCEPT !.compares = @ \cup sets]
    BY DEF Compare
  <1>2. D \subseteq Txs
    <2>1. r.ourPosition.pos \subseteq Txs
      BY DEF Typed, OursTyped, Mine, TxSets
    <2>2. \A s \in sets : s \subseteq Txs
      BY DEF TxSets
    <2> QED BY <2>1, <2>2 DEF SymDiff
  <1> HIDE DEF D, q
  <1>3. /\ HasFields(c) /\ SameFlags(c, r) /\ SamePeers(c, r)
        /\ c.ourPosition = r.ourPosition
        /\ c.acquired = r.acquired /\ c.compares = r.compares
        /\ c.wanted = r.wanted
        /\ DOMAIN c.disputes = DOMAIN r.disputes \cup D
    BY DEF CreateDisputes, Typed, HasFields, SameFlags, SamePeers
  <1> HIDE DEF c
  <1>4. /\ HasFields(q) /\ SameFlags(q, c) /\ SamePeers(q, c)
        /\ q.ourPosition = c.ourPosition
        /\ q.acquired = c.acquired /\ q.compares = c.compares \cup sets
        /\ q.wanted = c.wanted /\ q.disputes = c.disputes
    BY <1>1, <1>3 DEF HasFields, SameFlags, SamePeers
  <1>5. SetsTyped(q)
    BY <1>2, <1>3, <1>4 DEF Typed, SetsTyped
  <1>6. Untouched(q, r)
    BY <1>3, <1>4 DEF SameFlags, SamePeers, Untouched
  <1> QED BY <1>4, <1>5, <1>6, SameTyped DEF q

LEMMA MapCompleteTyped ==
  ASSUME NEW r, Typed(r), NEW s \in TxSets
  PROVE  LET q == MapComplete(r, s) IN
         Typed(q) /\ Untouched(q, r)
  <1> DEFINE q == MapComplete(r, s)
             c == IF InConsensus(r) /\ s # r.ourPosition.pos
                    THEN Compare(r, {s}) ELSE r
             a == [c EXCEPT !.acquired = @ \cup {s}]
  <1>1. CASE s \in r.acquired
    <2>1. q = r
      BY <1>1 DEF MapComplete
    <2> QED BY <2>1 DEF SameFlags, SamePeers, Untouched
  <1>2. CASE s \notin r.acquired
    <2>1. q = AdjustCount(a, s, OnSet(c, s))
      BY <1>2 DEF MapComplete, Acquire
    <2>2. Typed(c) /\ Untouched(c, r)
      <3>1. CASE InConsensus(r) /\ s # r.ourPosition.pos
        <4>1. {s} \subseteq TxSets /\ r.ourPosition # NoPosition
          BY <3>1 DEF InConsensus
        <4> DEFINE one == {s}
        <4> HIDE DEF one
        <4>2. Typed(Compare(r, one)) /\ Untouched(Compare(r, one), r)
          BY <4>1, CompareTyped DEF one
        <4> QED BY <3>1, <4>2 DEF one
      <3>2. CASE ~ (InConsensus(r) /\ s # r.ourPosition.pos)
        BY <3>2 DEF SameFlags, SamePeers, Untouched
      <3> QED BY <3>1, <3>2
    <2> HIDE DEF c, q
    <2>3. /\ HasFields(a) /\ Untouched(a, c)
          /\ a.acquired = c.acquired \cup {s} /\ a.compares = c.compares
          /\ a.wanted = c.wanted /\ a.disputes = c.disputes
      BY <2>2 DEF Typed, HasFields, SameFlags, SamePeers, Untouched
    <2> HIDE DEF a
    <2>4. SetsTyped(a)
      BY <2>2, <2>3 DEF Typed, SetsTyped
    <2>5. Typed(a)
      BY <2>2, <2>3, <2>4, SameTyped
    <2>6. Typed(q) /\ Untouched(q, a)
      BY <2>1, <2>5, AdjustCountTyped
    <2> QED BY <2>2, <2>3, <2>6 DEF SameFlags, SamePeers, Untouched, q
  <1> QED BY <1>1, <1>2

LEMMA PositionsAreSets == \A prop \in Proposal : prop.pos \in TxSets
  BY RoundAssumption DEF Proposal, TxSets

LEMMA PeerPositionTyped ==
  ASSUME NEW r, Typed(r), NEW in, NEW prop \in Proposal
  PROVE  Typed(PeerPosition(r, in, prop))
  <1> DEFINE p == prop.peer
             q == PeerPosition(r, in, prop)
  <1>1. p \in Peers /\ prop.pos \in TxSets
    BY PositionsAreSets DEF Proposal
  <1>2. CASE ~Supersedes(r, prop)
    BY <1>2 DEF PeerPosition
  <1>3. CASE Supersedes(r, prop) /\ BowedOut(prop)
    <2> DEFINE u == UnVoteAll(r, {p})
    <2>1. q = [u EXCEPT !.peerPositions = Drop(@, {p}),
                        !.deadNodes = @ \cup {p}]
      BY <1>3 DEF PeerPosition
    <2> HIDE DEF q
    <2>2. /\ HasFields(u) /\ SameFlags(u, r) /\ SamePeers(u, r)
          /\ u.ourPosition = r.ourPosition
          /\ u.acquired = r.acquired /\ u.compares = r.compares
          /\ u.wanted = r.wanted /\ DOMAIN u.disputes = DOMAIN r.disputes
      BY DEF UnVoteAll, Typed, HasFields, SameFlags, SamePeers
    <2> HIDE DEF u
    <2>3. /\ HasFields(q) /\ SameFlags(q, u) /\ q.ourPosition = u.ourPosition
          /\ q.peerPositions = Drop(u.peerPositions, {p})
          /\ q.deadNodes = u.deadNodes \cup {p}
          /\ q.acquired = u.acquired /\ q.compares = u.compares
          /\ q.wanted = u.wanted /\ q.disputes = u.disputes
      BY <2>1, <2>2 DEF HasFields, SameFlags
    <2>4. FlagsTyped(q) /\ OursTyped(q) /\ SetsTyped(q)
      BY <2>2, <2>3 DEF Typed, FlagsTyped, OursTyped, SetsTyped, SameFlags
    <2>5. PeersTyped(q)
      BY <1>1, <2>2, <2>3 DEF Typed, PeersTyped, SamePeers, Drop, Restrict
    <2> QED BY <2>3, <2>4, <2>5 DEF Typed, q
  <1>4. CASE Supersedes(r, prop) /\ ~BowedOut(prop)
    <2> DEFINE taken == [r EXCEPT !.peerPositions = Put(@, p, prop)]
               a == [taken EXCEPT !.acquired = @ \cup {prop.pos}]
               w == [taken EXCEPT !.wanted = @ \cup {prop.pos}]
    <2>1. q = AdjustCount(a, prop.pos, {p}) \/ q = w
      BY <1>4 DEF PeerPosition
    <2> HIDE DEF q
    <2>2. /\ HasFields(taken) /\ SameFlags(taken, r)
          /\ taken.ourPosition = r.ourPosition
          /\ taken.peerPositions = Put(r.peerPositions, p, prop)
          /\ taken.deadNodes = r.deadNodes /\ taken.acquired = r.acquired
          /\ taken.compares = r.compares /\ taken.wanted = r.wanted
          /\ taken.disputes = r.disputes
      BY DEF Typed, HasFields, SameFlags
    <2> HIDE DEF taken
    <2>3. FlagsTyped(taken) /\ OursTyped(taken) /\ SetsTyped(taken)
      BY <2>2 DEF Typed, FlagsTyped, OursTyped, SetsTyped, SameFlags
    <2>4. PeersTyped(taken)
      BY <2>2 DEF Typed, PeersTyped, Put
    <2>5. Typed(taken)
      BY <2>2, <2>3, <2>4 DEF Typed
    <2>6. /\ HasFields(a) /\ SameFlags(a, taken) /\ SamePeers(a, taken)
          /\ a.ourPosition = taken.ourPosition
          /\ a.acquired = taken.acquired \cup {prop.pos}
          /\ a.compares = taken.compares
          /\ a.wanted = taken.wanted /\ a.disputes = taken.disputes
      BY <2>2 DEF HasFields, SameFlags, SamePeers
    <2>7. /\ HasFields(w) /\ SameFlags(w, taken) /\ SamePeers(w, taken)
          /\ w.ourPosition = taken.ourPosition
          /\ w.wanted = taken.wanted \cup {prop.pos}
          /\ w.compares = taken.compares
          /\ w.acquired = taken.acquired /\ w.disputes = taken.disputes
      BY <2>2 DEF HasFields, SameFlags, SamePeers
    <2> HIDE DEF a, w
    <2>8. SetsTyped(a) /\ SetsTyped(w)
      BY <1>1, <2>3, <2>6, <2>7 DEF SetsTyped
    <2>9. Typed(a) /\ Typed(w)
      BY <2>5, <2>6, <2>7, <2>8, SameTyped DEF Untouched
    <2>10. Typed(AdjustCount(a, prop.pos, {p}))
      BY <2>9, AdjustCountTyped
    <2> QED BY <2>1, <2>9, <2>10 DEF q
  <1> QED BY <1>2, <1>3, <1>4

(* A stored proposal is filed under the peer that made it. *)
Filed(props) ==
  \A p \in Peers : \A i \in DOMAIN props[p] : props[p][i].peer = p

LEMMA PlaybackTyped ==
  ASSUME NEW r, Typed(r), NEW in,
         NEW props \in [Peers -> Seq(Proposal)], Filed(props)
  PROVE  Typed(PlaybackProposals(r, in, props))
  <1> DEFINE played(p) == {i \in DOMAIN props[p] :
                             props[p][i].prevLedger = r.prevLedgerHash}
             taken(p) == {i \in played(p) :
                            /\ ~BowedOut(props[p][i])
                            /\ \A j \in played(p) : j < i =>
                                 /\ ~BowedOut(props[p][j])
                                 /\ props[p][j].seq < props[p][i].seq}
             dead == {p \in Peers : \E i \in played(p) : BowedOut(props[p][i])}
             sets == UNION {{props[p][i].pos : i \in taken(p)} : p \in Peers}
             kept == {x \in Peers \ dead : taken(x) # {}}
             last(p) == props[p][Max(taken(p))]
             q == PlaybackProposals(r, in, props)
  <1>1. q = [r EXCEPT !.peerPositions = [p \in kept |-> last(p)],
                      !.deadNodes = dead,
                      !.acquired = @ \cup (sets \cap in),
                      !.wanted = @ \cup (sets \ (r.acquired \cup in))]
    BY DEF PlaybackProposals
  <1>2. \A p \in Peers : \A i \in DOMAIN props[p] : props[p][i] \in Proposal
    OBVIOUS
  <1>3. sets \subseteq TxSets
    <2> SUFFICES ASSUME NEW p \in Peers, NEW i \in taken(p)
                 PROVE  props[p][i].pos \in TxSets
      OBVIOUS
    <2> QED BY <1>2, PositionsAreSets
  <1>4. ASSUME NEW p \in kept PROVE last(p) \in Proposal /\ last(p).peer = p
    <2>1. p \in Peers /\ taken(p) # {}
      OBVIOUS
    <2>2. Len(props[p]) \in Nat /\ DOMAIN props[p] = 1 .. Len(props[p])
      BY <2>1
    <2>3. taken(p) \in SUBSET (1 .. Len(props[p]))
      BY <2>2
    <2> HIDE DEF taken
    <2>4. Max(taken(p)) \in taken(p)
      <3>1. taken(p) \in SUBSET Int
        BY <2>2, <2>3
      <3>2. IsFiniteSet(1 .. Len(props[p]))
        BY <2>2, FS_Interval
      <3>3. IsFiniteSet(taken(p))
        BY <2>3, <3>2, FS_Subset
      <3> QED BY <2>1, <3>1, <3>3, GreatestIsMax
    <2>5. Max(taken(p)) \in DOMAIN props[p]
      BY <2>2, <2>3, <2>4
    <2> QED BY <1>2, <2>1, <2>5 DEF Filed
  <1>5. dead \subseteq Peers
    OBVIOUS
  <1> HIDE DEF q, kept, dead, sets, last
  <1>6. /\ HasFields(q) /\ SameFlags(q, r) /\ q.ourPosition = r.ourPosition
        /\ q.peerPositions = [p \in kept |-> last(p)] /\ q.deadNodes = dead
        /\ q.acquired = r.acquired \cup (sets \cap in)
        /\ q.wanted = r.wanted \cup (sets \ (r.acquired \cup in))
        /\ q.compares = r.compares /\ q.disputes = r.disputes
    BY <1>1 DEF Typed, HasFields, SameFlags
  <1>7. FlagsTyped(q) /\ OursTyped(q)
    BY <1>6 DEF Typed, FlagsTyped, OursTyped, SameFlags
  <1>8. PeersTyped(q)
    BY <1>4, <1>5, <1>6 DEF PeersTyped
  <1>9. SetsTyped(q)
    BY <1>3, <1>6 DEF Typed, SetsTyped
  <1> QED BY <1>6, <1>7, <1>8, <1>9 DEF Typed, q

MoveTyped(m) ==
  /\ DOMAIN m = {"r", "sent"} /\ Typed(m.r) /\ m.sent \in Seq(Mine)

LEMMA SwitchTyped ==
  ASSUME NEW m, MoveTyped(m), NEW in, NEW lcl \in Ledgers, clock \in Clocks,
         NEW props \in [Peers -> Seq(Proposal)], Filed(props)
  PROVE  MoveTyped(SwitchLCL(m, in, props, lcl))
  <1> DEFINE r == m.r
             bow == r.haveCorrectLCL /\ r.proposing /\ r.ourPosition # NoPosition
             b == IF bow THEN [r EXCEPT !.ourPosition = BowOut(@)] ELSE r
             f == ForgetRound(b, lcl)
             x == PlaybackProposals(f, in, props)
             log == IF bow THEN Propose(m.sent, b) ELSE m.sent
             q == SwitchLCL(m, in, props, lcl)
  <1>1. q = [r |-> x, sent |-> log]
    BY DEF SwitchLCL
  <1>2. Typed(r) /\ m.sent \in Seq(Mine)
    BY DEF MoveTyped
  <1>3. Typed(b) /\ log \in Seq(Mine)
    <2>1. CASE bow
      <3> DEFINE o == BowOut(r.ourPosition)
      <3>1. b = [r EXCEPT !.ourPosition = o] /\ log = Append(m.sent, b.ourPosition)
        BY <2>1 DEF Propose
      <3>2. o \in Mine
        BY <1>2, <2>1, RoundAssumption DEF Typed, OursTyped, Mine, BowOut
      <3> HIDE DEF o, b, log
      <3>3. /\ HasFields(b) /\ SameFlags(b, r) /\ SamePeers(b, r)
            /\ b.ourPosition = o
            /\ b.acquired = r.acquired /\ b.compares = r.compares
            /\ b.wanted = r.wanted /\ b.disputes = r.disputes
        BY <1>2, <3>1 DEF Typed, HasFields, SameFlags, SamePeers
      <3>4. FlagsTyped(b) /\ PeersTyped(b) /\ SetsTyped(b)
        BY <1>2, <3>3 DEF Typed, FlagsTyped, PeersTyped, SetsTyped, SameFlags,
                          SamePeers
      <3>5. OursTyped(b)
        BY <3>2, <3>3 DEF OursTyped
      <3>6. log \in Seq(Mine)
        BY <1>2, <3>1, <3>2, <3>3
      <3> QED BY <3>3, <3>4, <3>5, <3>6 DEF Typed
    <2>2. CASE ~bow
      BY <1>2, <2>2
    <2> QED BY <2>1, <2>2
  <1> HIDE DEF b, log, q
  <1>4. Typed(f)
    <2>1. /\ HasFields(f) /\ f.state = b.state /\ f.prevLedgerHash = lcl
          /\ f.previousLedger = b.previousLedger
          /\ f.acquiringLedger = b.acquiringLedger
          /\ f.haveCorrectLCL = b.haveCorrectLCL /\ f.proposing = FALSE
          /\ f.validating = b.validating /\ f.consensusFail = b.consensusFail
          /\ f.haveCloseTimeConsensus = b.haveCloseTimeConsensus
          /\ f.closeResolution = b.closeResolution
          /\ f.startTime = b.startTime /\ f.ourPosition = b.ourPosition
          /\ f.peerPositions = NoFun /\ f.deadNodes = {}
          /\ f.acquired = b.acquired /\ f.compares = b.compares
          /\ f.wanted = b.wanted /\ f.disputes = NoFun
      BY <1>3 DEF ForgetRound, Typed, HasFields
    <2> HIDE DEF f
    <2>2. DOMAIN f.peerPositions = {} /\ DOMAIN f.disputes = {}
      BY <2>1 DEF NoFun
    <2>3. FlagsTyped(f) /\ OursTyped(f)
      BY <1>3, <2>1 DEF Typed, FlagsTyped, OursTyped
    <2>4. PeersTyped(f)
      BY <2>1, <2>2 DEF PeersTyped
    <2>5. SetsTyped(f)
      BY <1>3, <2>1, <2>2 DEF Typed, SetsTyped
    <2> QED BY <2>1, <2>3, <2>4, <2>5 DEF Typed
  <1> HIDE DEF f
  <1>5. Typed(x)
    BY <1>4, PlaybackTyped
  <1> HIDE DEF x
  <1>6. DOMAIN q = {"r", "sent"} /\ q.r = x /\ q.sent = log
    BY <1>1
  <1> QED BY <1>3, <1>5, <1>6 DEF MoveTyped, q

LEMMA WorkFromLCLTyped ==
  ASSUME NEW r, Typed(r), NEW lcl \in Ledgers
  PROVE  Typed(WorkFromLCL(r, lcl))
  <1> DEFINE q == WorkFromLCL(r, lcl)
  <1>1. CASE q = r
    BY <1>1
  <1>2. CASE q # r
    <2> DEFINE c == CloseResolutionOn(lcl)
    <2>1. \/ q = [r EXCEPT !.previousLedger = lcl, !.haveCorrectLCL = TRUE,
                            !.closeResolution = c]
          \/ q = [r EXCEPT !.acquiringLedger = lcl, !.haveCorrectLCL = FALSE]
      BY <1>2 DEF WorkFromLCL
    <2> HIDE DEF q, c
    <2>2. /\ HasFields(q) /\ SamePeers(q, r) /\ q.ourPosition = r.ourPosition
          /\ q.acquired = r.acquired /\ q.compares = r.compares
          /\ q.wanted = r.wanted /\ q.disputes = r.disputes
      BY <2>1 DEF Typed, HasFields, SamePeers
    <2>3. FlagsTyped(q)
      <3>1. /\ q.state = r.state /\ q.prevLedgerHash = r.prevLedgerHash
            /\ \/ q.previousLedger = lcl /\ q.closeResolution = c
               \/ /\ q.previousLedger = r.previousLedger
                  /\ q.closeResolution = r.closeResolution
            /\ q.acquiringLedger \in {r.acquiringLedger, lcl}
            /\ q.haveCorrectLCL \in {TRUE, FALSE} /\ q.proposing = r.proposing
            /\ q.validating = r.validating /\ q.consensusFail = r.consensusFail
            /\ q.haveCloseTimeConsensus = r.haveCloseTimeConsensus
            /\ q.startTime = r.startTime
        BY <2>1 DEF Typed, HasFields
      <3>2. q.closeResolution = CloseResolutionOn(q.previousLedger)
        BY <3>1 DEF Typed, FlagsTyped, c
      <3> QED BY <3>1, <3>2 DEF Typed, FlagsTyped
    <2>4. PeersTyped(q) /\ OursTyped(q) /\ SetsTyped(q)
      BY <2>2 DEF Typed, PeersTyped, OursTyped, SetsTyped, SamePeers
    <2> QED BY <2>2, <2>3, <2>4 DEF Typed, q
  <1> QED BY <1>1, <1>2

LEMMA CheckLCLTyped ==
  ASSUME NEW m, MoveTyped(m), NEW lcl \in Ledgers, clock \in Clocks,
         stored \in [Peers -> Seq(Proposal)], Filed(stored)
  PROVE  MoveTyped(CheckLCL(m, lcl))
  <1> DEFINE q == CheckLCL(m, lcl)
             n == IF m.r.prevLedgerHash = lcl THEN m
                  ELSE SwitchLCL(m, inbound, stored, lcl)
             w == WorkFromLCL(n.r, lcl)
  <1>1. CASE q = m
    BY <1>1
  <1>2. CASE q = HandleLCL(m, lcl)
    <2>1. q = [n EXCEPT !.r = w]
      BY <1>2 DEF HandleLCL
    <2>2. MoveTyped(n)
      BY SwitchTyped
    <2> HIDE DEF n, q
    <2>3. Typed(n.r) /\ n.sent \in Seq(Mine) /\ DOMAIN n = {"r", "sent"}
      BY <2>2 DEF MoveTyped
    <2>4. Typed(w)
      BY <2>3, WorkFromLCLTyped
    <2> HIDE DEF w
    <2>5. DOMAIN q = {"r", "sent"} /\ q.r = w /\ q.sent = n.sent
      BY <2>1, <2>3
    <2> QED BY <2>3, <2>4, <2>5 DEF MoveTyped, q
  <1> QED BY <1>1, <1>2 DEF CheckLCL

LEMMA CloseLedgerTyped ==
  ASSUME NEW m, MoveTyped(m), NEW ct \in Nat, clock \in Clocks,
         openTxs \in TxSets
  PROVE  MoveTyped(CloseLedger(m, ct))
  <1> DEFINE c == MapComplete(m.r, openTxs)
             i == InitialPosition(c, ct)
             x == TakePosition(i)
             o == [prevLedger |-> OurLCL, seq |-> 0, pos |-> openTxs,
                   closeTime |-> ct, time |-> clock]
             log == IF m.r.proposing THEN Propose(m.sent, x) ELSE m.sent
             q == CloseLedger(m, ct)
  <1>1. q = [r |-> x, sent |-> log]
    BY DEF CloseLedger
  <1>2. Typed(m.r) /\ m.sent \in Seq(Mine)
    BY DEF MoveTyped
  <1>3. Typed(c)
    BY <1>2, MapCompleteTyped
  <1> HIDE DEF c, q
  <1>4. o \in Mine /\ o # NoPosition
    BY RoundAssumption DEF Mine, NoPosition
  <1>5. /\ HasFields(i) /\ SamePeers(i, c) /\ i.state = "establish"
        /\ i.prevLedgerHash = c.prevLedgerHash
        /\ i.previousLedger = c.previousLedger
        /\ i.acquiringLedger = c.acquiringLedger
        /\ i.haveCorrectLCL = c.haveCorrectLCL /\ i.proposing = c.proposing
        /\ i.validating = c.validating /\ i.consensusFail = c.consensusFail
        /\ i.haveCloseTimeConsensus = c.haveCloseTimeConsensus
        /\ i.closeResolution = c.closeResolution
        /\ i.startTime = clock /\ i.ourPosition = o
        /\ i.acquired = c.acquired /\ i.compares = c.compares
        /\ i.wanted = c.wanted /\ DOMAIN i.disputes = DOMAIN c.disputes
    BY <1>3 DEF InitialPosition, Typed, HasFields, SamePeers
  <1> HIDE DEF i, o
  <1>6. Typed(i)
    <2>1. FlagsTyped(i)
      BY <1>3, <1>5 DEF Typed, FlagsTyped
    <2>2. PeersTyped(i) /\ OursTyped(i) /\ SetsTyped(i)
      BY <1>3, <1>4, <1>5 DEF Typed, PeersTyped, OursTyped, SetsTyped, SamePeers
    <2> QED BY <1>5, <2>1, <2>2 DEF Typed
  <1>7. Typed(x) /\ Untouched(x, i)
    <2> DEFINE sets == PeerSets(i) \cap i.acquired
    <2>1. sets \subseteq TxSets
      BY <1>6 DEF Typed, SetsTyped
    <2> HIDE DEF sets
    <2>2. x = Compare(i, sets)
      BY DEF TakePosition, sets
    <2> QED BY <1>4, <1>5, <1>6, <2>1, <2>2, CompareTyped
  <1> HIDE DEF x
  <1>8. log \in Seq(Mine)
    <2>1. x.ourPosition \in Mine
      BY <1>4, <1>5, <1>7 DEF Untouched
    <2> QED BY <1>2, <2>1 DEF Propose
  <1> HIDE DEF log
  <1>9. DOMAIN q = {"r", "sent"} /\ q.r = x /\ q.sent = log
    BY <1>1
  <1> QED BY <1>7, <1>8, <1>9 DEF MoveTyped, q

LEMMA DropStaleTyped ==
  ASSUME NEW r, Typed(r)
  PROVE  LET q == DropStale(r) IN
         /\ Typed(q) /\ SameFlags(q, r) /\ q.ourPosition = r.ourPosition
         /\ DOMAIN q.peerPositions \subseteq DOMAIN r.peerPositions
  <1> DEFINE stale == {p \in DOMAIN r.peerPositions :
                         clock - r.peerPositions[p].time >= ProposeFreshness}
             u == UnVoteAll(r, stale)
             q == DropStale(r)
  <1>1. q = [u EXCEPT !.peerPositions = Drop(@, stale)]
    BY DEF DropStale
  <1> HIDE DEF q, stale
  <1>2. /\ HasFields(u) /\ Untouched(u, r)
        /\ u.acquired = r.acquired /\ u.compares = r.compares
        /\ u.wanted = r.wanted /\ DOMAIN u.disputes = DOMAIN r.disputes
    BY DEF UnVoteAll, Typed, HasFields, SameFlags, SamePeers, Untouched
  <1> HIDE DEF u
  <1>3. /\ HasFields(q) /\ SameFlags(q, u) /\ q.ourPosition = u.ourPosition
        /\ q.peerPositions = Drop(u.peerPositions, stale)
        /\ q.deadNodes = u.deadNodes
        /\ q.acquired = u.acquired /\ q.compares = u.compares
        /\ q.wanted = u.wanted /\ q.disputes = u.disputes
    BY <1>1, <1>2 DEF HasFields, SameFlags
  <1>4. SameFlags(q, r) /\ q.ourPosition = r.ourPosition
    BY <1>2, <1>3 DEF SameFlags, Untouched
  <1>5. FlagsTyped(q) /\ OursTyped(q)
    BY <1>4 DEF Typed, FlagsTyped, OursTyped, SameFlags
  <1>6. SetsTyped(q)
    BY <1>2, <1>3 DEF Typed, SetsTyped
  <1>7. PeersTyped(q) /\ DOMAIN q.peerPositions \subseteq DOMAIN r.peerPositions
    BY <1>2, <1>3 DEF Typed, PeersTyped, SamePeers, Untouched, Drop, Restrict
  <1> QED BY <1>3, <1>4, <1>5, <1>6, <1>7 DEF Typed, q

LEMMA UpdateVotesTyped ==
  ASSUME NEW r, Typed(r)
  PROVE  LET q == UpdateVotes(r) IN
         /\ Typed(q) /\ Untouched(q, r)
         /\ DOMAIN q.disputes = DOMAIN r.disputes
  <1> DEFINE q == UpdateVotes(r)
  <1>1. /\ HasFields(q) /\ Untouched(q, r)
        /\ q.acquired = r.acquired /\ q.compares = r.compares
        /\ q.wanted = r.wanted /\ DOMAIN q.disputes = DOMAIN r.disputes
    BY DEF UpdateVotes, Typed, HasFields, SameFlags, SamePeers, Untouched
  <1> HIDE DEF q
  <1>2. SetsTyped(q)
    BY <1>1 DEF Typed, SetsTyped
  <1> QED BY <1>1, <1>2, SameTyped DEF q

-----------------------------------------------------------------------------
(* The close time vote of the round. *)

RoundedTime(r, pos) == roundCloseTime(pos.closeTime, r.closeResolution)
Behind(r, t) ==
  {p \in DOMAIN r.peerPositions : RoundedTime(r, r.peerPositions[p]) = t}
Us(r) == IF r.proposing THEN 1 ELSE 0

(* At least half of the participants stand behind the time t. *)
HalfBehind(r, t) ==
  2 * (Cardinality(Behind(r, t)) + Us(r))
    >= Cardinality(DOMAIN r.peerPositions) + Us(r)

LEMMA BehindCount ==
  ASSUME NEW r, DOMAIN r.peerPositions \subseteq Peers, NEW t
  PROVE  /\ IsFiniteSet(DOMAIN r.peerPositions)
         /\ Cardinality(DOMAIN r.peerPositions) \in Nat
         /\ Cardinality(Behind(r, t)) \in Nat
         /\ Us(r) \in {0, 1}
  <1>1. IsFiniteSet(DOMAIN r.peerPositions)
    BY RoundAssumption, FS_Subset
  <1>2. IsFiniteSet(Behind(r, t))
    BY <1>1, FS_Subset DEF Behind
  <1> QED BY <1>1, <1>2, FS_CardinalityType DEF Us

(* The tally of a round is over rounded times, and no time has more votes  *)
(* than the peers behind it and ourselves.                                 *)
LEMMA CloseVotesFacts ==
  ASSUME NEW r, Typed(r), DOMAIN r.peerPositions \subseteq Peers,
         r.ourPosition # NoPosition
  PROVE  LET D == DOMAIN CloseVotes(r) IN
         /\ D \in SUBSET Nat /\ IsFiniteSet(D) /\ CloseVotes(r) \in [D -> Nat]
         /\ \A t \in D : /\ roundCloseTime(t, r.closeResolution) = t
                         /\ CloseVotes(r)[t] =< Cardinality(Behind(r, t)) + Us(r)
  <1> DEFINE P == DOMAIN r.peerPositions
             theirs == [p \in P |-> RoundedTime(r, r.peerPositions[p])]
             ours == RoundedTime(r, r.ourPosition)
             them == {theirs[p] : p \in P}
             us == IF r.proposing THEN {ours} ELSE {}
             times == them \cup us
             extra(t) == IF r.proposing /\ t = ours THEN 1 ELSE 0
  <1>1. /\ DOMAIN theirs = P /\ Range(theirs) = them
        /\ \A t : {p \in P : theirs[p] = t} = Behind(r, t)
    BY DEF Range, Behind
  <1>2. CloseVotes(r) =
          [t \in times |-> Cardinality(Behind(r, t)) + extra(t)]
    BY <1>1 DEF CloseVotes, RoundedTime
  <1>3. /\ r.closeResolution \in Nat \ {0} /\ r.ourPosition.closeTime \in Nat
        /\ \A p \in P : r.peerPositions[p].closeTime \in Nat
    <2>1. r.closeResolution \in Nat \ {0}
      BY ResolutionTyped DEF Typed
    <2> QED BY <2>1, RoundAssumption
            DEF Typed, PeersTyped, OursTyped, Mine, Proposal
  <1>4. /\ ours \in Nat /\ roundCloseTime(ours, r.closeResolution) = ours
        /\ \A p \in P : /\ theirs[p] \in Nat
                        /\ roundCloseTime(theirs[p], r.closeResolution) = theirs[p]
    BY <1>3, RoundFacts DEF RoundedTime
  <1> HIDE DEF ours, theirs
  <1>5. times \in SUBSET Nat /\ \A t \in times : roundCloseTime(t, r.closeResolution) = t
    BY <1>4
  <1>6. IsFiniteSet(times)
    <2>1. IsFiniteSet(P)
      BY BehindCount
    <2> HIDE DEF P
    <2>2. IsFiniteSet(them)
      <3>1. theirs \in Surjection(P, them)
        BY DEF theirs, Surjection
      <3> QED BY <2>1, <3>1, FS_Surjection
    <2>3. IsFiniteSet(us)
      BY FS_EmptySet, FS_Singleton
    <2> HIDE DEF them, us
    <2> QED BY <2>2, <2>3, FS_Union
  <1> HIDE DEF times
  <1>7. \A t : /\ Cardinality(Behind(r, t)) \in Nat
               /\ extra(t) \in Nat /\ Us(r) \in Nat /\ extra(t) =< Us(r)
    BY BehindCount DEF Us
  <1>8. DOMAIN CloseVotes(r) = times
    BY <1>2
  <1> HIDE DEF extra
  <1>9. \A t \in times : CloseVotes(r)[t] = Cardinality(Behind(r, t)) + extra(t)
    BY <1>2
  <1>10. CloseVotes(r) \in [times -> Nat]
    BY <1>2, <1>7
  <1> QED BY <1>5, <1>6, <1>7, <1>8, <1>9, <1>10

(* The choice is a rounded time, and a settled one has half of the         *)
(* participants behind it.                                                 *)
LEMMA ChoiceFacts ==
  ASSUME NEW r, Typed(r), DOMAIN r.peerPositions \subseteq Peers,
         r.ourPosition # NoPosition, clock \in Clocks
  PROVE  LET c == CloseTimeChoice(r) IN
         /\ c.closeTime \in Nat /\ c.consensus \in BOOLEAN
         /\ roundCloseTime(c.closeTime, r.closeResolution) = c.closeTime
         /\ c.consensus => HalfBehind(r, c.closeTime)
  <1> DEFINE c == CloseTimeChoice(r)
             P == DOMAIN r.peerPositions
  <1>1. r.closeResolution \in Nat \ {0} /\ r.ourPosition.closeTime \in Nat
    <2>1. r.closeResolution \in Nat \ {0}
      BY ResolutionTyped DEF Typed
    <2> QED BY <2>1, RoundAssumption DEF Typed, OursTyped, Mine
  <1>2. CASE P = {}
    <2>1. /\ c.closeTime = roundCloseTime(r.ourPosition.closeTime, r.closeResolution)
          /\ c.consensus = TRUE
      BY <1>2 DEF CloseTimeChoice
    <2>2. /\ c.closeTime \in Nat
          /\ roundCloseTime(c.closeTime, r.closeResolution) = c.closeTime
      BY <1>1, <2>1, RoundFacts
    <2>3. HalfBehind(r, c.closeTime)
      <3>1. Cardinality(P) = 0
        BY <1>2, FS_EmptySet
      <3> QED BY <3>1, BehindCount DEF HalfBehind
    <2> QED BY <2>1, <2>2, <2>3
  <1>3. CASE P # {}
    <2> DEFINE votes == CloseVotes(r)
               D == DOMAIN votes
               n == Cardinality(P) + Us(r)
               weight == AvalancheThreshold(ClosePercent(r))
               settled == participantsNeeded(n, AvCtConsensusPct)
    <2>1. c = closeTimeVote(votes, n, weight)
      BY <1>3 DEF CloseTimeChoice, Us
    <2>2. n \in Nat \ {0}
      <3>1. IsFiniteSet(P) /\ Cardinality(P) \in Nat /\ Us(r) \in {0, 1}
        BY BehindCount
      <3>2. Cardinality(P) # 0
        BY <1>3, <3>1, FS_EmptySet
      <3> HIDE DEF P
      <3> QED BY <3>1, <3>2
    <2>3. weight \in Nat
      <3>1. /\ clock \in Int /\ r.startTime \in Int
            /\ PreviousMSeconds \in Nat \ {0}
        <4>1. Clocks \subseteq Nat /\ PreviousMSeconds \in Nat \ {0}
          BY RoundAssumption
        <4>2. r.startTime \in Clocks
          BY DEF Typed, FlagsTyped
        <4>3. clock \in Nat /\ r.startTime \in Nat
          BY <4>1, <4>2
        <4> QED BY <4>1, <4>3
      <3>2. (clock - r.startTime) * 100 \in Int
        BY <3>1
      <3>3. ClosePercent(r) \in Int
        BY <3>1, <3>2 DEF ClosePercent
      <3> QED BY <3>3, ThresholdType
    <2>4. /\ D \in SUBSET Nat /\ IsFiniteSet(D) /\ votes \in [D -> Nat]
          /\ \A t \in D : /\ roundCloseTime(t, r.closeResolution) = t
                          /\ votes[t] =< Cardinality(Behind(r, t)) + Us(r)
      BY CloseVotesFacts
    <2>5. settled \in Nat /\ 2 * settled >= n
      <3>1. AvCtConsensusPct \in Nat
        BY DEF AvCtConsensusPct
      <3> HIDE DEF n
      <3> QED BY <2>2, <3>1, NeededType, SettledShare
    <2> HIDE DEF c, votes, n, weight, settled
    <2>6. \/ \E t \in D : c = [closeTime |-> t, consensus |-> votes[t] >= settled]
          \/ c = [closeTime |-> 0, consensus |-> 0 \in D /\ votes[0] > settled]
      BY <2>1, <2>2, <2>3, <2>4, VoteOutcome DEF settled
    <2>7. roundCloseTime(0, r.closeResolution) = 0
      BY DEF roundCloseTime
    <2>8. \A t \in D : votes[t] \in Nat /\ (votes[t] >= settled) \in BOOLEAN
                       /\ (votes[t] > settled) \in BOOLEAN
      BY <2>4, <2>5
    <2>9. c.closeTime \in Nat /\ roundCloseTime(c.closeTime, r.closeResolution) = c.closeTime
      BY <2>4, <2>6, <2>7
    <2>10. c.consensus \in BOOLEAN
      <3> DEFINE zeros == 0 \in D /\ votes[0] > settled
      <3>1. zeros \in BOOLEAN
        OBVIOUS
      <3>2. c.consensus = zeros \/ \E t \in D : c.consensus = (votes[t] >= settled)
        BY <2>6
      <3> HIDE DEF zeros
      <3> QED BY <2>8, <3>1, <3>2
    <2>11. ASSUME c.consensus PROVE HalfBehind(r, c.closeTime)
      <3>1. closeTimeVote(votes, n, weight).consensus
        BY <2>1, <2>11
      <3>2. \/ \E t \in D : votes[t] >= settled /\ c.closeTime = t
            \/ 0 \in D /\ votes[0] > settled /\ c.closeTime = 0
        BY <2>1, <2>2, <2>3, <2>4, <3>1, VoteSettled DEF settled
      <3>3. c.closeTime \in D /\ votes[c.closeTime] >= settled
        BY <2>4, <2>5, <2>8, <3>2
      <3> DEFINE b == Cardinality(Behind(r, c.closeTime))
      <3>4. b \in Nat /\ Us(r) \in Nat /\ Cardinality(P) \in Nat
        BY BehindCount
      <3>5. votes[c.closeTime] =< b + Us(r) /\ votes[c.closeTime] \in Nat
        BY <2>4, <2>8, <3>3
      <3> HIDE DEF b, P
      <3>6. 2 * (b + Us(r)) >= n
        BY <2>2, <2>5, <3>3, <3>4, <3>5
      <3> QED BY <3>6 DEF HalfBehind, b, n, P
    <2> QED BY <2>9, <2>10, <2>11 DEF c
  <1> QED BY <1>2, <1>3

(* LedgerProposal::changePosition. *)
Moved(a, s, ct) ==
  [a EXCEPT !.pos = s, !.closeTime = ct, !.time = clock, !.seq = @ + 1]

LEMMA MovedMine ==
  ASSUME NEW a \in Mine, NEW s \in TxSets, NEW ct \in Nat, clock \in Clocks
  PROVE  Moved(a, s, ct) \in Mine /\ Moved(a, s, ct).closeTime = ct
  <1> DEFINE n == a.seq + 1
  <1>1. n \in Nat
    BY DEF Mine
  <1>2. Moved(a, s, ct) = [a EXCEPT !.pos = s, !.closeTime = ct,
                                    !.time = clock, !.seq = n]
    BY DEF Moved
  <1> HIDE DEF n
  <1>3. Moved(a, s, ct) \in Mine
    BY <1>1, <1>2 DEF Mine
  <1>4. Moved(a, s, ct).closeTime = ct
    BY <1>2 DEF Mine
  <1> QED BY <1>3, <1>4

(* updateOurPositions takes over the outcome of this very vote, and leaves *)
(* us on the time it chose unless we have bowed out.                       *)
LEMMA RepositionTyped ==
  ASSUME NEW m, MoveTyped(m), NEW v, Typed(v), v.ourPosition # NoPosition,
         NEW flips, flips \subseteq Txs, clock \in Clocks,
         NEW choice, choice.closeTime \in Nat, choice.consensus \in BOOLEAN,
         roundCloseTime(choice.closeTime, v.closeResolution) = choice.closeTime
  PROVE  LET q == Reposition(m, v, flips, choice) IN
         /\ MoveTyped(q) /\ q.r.state = v.state
         /\ q.r.proposing = v.proposing /\ q.r.peerPositions = v.peerPositions
         /\ q.r.closeResolution = v.closeResolution
         /\ q.r.haveCloseTimeConsensus = choice.consensus
         /\ q.r.ourPosition # NoPosition
         /\ InConsensus(q.r) =>
              RoundedTime(q.r, q.r.ourPosition) = choice.closeTime
  <1> DEFINE ours == v.ourPosition
             yes == {t \in flips : v.disputes[t].ourVote}
             moved == (ours.pos \cup yes) \ (flips \ yes)
             o == Moved(ours, moved, choice.closeTime)
             n == [v EXCEPT !.haveCloseTimeConsensus = choice.consensus,
                            !.ourPosition.pos = (@ \cup yes) \ (flips \ yes),
                            !.ourPosition.closeTime = choice.closeTime,
                            !.ourPosition.time = clock,
                            !.ourPosition.seq = @ + 1]
             k == [v EXCEPT !.haveCloseTimeConsensus = choice.consensus]
             q == Reposition(m, v, flips, choice)
  <1>1. \/ q = ChangePosition(m, n)
        \/ /\ q = [m EXCEPT !.r = k]
           /\ BowedOut(ours) \/ choice.closeTime = RoundedTime(v, ours)
    BY DEF Reposition, RoundedTime
  <1>2. ours \in Mine /\ HasFields(v) /\ m.sent \in Seq(Mine)
    BY DEF Typed, OursTyped, MoveTyped
  <1>3. CASE q = ChangePosition(m, n)
    <2> DEFINE x == MapComplete(n, n.ourPosition.pos)
               log == IF n.proposing THEN Append(m.sent, n.ourPosition) ELSE m.sent
    <2>1. q = [r |-> x, sent |-> log]
      BY <1>3 DEF ChangePosition, Propose
    <2>2. /\ HasFields(n) /\ SamePeers(n, v) /\ n.acquired = v.acquired
          /\ n.compares = v.compares /\ n.disputes = v.disputes
          /\ n.wanted = v.wanted /\ n.state = v.state
          /\ n.proposing = v.proposing /\ n.haveCorrectLCL = v.haveCorrectLCL
          /\ n.prevLedgerHash = v.prevLedgerHash
          /\ n.previousLedger = v.previousLedger
          /\ n.acquiringLedger = v.acquiringLedger
          /\ n.validating = v.validating /\ n.consensusFail = v.consensusFail
          /\ n.haveCloseTimeConsensus = choice.consensus
          /\ n.closeResolution = v.closeResolution
          /\ n.startTime = v.startTime /\ n.ourPosition = o
      BY <1>2 DEF HasFields, SamePeers, Moved
    <2>3. o \in Mine /\ o.closeTime = choice.closeTime
      <3>1. moved \in TxSets
        BY <1>2 DEF Mine, TxSets
      <3> HIDE DEF moved
      <3>2. ours \in Mine
        BY <1>2
      <3> HIDE DEF ours
      <3> QED BY <3>1, <3>2, MovedMine
    <2> HIDE DEF n, o, q
    <2>4. Typed(n)
      <3>1. FlagsTyped(n)
        BY <2>2 DEF Typed, FlagsTyped
      <3>2. PeersTyped(n) /\ OursTyped(n) /\ SetsTyped(n)
        BY <2>2, <2>3 DEF Typed, PeersTyped, OursTyped, SetsTyped, SamePeers
      <3> QED BY <2>2, <3>1, <3>2 DEF Typed
    <2>5. o.pos \in TxSets /\ o # NoPosition
      <3>1. IsPosition(o)
        BY <2>3 DEF IsPosition, Mine
      <3> QED BY <2>3, <3>1, PositionIsSome DEF Mine
    <2>6. Typed(x) /\ Untouched(x, n)
      BY <2>2, <2>4, <2>5, MapCompleteTyped
    <2>7. log \in Seq(Mine)
      BY <1>2, <2>2, <2>3
    <2> HIDE DEF x, log
    <2>8. DOMAIN q = {"r", "sent"} /\ q.r = x /\ q.sent = log
      BY <2>1
    <2>9. /\ x.state = v.state /\ x.proposing = v.proposing
          /\ x.peerPositions = v.peerPositions
          /\ x.closeResolution = v.closeResolution
          /\ x.haveCloseTimeConsensus = choice.consensus /\ x.ourPosition = o
      BY <2>2, <2>6 DEF Untouched, SameFlags, SamePeers
    <2>10. RoundedTime(v, o) = choice.closeTime
      BY <2>3 DEF RoundedTime
    <2> QED BY <2>5, <2>6, <2>7, <2>8, <2>9, <2>10
            DEF MoveTyped, RoundedTime, q
  <1>4. CASE /\ q = [m EXCEPT !.r = k]
             /\ BowedOut(ours) \/ choice.closeTime = RoundedTime(v, ours)
    <2>1. DOMAIN q = {"r", "sent"} /\ q.r = k /\ q.sent = m.sent
      BY <1>4 DEF MoveTyped
    <2>2. /\ HasFields(k) /\ SamePeers(k, v) /\ k.acquired = v.acquired
          /\ k.compares = v.compares /\ k.disputes = v.disputes
          /\ k.wanted = v.wanted /\ k.state = v.state
          /\ k.proposing = v.proposing /\ k.haveCorrectLCL = v.haveCorrectLCL
          /\ k.prevLedgerHash = v.prevLedgerHash
          /\ k.previousLedger = v.previousLedger
          /\ k.acquiringLedger = v.acquiringLedger
          /\ k.validating = v.validating /\ k.consensusFail = v.consensusFail
          /\ k.haveCloseTimeConsensus = choice.consensus
          /\ k.closeResolution = v.closeResolution
          /\ k.startTime = v.startTime /\ k.ourPosition = ours
      BY <1>2 DEF HasFields, SamePeers
    <2> HIDE DEF k, q
    <2>3. FlagsTyped(k)
      BY <2>2 DEF Typed, FlagsTyped
    <2>4. PeersTyped(k) /\ OursTyped(k) /\ SetsTyped(k)
      BY <2>2 DEF Typed, PeersTyped, OursTyped, SetsTyped, SamePeers
    <2>5. InConsensus(k) => RoundedTime(v, ours) = choice.closeTime
      BY <1>4, <2>2 DEF InConsensus
    <2> QED BY <1>2, <2>1, <2>2, <2>3, <2>4, <2>5
            DEF MoveTyped, Typed, SamePeers, RoundedTime, q
  <1> QED BY <1>1, <1>3, <1>4

LEMMA GenerateDisputesTyped ==
  ASSUME NEW r, Typed(r), r.ourPosition # NoPosition
  PROVE  LET q == GenerateDisputes(r) IN Typed(q) /\ Untouched(q, r)
  <1> DEFINE q == GenerateDisputes(r)
             sets == Uncompared(r)
  <1>1. sets \subseteq TxSets
    BY DEF Typed, SetsTyped, Uncompared
  <1> HIDE DEF sets
  <1>2. q = r \/ q = Compare(r, sets)
    BY DEF GenerateDisputes, sets
  <1>3. Untouched(r, r)
    BY DEF Untouched, SameFlags, SamePeers
  <1>4. Typed(Compare(r, sets)) /\ Untouched(Compare(r, sets), r)
    BY <1>1, CompareTyped
  <1> QED BY <1>2, <1>3, <1>4

(* The round is finished only with the close time settled. *)
LEMMA FinishTyped ==
  ASSUME NEW r, Typed(r), NEW result
  PROVE  LET q == Finish(r, result) IN
         /\ Typed(q) /\ SamePeers(q, r) /\ q.ourPosition = r.ourPosition
         /\ q.proposing = r.proposing
         /\ q.closeResolution = r.closeResolution
         /\ q.state = r.state \/ r.haveCloseTimeConsensus
  <1> DEFINE q == Finish(r, result)
             failed == result = "MovedOn"
             s == IF r.haveCloseTimeConsensus THEN "finished" ELSE r.state
  <1>1. CASE q = r
    BY <1>1 DEF SamePeers
  <1>2. CASE q # r
    <2>0. HasFields(r)
      BY DEF Typed
    <2>1. q = [r EXCEPT !.consensusFail = failed, !.state = s]
      BY <1>2, <2>0 DEF Finish, HasFields
    <2>2. failed \in BOOLEAN
      OBVIOUS
    <2>3. /\ s \in {"open", "establish", "finished", "accepted", "ended"}
          /\ s = r.state \/ r.haveCloseTimeConsensus
      BY DEF Typed, FlagsTyped
    <2> HIDE DEF q, failed, s
    <2>4. /\ HasFields(q) /\ SamePeers(q, r) /\ q.state = s
          /\ q.consensusFail = failed /\ q.ourPosition = r.ourPosition
          /\ q.proposing = r.proposing /\ q.haveCorrectLCL = r.haveCorrectLCL
          /\ q.prevLedgerHash = r.prevLedgerHash
          /\ q.previousLedger = r.previousLedger
          /\ q.acquiringLedger = r.acquiringLedger
          /\ q.validating = r.validating
          /\ q.haveCloseTimeConsensus = r.haveCloseTimeConsensus
          /\ q.closeResolution = r.closeResolution
          /\ q.startTime = r.startTime /\ q.acquired = r.acquired
          /\ q.compares = r.compares /\ q.wanted = r.wanted
          /\ q.disputes = r.disputes
      BY <2>0, <2>1 DEF HasFields, SamePeers
    <2>5. FlagsTyped(q)
      BY <2>2, <2>3, <2>4 DEF Typed, FlagsTyped
    <2>6. PeersTyped(q) /\ OursTyped(q) /\ SetsTyped(q)
      BY <2>4 DEF Typed, PeersTyped, OursTyped, SetsTyped, SamePeers
    <2> QED BY <2>3, <2>4, <2>5, <2>6 DEF Typed, q
  <1> QED BY <1>1, <1>2

(* A round that stateEstablish finishes has half of its participants       *)
(* behind the close time of our position.                                  *)
LEMMA EstablishTyped ==
  ASSUME NEW m, MoveTyped(m), clock \in Clocks,
         DOMAIN m.r.peerPositions \subseteq Peers,
         m.r.ourPosition # NoPosition, NEW finished
  PROVE  LET q == StateEstablish(m, finished) IN
         /\ MoveTyped(q)
         /\ q.r.state # m.r.state /\ InConsensus(q.r) =>
              HalfBehind(q.r, RoundedTime(q.r, q.r.ourPosition))
  <1> DEFINE q == StateEstablish(m, finished)
             d == DropStale(m.r)
             v == UpdateVotes(d)
             flips == Flips(d, v)
             c == CloseTimeChoice(v)
             u == Reposition(m, v, flips, c)
             g == GenerateDisputes(u.r)
             x == Finish(g, ConsensusOf(g, finished))
  <1>1. CASE q = m
    BY <1>1
  <1>2. CASE q # m
    <2>1. q = [u EXCEPT !.r = x]
      BY <1>2 DEF StateEstablish, UpdateOurPositions, VoteWith,
                  VoteAndReposition, Conclude
    <2> HIDE DEF q
    <2>2. /\ Typed(d) /\ SameFlags(d, m.r) /\ d.ourPosition # NoPosition
          /\ DOMAIN d.peerPositions \subseteq Peers
      BY DropStaleTyped DEF MoveTyped
    <2> HIDE DEF d
    <2>3. Typed(v) /\ Untouched(v, d)
      BY <2>2, UpdateVotesTyped
    <2>4. flips \subseteq Txs
      BY <2>3 DEF Flips, Typed, SetsTyped
    <2> HIDE DEF v, flips
    <2>5. /\ v.ourPosition # NoPosition /\ DOMAIN v.peerPositions \subseteq Peers
          /\ v.state = m.r.state
      BY <2>2, <2>3 DEF Untouched, SamePeers, SameFlags
    <2>6. /\ c.closeTime \in Nat /\ c.consensus \in BOOLEAN
          /\ roundCloseTime(c.closeTime, v.closeResolution) = c.closeTime
          /\ c.consensus => HalfBehind(v, c.closeTime)
      BY <2>3, <2>5, ChoiceFacts
    <2> HIDE DEF c
    <2>7. /\ MoveTyped(u) /\ u.r.state = v.state
          /\ u.r.proposing = v.proposing /\ u.r.peerPositions = v.peerPositions
          /\ u.r.closeResolution = v.closeResolution
          /\ u.r.haveCloseTimeConsensus = c.consensus
          /\ u.r.ourPosition # NoPosition
          /\ InConsensus(u.r) => RoundedTime(u.r, u.r.ourPosition) = c.closeTime
      BY <2>3, <2>4, <2>5, <2>6, RepositionTyped
    <2> HIDE DEF u
    <2>8. Typed(g) /\ Untouched(g, u.r)
      BY <2>7, GenerateDisputesTyped DEF MoveTyped
    <2> HIDE DEF g
    <2>9. /\ Typed(x) /\ SamePeers(x, g) /\ x.ourPosition = g.ourPosition
          /\ x.proposing = g.proposing
          /\ x.closeResolution = g.closeResolution
          /\ x.state = g.state \/ g.haveCloseTimeConsensus
      BY <2>8, FinishTyped
    <2> HIDE DEF x
    <2>10. DOMAIN q = {"r", "sent"} /\ q.r = x /\ q.sent = u.sent
      BY <2>1, <2>7 DEF MoveTyped
    <2>11. MoveTyped(q)
      BY <2>7, <2>9, <2>10 DEF MoveTyped
    <2>12. ASSUME x.state # m.r.state, InConsensus(x)
           PROVE  HalfBehind(x, RoundedTime(x, x.ourPosition))
      <3>1. /\ x.proposing = v.proposing /\ x.peerPositions = v.peerPositions
            /\ x.ourPosition = u.r.ourPosition
            /\ x.closeResolution = v.closeResolution
            /\ x.state = m.r.state \/ c.consensus
        BY <2>5, <2>7, <2>8, <2>9 DEF Untouched, SameFlags, SamePeers
      <3>2. c.consensus /\ RoundedTime(x, x.ourPosition) = c.closeTime
        BY <2>7, <2>12, <3>1 DEF InConsensus, RoundedTime
      <3>3. HalfBehind(v, c.closeTime)
        BY <2>6, <3>2
      <3> QED BY <3>1, <3>2, <3>3 DEF HalfBehind, Behind, Us, RoundedTime
    <2> QED BY <2>10, <2>11, <2>12 DEF q
  <1> QED BY <1>1, <1>2

LEMMA TimerTyped ==
  ASSUME NEW m, MoveOK(m), MoveTyped(m), NEW lcl \in Ledgers, NEW validators,
         NEW ct \in Nat, clock \in Clocks, openTxs \in TxSets,
         stored \in [Peers -> Seq(Proposal)], Filed(stored)
  PROVE  LET q == Timer(m, lcl, validators, ct) IN
         /\ MoveTyped(q)
         /\ m.r.state = "establish" /\ q.r.state # m.r.state
              /\ InConsensus(q.r) =>
              HalfBehind(q.r, RoundedTime(q.r, q.r.ourPosition))
  <1> DEFINE n == CheckLCL(m, lcl)
             q == Timer(m, lcl, validators, ct)
  <1>1. MoveOK(n) /\ n.r.state = m.r.state /\ MoveTyped(n)
    BY CheckLCLOK, CheckLCLTyped
  <1>2. q = IF n.r.state = "open" THEN StatePreClose(n, validators, ct)
            ELSE StateEstablish(n, validators)
    BY DEF Timer, TimerStep
  <1> HIDE DEF n, q
  <1>3. CASE n.r.state = "open"
    <2>1. q = n \/ q = CloseLedger(n, ct)
      BY <1>2, <1>3 DEF StatePreClose
    <2>2. MoveTyped(q)
      BY <1>1, <2>1, CloseLedgerTyped
    <2> QED BY <1>1, <1>3, <2>2 DEF q
  <1>4. CASE n.r.state # "open"
    <2>1. /\ DOMAIN n.r.peerPositions \subseteq Peers
          /\ n.r.ourPosition # NoPosition
      BY <1>1, <1>4 DEF MoveOK, RoundOK, PeerVotes, PeersOK, OursHeld
    <2>2. q = StateEstablish(n, validators)
      BY <1>2, <1>4
    <2>3. /\ MoveTyped(q)
          /\ q.r.state # n.r.state /\ InConsensus(q.r) =>
               HalfBehind(q.r, RoundedTime(q.r, q.r.ourPosition))
      BY <1>1, <2>1, <2>2, EstablishTyped
    <2> QED BY <1>1, <2>3 DEF q
  <1> QED BY <1>3, <1>4

(* The type invariant is not inductive as it stands: playback files a      *)
(* peer's position by where the proposal is stored.                        *)
TypeInv ==
  /\ Typed(round) /\ Filed(stored)
  /\ openTxs \subseteq Txs /\ have \subseteq Ledgers
  /\ inbound \subseteq TxSets /\ gotSet \subseteq TxSets
  /\ received \in 0 .. MaxProposals
  /\ sent \in Seq(Mine)
  /\ job \in [at: {"none", "queued", "started", "built"}, set: TxSets]
  /\ validation \in {None} \cup
       [parent: Ledgers, network: Ledgers, set: TxSets, full: BOOLEAN]

LEMMA InitTypeInv == Init => TypeInv
  <1> SUFFICES ASSUME Init PROVE TypeInv
    OBVIOUS
  <1>1. PICK network \in Ledgers, mode \in {"watching", "validating", "full"} :
          round = WorkFromLCL(NewRound(network, mode = "full",
                                       mode # "watching"), network)
    BY DEF Init
  <1> DEFINE full == mode = "full"
             votes == mode # "watching"
             ours == network = OurLCL
             n == NewRound(network, full, votes)
  <1>2. round = WorkFromLCL(n, network)
    BY <1>1
  <1>3. full \in BOOLEAN /\ votes \in BOOLEAN /\ ours \in BOOLEAN
    OBVIOUS
  <1>4. /\ HasFields(n) /\ n.state = "open" /\ n.prevLedgerHash = network
        /\ n.previousLedger = OurLCL /\ n.acquiringLedger = None
        /\ n.haveCorrectLCL = ours /\ n.proposing = full
        /\ n.validating = votes /\ n.consensusFail = FALSE
        /\ n.haveCloseTimeConsensus = FALSE /\ n.startTime = 0
        /\ n.closeResolution = CloseResolutionOn(OurLCL)
        /\ n.ourPosition = NoPosition /\ n.peerPositions = NoFun
        /\ n.deadNodes = {} /\ n.acquired = {} /\ n.compares = {}
        /\ n.wanted = {} /\ n.disputes = NoFun
    <2> HIDE DEF full, votes
    <2> QED BY DEF NewRound, HasFields
  <1> HIDE DEF n, full, votes, ours
  <1>5. DOMAIN n.peerPositions = {} /\ DOMAIN n.disputes = {}
    BY <1>4 DEF NoFun
  <1>6. FlagsTyped(n)
    BY <1>3, <1>4, RoundAssumption DEF FlagsTyped
  <1>7. PeersTyped(n) /\ OursTyped(n) /\ SetsTyped(n)
    BY <1>4, <1>5 DEF PeersTyped, OursTyped, SetsTyped
  <1>8. Typed(round)
    <2>1. Typed(n)
      BY <1>4, <1>6, <1>7 DEF Typed
    <2> QED BY <1>2, <2>1, WorkFromLCLTyped
  <1>9. Filed(stored)
    BY DEF Init, Filed
  <1>10. openTxs \subseteq Txs /\ have \subseteq Ledgers /\ inbound \subseteq TxSets
    BY RoundAssumption DEF Init, TxSets
  <1>11. received \in 0 .. MaxProposals
    BY RoundAssumption DEF Init
  <1>12. /\ job \in [at: {"none", "queued", "started", "built"}, set: TxSets]
         /\ sent \in Seq(Mine) /\ gotSet \subseteq TxSets /\ validation = None
    BY DEF Init, TxSets
  <1> QED BY <1>8, <1>9, <1>10, <1>11, <1>12 DEF TypeInv

LEMMA TimerEntryTyped ==
  ASSUME ConsensusInv, TypeInv, NEW counts, NEW validators,
         NEW ct \in OurCloseTimes, TimerEntry(counts, validators, ct)
  PROVE  /\ TypeInv'
         /\ round.state = "establish" /\ round'.state # round.state
              /\ InConsensus(round') =>
              HalfBehind(round', RoundedTime(round', round'.ourPosition))
  <1>1. PICK lcl \in NetLedgers(round, counts) :
          LET m == Timer(Now, lcl, validators, ct)
              mine == IF m.r.ourPosition = NoPosition THEN {}
                      ELSE {m.r.ourPosition.pos} IN
          /\ round' = m.r
          /\ sent' = m.sent
          /\ inbound' = inbound \cup mine
          /\ job' = IF m.r.state = "finished"
                      THEN [at |-> "queued", set |-> m.r.ourPosition.pos]
                      ELSE job
    BY DEF TimerEntry
  <1> DEFINE m == Timer(Now, lcl, validators, ct)
  <1>2. /\ round' = m.r /\ sent' = m.sent
        /\ inbound' = inbound \cup (IF m.r.ourPosition = NoPosition THEN {}
                                    ELSE {m.r.ourPosition.pos})
        /\ job' = IF m.r.state = "finished"
                    THEN [at |-> "queued", set |-> m.r.ourPosition.pos] ELSE job
        /\ UNCHANGED <<openTxs, have, gotSet, stored, received, validation>>
    BY <1>1 DEF TimerEntry
  <1>3. lcl \in Ledgers /\ ct \in Nat /\ openTxs \in TxSets
    BY <1>1, RoundAssumption
    DEF NetLedgers, ConsensusInv, RoundOK, TypeInv, TxSets
  <1>4. Now.r = round /\ MoveOK(Now) /\ MoveTyped(Now)
    BY DEF Now, MoveOK, MoveTyped, ConsensusInv, TypeInv
  <1>5. clock \in Clocks /\ stored \in [Peers -> Seq(Proposal)] /\ Filed(stored)
    BY DEF ConsensusInv, InputsOK, TypeInv
  <1>6. /\ MoveTyped(m)
        /\ round.state = "establish" /\ m.r.state # round.state
             /\ InConsensus(m.r) =>
             HalfBehind(m.r, RoundedTime(m.r, m.r.ourPosition))
    BY <1>3, <1>4, <1>5, TimerTyped
  <1>7. MoveOK(m)
    BY <1>3, <1>4, <1>5, TimerOK
  <1> HIDE DEF m
  <1>8. Typed(m.r) /\ m.sent \in Seq(Mine)
    BY <1>6 DEF MoveTyped
  <1>9. m.r.ourPosition # NoPosition => m.r.ourPosition.pos \in TxSets
    BY <1>8 DEF Typed, OursTyped, Mine
  <1>10. m.r.state = "finished" => m.r.ourPosition # NoPosition
    BY <1>7 DEF MoveOK, RoundOK, OursHeld
  <1>11. job' \in [at: {"none", "queued", "started", "built"}, set: TxSets]
    BY <1>2, <1>9, <1>10 DEF TypeInv
  <1>12. inbound' \subseteq TxSets
    BY <1>2, <1>9 DEF TypeInv
  <1>13. TypeInv'
    BY <1>2, <1>8, <1>11, <1>12 DEF TypeInv, Filed
  <1> QED BY <1>2, <1>6, <1>13

LEMMA TrustedProposalTyped ==
  ASSUME ConsensusInv, TypeInv, NEW prop \in Proposal, TrustedProposal(prop)
  PROVE  TypeInv'
  <1>1. prop.peer \in Peers
    BY DEF Proposal
  <1>2. Typed(round)'
    BY PeerPositionTyped DEF TrustedProposal, TypeInv
  <1>3. received' \in 0 .. MaxProposals
    BY RoundAssumption DEF TrustedProposal, TypeInv
  <1>4. Filed(stored)'
    <2> DEFINE s == stored[prop.peer]
               k == IF Len(s) >= StoreLimit THEN Tail(s) ELSE s
    <2>1. stored' = [stored EXCEPT ![prop.peer] = Append(k, prop)]
      BY DEF TrustedProposal
    <2>2. /\ stored \in [Peers -> Seq(Proposal)] /\ s \in Seq(Proposal)
          /\ \A i \in 1 .. Len(s) : s[i].peer = prop.peer
      BY <1>1 DEF ConsensusInv, InputsOK, TypeInv, Filed
    <2>3. k \in Seq(Proposal) /\ \A i \in 1 .. Len(k) : k[i].peer = prop.peer
      <3>1. CASE Len(s) >= StoreLimit
        <4> HIDE DEF s
        <4>1. s # <<>> /\ Len(s) \in Nat
          BY <2>2, <3>1, RoundAssumption
        <4>2. /\ Tail(s) \in Seq(Proposal) /\ Len(Tail(s)) = Len(s) - 1
              /\ \A i \in 1 .. Len(s) - 1 : Tail(s)[i] = s[i + 1]
          BY <2>2, <4>1
        <4> QED BY <2>2, <3>1, <4>1, <4>2
      <3>2. CASE ~(Len(s) >= StoreLimit)
        BY <2>2, <3>2
      <3> QED BY <3>1, <3>2
    <2> HIDE DEF k
    <2> DEFINE a == Append(k, prop)
    <2>4. /\ a \in Seq(Proposal) /\ DOMAIN a = 1 .. Len(k) + 1
          /\ a[Len(k) + 1] = prop /\ \A i \in 1 .. Len(k) : a[i] = k[i]
          /\ Len(k) \in Nat
      BY <2>3
    <2> HIDE DEF a
    <2>5. \A i \in DOMAIN a : a[i].peer = prop.peer
      BY <2>3, <2>4
    <2>6. stored' = [stored EXCEPT ![prop.peer] = a]
      BY <2>1 DEF a
    <2> QED BY <1>1, <2>2, <2>5, <2>6 DEF TypeInv, Filed
  <1> QED BY <1>2, <1>3, <1>4 DEF TrustedProposal, TypeInv

LEMMA SetTyped ==
  ASSUME TypeInv, NEW s \in TxSets, GiveSet(s) \/ GotSet(s)
  PROVE  TypeInv'
  <1>1. Typed(MapComplete(round, s))
    BY MapCompleteTyped DEF TypeInv
  <1>2. CASE GiveSet(s)
    BY <1>1, <1>2 DEF GiveSet, TypeInv, Filed
  <1>3. CASE GotSet(s)
    BY <1>1, <1>3 DEF GotSet, TypeInv, Filed
  <1> QED BY <1>2, <1>3

LEMMA StateTyped ==
  ASSUME NEW r, Typed(r), NEW s \in {"accepted", "ended"}
  PROVE  Typed([r EXCEPT !.state = s])
  <1> DEFINE q == [r EXCEPT !.state = s]
  <1>1. /\ HasFields(q) /\ SamePeers(q, r) /\ q.state = s
        /\ q.consensusFail = r.consensusFail /\ q.ourPosition = r.ourPosition
        /\ q.proposing = r.proposing /\ q.haveCorrectLCL = r.haveCorrectLCL
        /\ q.prevLedgerHash = r.prevLedgerHash
        /\ q.previousLedger = r.previousLedger
        /\ q.acquiringLedger = r.acquiringLedger
        /\ q.validating = r.validating
        /\ q.haveCloseTimeConsensus = r.haveCloseTimeConsensus
        /\ q.closeResolution = r.closeResolution
        /\ q.startTime = r.startTime /\ q.acquired = r.acquired
        /\ q.compares = r.compares /\ q.wanted = r.wanted
        /\ q.disputes = r.disputes
    BY DEF Typed, HasFields, SamePeers
  <1> HIDE DEF q
  <1>2. FlagsTyped(q)
    BY <1>1 DEF Typed, FlagsTyped
  <1>3. PeersTyped(q) /\ OursTyped(q) /\ SetsTyped(q)
    BY <1>1 DEF Typed, PeersTyped, OursTyped, SetsTyped, SamePeers
  <1> QED BY <1>1, <1>2, <1>3 DEF Typed, q

LEMMA AcceptTyped ==
  ASSUME TypeInv, AcceptStart \/ AcceptBuild \/ EndConsensus
  PROVE  TypeInv'
  <1> DEFINE Jobs == [at: {"none", "queued", "started", "built"}, set: TxSets]
  <1>1. CASE AcceptStart
    <2>1. job' \in Jobs
      BY <1>1 DEF AcceptStart, TypeInv
    <2>2. Filed(stored)'
      BY <1>1 DEF AcceptStart, Filed
    <2> QED BY <1>1, <2>1, <2>2 DEF AcceptStart, TypeInv
  <1>2. CASE AcceptBuild
    <2>1. job' \in Jobs /\ job.set \in TxSets
      BY <1>2 DEF AcceptBuild, TypeInv
    <2>2. openTxs' \subseteq Txs
      BY <1>2 DEF AcceptBuild, TypeInv, Typed, SetsTyped, Retried
    <2>3. Typed(round)'
      BY <1>2, StateTyped DEF AcceptBuild, TypeInv
    <2>4. validation' \in {None} \cup
            [parent: Ledgers, network: Ledgers, set: TxSets, full: BOOLEAN]
      BY <1>2, <2>1 DEF AcceptBuild, TypeInv, Typed, FlagsTyped
    <2> QED BY <1>2, <2>1, <2>2, <2>3, <2>4 DEF AcceptBuild, TypeInv, Filed
  <1>3. CASE EndConsensus
    <2>1. Typed(round)'
      BY <1>3, StateTyped DEF EndConsensus, TypeInv
    <2> QED BY <1>3, <2>1 DEF EndConsensus, TypeInv, Filed
  <1> QED BY <1>1, <1>2, <1>3

LEMMA NextTypeInv == ConsensusInv /\ TypeInv /\ [Next]_vars => TypeInv'
  <1> SUFFICES ASSUME ConsensusInv, TypeInv, [Next]_vars PROVE TypeInv'
    OBVIOUS
  <1>1. ASSUME NEW counts \in Counts, NEW validators \in 0 .. Cardinality(Peers),
               NEW ct \in OurCloseTimes, TimerEntry(counts, validators, ct)
        PROVE  TypeInv'
    BY <1>1, TimerEntryTyped
  <1>2. ASSUME NEW p \in Peers, NEW l \in Ledgers,
               NEW seq \in PeerSeqs \cup {SeqLeave}, NEW pos \in Positions,
               NEW ct \in CloseTimes,
               TrustedProposal([peer |-> p, prevLedger |-> l, seq |-> seq,
                                pos |-> pos, closeTime |-> ct, time |-> clock])
        PROVE  TypeInv'
    <2> DEFINE prop == [peer |-> p, prevLedger |-> l, seq |-> seq, pos |-> pos,
                        closeTime |-> ct, time |-> clock]
    <2>1. prop \in Proposal
      BY DEF Proposal, ConsensusInv, InputsOK
    <2> HIDE DEF prop
    <2>2. TrustedProposal(prop)
      BY <1>2 DEF prop
    <2> QED BY <2>1, <2>2, TrustedProposalTyped
  <1>3. ASSUME NEW s \in TxSets, GiveSet(s) \/ GotSet(s) PROVE TypeInv'
    BY <1>3, SetTyped
  <1>4. ASSUME NEW l \in Ledgers, AcquireLedger(l) PROVE TypeInv'
    BY <1>4 DEF AcquireLedger, TypeInv, Filed
  <1>5. CASE AcceptStart \/ AcceptBuild \/ EndConsensus
    BY <1>5, AcceptTyped
  <1>6. CASE Tick
    BY <1>6 DEF Tick, TypeInv, Filed
  <1>7. CASE UNCHANGED vars
    BY <1>7 DEF vars, TypeInv, Filed
  <1> QED BY <1>1, <1>2, <1>3, <1>4, <1>5, <1>6, <1>7 DEF Next

(* The strengthened type invariant holds in every behaviour of the round. *)
THEOREM TypeInvariant == Spec => []TypeInv
  BY ConsensusInvariant, InitTypeInv, NextTypeInv, PTL DEF Spec

(* The round is well formed in every behaviour: the position on record for *)
(* a peer is one that this peer made, also after playbackProposals, and    *)
(* the vote counters never go below zero.                                  *)
THEOREM RoundTypeCorrect == Spec => []TypeOK
  <1>1. ConsensusInv /\ TypeInv => TypeOK
    <2> SUFFICES ASSUME ConsensusInv, TypeInv PROVE TypeOK
      OBVIOUS
    <2>1. /\ DOMAIN round.peerPositions \subseteq Peers
          /\ \A t \in DOMAIN round.disputes : round.disputes[t] \in Dispute
      BY DEF ConsensusInv, RoundOK, PeerVotes, PeersOK, VotesOK, Counted
    <2>2. IsRound(round)
      BY <2>1, ResolutionTyped
         DEF TypeInv, Typed, FlagsTyped, PeersTyped, OursTyped, SetsTyped, IsRound
    <2>3. clock \in Clocks /\ \A p \in Peers : stored[p] \in Seq(Proposal)
      BY DEF ConsensusInv, InputsOK
    <2> QED BY <2>2, <2>3 DEF TypeInv, TypeOK
  <1> QED BY <1>1, TypeInvariant, ConsensusInvariant, PTL

(* The round is finished only on a close time that at least half of the    *)
(* participants stand behind: the flag that haveConsensus reads is the     *)
(* outcome of the vote in the same timer call, at the resolution handleLCL *)
(* set for the ledger we now work from.                                    *)
THEOREM CloseTimeSupportedCorrect == Spec => CloseTimeSupported
  <1> DEFINE Step ==
        round.state = "establish" /\ round'.state = "finished"
          /\ InConsensus(round') =>
          LET us == IF round'.proposing THEN 1 ELSE 0
              rounded(pos) == roundCloseTime(pos.closeTime,
                                CloseResolutionOn(round'.previousLedger))
              behind == {p \in DOMAIN round'.peerPositions :
                           rounded(round'.peerPositions[p])
                             = rounded(round'.ourPosition)} IN
          2 * (Cardinality(behind) + us)
            >= Cardinality(DOMAIN round'.peerPositions) + us
  <1>1. ConsensusInv /\ TypeInv /\ [Next]_vars => [Step]_vars
    <2> SUFFICES ASSUME ConsensusInv, TypeInv, Next,
                        round.state = "establish", round'.state = "finished",
                        InConsensus(round')
                 PROVE  Step
      OBVIOUS
    <2>1. PICK counts \in Counts, validators \in 0 .. Cardinality(Peers),
               ct \in OurCloseTimes : TimerEntry(counts, validators, ct)
      <3>1. round'.state # round.state
        OBVIOUS
      <3>2. /\ PeerVotes(round) /\ OurVotes(round) /\ RoundOK(round)
        BY DEF ConsensusInv, RoundOK
      <3>3. ASSUME NEW p \in Peers, NEW prop, prop.peer = p,
                   TrustedProposal(prop)
            PROVE  FALSE
        <4>1. SameOurs(PeerPosition(round, inbound, prop), round)
          BY <3>2, <3>3, PeerPositionOK
        <4> QED BY <3>1, <3>3, <4>1 DEF TrustedProposal, SameOurs
      <3>4. ASSUME NEW s, GiveSet(s) \/ GotSet(s) PROVE FALSE
        <4>1. SameOurs(MapComplete(round, s), round)
          BY <3>2, MapCompleteOK
        <4> QED BY <3>1, <3>4, <4>1 DEF GiveSet, GotSet, SameOurs
      <3>5. ASSUME NEW l, AcquireLedger(l) PROVE FALSE
        BY <3>1, <3>5 DEF AcquireLedger
      <3>6. ~AcceptStart /\ ~Tick
        BY <3>1 DEF AcceptStart, Tick
      <3>7. ~AcceptBuild
        BY DEF AcceptBuild, ConsensusInv, JobOK
      <3>8. ~EndConsensus
        BY DEF EndConsensus
      <3> QED BY <3>3, <3>4, <3>5, <3>6, <3>7, <3>8 DEF Next
    <2>2. HalfBehind(round', RoundedTime(round', round'.ourPosition))
      BY <2>1, TimerEntryTyped
    <2>3. round'.closeResolution = CloseResolutionOn(round'.previousLedger)
      BY <2>1, TimerEntryTyped DEF TypeInv, Typed, FlagsTyped
    <2> QED BY <2>2, <2>3 DEF HalfBehind, Behind, Us, RoundedTime
  <1> QED BY <1>1, TypeInvariant, ConsensusInvariant, PTL
          DEF Spec, CloseTimeSupported
==============================================================================
