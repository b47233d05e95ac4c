-------------------------- MODULE MCLedgerConsensus --------------------------
(* Instances of LedgerConsensus for TLC. *)
EXTENDS LedgerConsensus
CONSTANTS p1, p2, p3, x, y, L0, L1, L2
SmallPositions == {{}, {x}}
TwoPositions == {{x}, {y}}
RacePositions == {{}, {x}, {y}}

(* L1 closed without agreement on its close time, so a round on it works   *)
(* with the next coarser resolution.                                       *)
TwoInfos ==
  [l \in Ledgers |-> [seq |-> 6, agree |-> l = L0, resolution |-> 10,
                      age |-> 0]]
Symmetry == Permutations(Peers) \cup Permutations(Txs)

(* Reference definition: one call of peerPosition after the other. *)
PlayOneByOne(r, in, props) ==
  LET Play(acc, prop) == IF prop.prevLedger = acc.prevLedgerHash
                           THEN PeerPosition(acc, in, prop) ELSE acc
      PlayPeer(acc, p) == FoldLeft(Play, acc, props[p]) IN
  FoldLeft(PlayPeer, r, SetToSeq(Peers))

(* PlaybackProposals is that loop, for up to three stored proposals of one *)
(* peer and one of another, with and without the set {} and others held.   *)
Made(p) == [peer: {p}, prevLedger: Ledgers, seq: PeerSeqs \cup {SeqLeave},
            pos: Positions, closeTime: {0}, time: {0}]

ASSUME PlaybackAgrees ==
  \A in \in SUBSET Positions, s \in BoundedSeq(Made(p1), 3),
     t \in BoundedSeq(Made(p2), 1) :
    LET r == [ForgetRound(NewRound(OurLCL, TRUE, TRUE), OurLCL)
                EXCEPT !.acquired = {{}}]
        props == [p \in Peers |-> IF p = p1 THEN s ELSE t] IN
    PlaybackProposals(r, in, props) = PlayOneByOne(r, in, props)
==============================================================================
