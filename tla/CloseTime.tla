------------------------------- MODULE CloseTime -------------------------------
(***************************************************************************)
(* The close times of a chain of ledgers.  For every ledger the round      *)
(* picks a resolution from its parent's (the LedgerConsensusImp            *)
(* constructor), the participants report their close times, the vote of    *)
(* updateOurPositions picks one, and accept() rounds it and stamps the     *)
(* ledger.  The reports are the positions one server sees when its timer   *)
(* fires; stage is how far its round is on the avalanche scale.            *)
(***************************************************************************)
EXTENDS ConsensusRules

CONSTANTS
  Participants, \* the peers whose positions we hold, and ourselves
  Reports,      \* close times a position may carry, seconds
  FirstSeq,     \* sequence number of the first ledger
  ChainLength   \* bound: ledgers closed

ASSUME ReportsAssumption ==
  /\ IsFiniteSet(Participants) /\ Participants # {}
  /\ Reports \subseteq Nat
  /\ FirstSeq \in Nat /\ ChainLength \in Nat

VARIABLES
  ledger,      \* the last closed ledger: seq, closeTime, resolution, agree
  resolution,  \* mCloseResolution of the round on top of it
  reports,     \* the positions' close times, once the round has them
  percent      \* mClosePercent

chainVars == <<ledger, resolution, reports, percent>>

Stages == {0, 50, 85, 200}
NoReports == [p \in {} |-> 0]

ChainInit ==
  /\ \E i \in DOMAIN PossibleTimeResolutions, agree \in BOOLEAN :
       ledger = [seq |-> FirstSeq, closeTime |-> 0, agree |-> agree,
                 resolution |-> PossibleTimeResolutions[i]]
  /\ resolution = getNextLedgerTimeResolution(ledger.resolution, ledger.agree,
                                              ledger.seq + 1)
  /\ reports = NoReports
  /\ percent = 0

(* The positions come in, rounded by updateOurPositions. *)
Report ==
  /\ reports = NoReports
  /\ reports' \in [Participants -> Reports]
  /\ percent' \in Stages
  /\ UNCHANGED <<ledger, resolution>>

Tally ==
  LET rounded == [p \in DOMAIN reports |->
                    roundCloseTime(reports[p], resolution)] IN
  [t \in {rounded[p] : p \in DOMAIN reports} |->
     Cardinality({p \in DOMAIN reports : rounded[p] = t})]

(* What the vote yields at a stage of the round. *)
Choice(stage) ==
  closeTimeVote(Tally, Cardinality(Participants), AvalancheThreshold(stage))

(* The close time did not converge: positions are reported anew. *)
Retry ==
  /\ reports # NoReports
  /\ ~Choice(percent).consensus
  /\ reports' = NoReports
  /\ UNCHANGED <<ledger, resolution, percent>>

(* accept(): the rounded time, or one second after the parent when the     *)
(* participants agreed to disagree.                                        *)
Stamp(closeTime) ==
  LET rounded == roundCloseTime(closeTime, resolution) IN
  IF rounded = 0
    THEN [closeTime |-> ledger.closeTime + 1, agree |-> FALSE]
    ELSE [closeTime |-> rounded, agree |-> TRUE]

Accept ==
  /\ reports # NoReports
  /\ ledger.seq < FirstSeq + ChainLength
  /\ Choice(percent).consensus
  /\ LET stamp == Stamp(Choice(percent).closeTime)
         seq == ledger.seq + 1
         next == getNextLedgerTimeResolution(resolution, stamp.agree, seq + 1)
     IN
     /\ ledger' = [seq |-> seq, closeTime |-> stamp.closeTime,
                   agree |-> stamp.agree, resolution |-> resolution]
     /\ resolution' = next
  /\ reports' = NoReports
  /\ UNCHANGED percent

ChainNext == Report \/ Retry \/ Accept
ChainSpec == ChainInit /\ [][ChainNext]_chainVars

-----------------------------------------------------------------------------
(* Resolutions come from the table all servers share, whatever the history *)
(* of agreement was: the steps of getNextLedgerTimeResolution never leave  *)
(* it at either end.                                                       *)
ChainTypeOK ==
  /\ resolution \in ToSet(PossibleTimeResolutions)
  /\ ledger \in [seq: Nat, closeTime: Nat, agree: BOOLEAN,
                 resolution: ToSet(PossibleTimeResolutions)]
  /\ reports \in {NoReports} \cup [Participants -> Reports]
  /\ percent \in Stages

(* The loop of updateOurPositions, which walks the times in order with a   *)
(* moving threshold, picks what a plurality vote would: the time with most *)
(* votes, the latest one of several, provided it has the share the stage   *)
(* asks for, and zero otherwise; it is settled with 75 percent of the      *)
(* participants.                                                           *)
VoteIsPlurality ==
  reports # NoReports =>
    LET n == Cardinality(Participants)
        settled == participantsNeeded(n, AvCtConsensusPct)
        most == Max({Tally[t] : t \in DOMAIN Tally})
        latest == Max({t \in DOMAIN Tally : Tally[t] = most})
        wins == most >= participantsNeeded(n, AvalancheThreshold(percent))
        disagreed == 0 \in DOMAIN Tally /\ Tally[0] > settled IN
    Choice(percent) =
      [closeTime |-> IF wins THEN latest ELSE 0,
       consensus |-> (wins /\ most >= settled) \/ disagreed]

(* Two servers that see the same positions settle on the same close time,  *)
(* however far apart their rounds are on the avalanche scale.              *)
StagesAgree ==
  reports # NoReports =>
    \A s, t \in Stages :
      Choice(s).consensus /\ Choice(t).consensus =>
        Choice(s).closeTime = Choice(t).closeTime

(* A ledger whose close time counts as agreed carries a time within half a *)
(* resolution of what at least half of the participants reported, although *)
(* their positions, the vote and accept() each round it.                   *)
StampNearReports ==
  [][ledger' # ledger /\ ledger'.agree =>
       LET near == {p \in Participants :
                      /\ 2 * (reports[p] - ledger'.closeTime) =< resolution
                      /\ 2 * (ledger'.closeTime - reports[p]) =< resolution}
       IN 2 * Cardinality(near) >= Cardinality(Participants)]_chainVars
===============================================================================
