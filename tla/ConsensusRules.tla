---------------------------- MODULE ConsensusRules ----------------------------
(***************************************************************************)
(* The arithmetic of a consensus round: close time resolution and rounding *)
(* (LedgerTiming.cpp), when to close, when consensus is reached, how many  *)
(* participants a percentage asks for (LedgerConsensusImp.cpp).  Times are *)
(* milliseconds for durations and seconds for close times, as in the code; *)
(* the numbers are the protocol parameters of LedgerTiming.h.              *)
(***************************************************************************)
EXTENDS Integers, Sequences, FiniteSets, SequencesExt

LedgerMinConsensus == 2000
LedgerMinClose == 2000
LedgerIdleInterval == 15
ProposeFreshness == 20000
ProposeInterval == 12000
MinimumConsensusPercentage == 80
AvCtConsensusPct == 75
PossibleTimeResolutions == <<10, 20, 30, 60, 90, 120>>
IncreaseResolutionEvery == 8
DecreaseResolutionEvery == 1

(* The share of yes votes needed, by the age of the round in percent of    *)
(* the previous round's duration.  Shared by DisputedTx::updateVote and    *)
(* updateOurPositions.                                                     *)
AvalancheThreshold(percentTime) ==
  CASE percentTime < 50 -> 50
    [] percentTime >= 50 /\ percentTime < 85 -> 65
    [] percentTime >= 85 /\ percentTime < 200 -> 70
    [] percentTime >= 200 -> 95

getNextLedgerTimeResolution(previous, agree, seq) ==
  LET i == SelectInSeq(PossibleTimeResolutions, LAMBDA x : x = previous) IN
  CASE i = 0 -> previous
    [] i # 0 /\ ~agree /\ seq % DecreaseResolutionEvery = 0
         /\ i < Len(PossibleTimeResolutions) -> PossibleTimeResolutions[i + 1]
    [] i # 0 /\ agree /\ seq % IncreaseResolutionEvery = 0
         /\ i > 1 -> PossibleTimeResolutions[i - 1]
    [] OTHER -> previous

(* Mutant: rounds down. *)
roundCloseTimeDown(closeTime, resolution) ==
  IF closeTime = 0 THEN 0 ELSE closeTime - (closeTime % resolution)

roundCloseTime(closeTime, resolution) ==
  IF closeTime = 0 THEN 0
  ELSE LET t == closeTime + (resolution \div 2) IN t - (t % resolution)

(* proposers is the number in the previous round; lastMs, sinceMs and      *)
(* openMs are previousMSeconds, currentMSeconds and openMSeconds.          *)
shouldCloseLedger(anyTxs, proposers, closed, validated, lastMs, sinceMs, openMs, idle) ==
  LET strange(ms) == ms < -1000 \/ ms > 600000
      seen == closed + validated IN
  \/ strange(lastMs) \/ strange(sinceMs)
  \/ /\ ~anyTxs
     /\ \/ closed > proposers \div 4
        \/ sinceMs >= idle * 1000
  \/ /\ anyTxs
     /\ ~(openMs < LedgerMinClose /\ seen < proposers \div 2)
     /\ ~(sinceMs < lastMs /\ seen < proposers)

checkConsensusReached(agreeing, proposing) ==
  (agreeing * 100) \div (proposing + 1) > MinimumConsensusPercentage

(* previous and lastMs are the proposers and the duration of the previous  *)
(* round; agree and finished count those of the current proposers.         *)
checkConsensus(previous, proposers, agree, finished, lastMs, agreeMs) ==
  LET tooSoon ==
        \/ agreeMs =< LedgerMinConsensus
        \/ /\ proposers < (previous * 3) \div 4
           /\ agreeMs < lastMs + LedgerMinConsensus IN
  IF tooSoon THEN "No"
  ELSE IF checkConsensusReached(agree + 1, proposers) THEN "Yes"
  ELSE IF checkConsensusReached(finished, proposers) THEN "MovedOn"
  ELSE "No"

participantsNeeded(participants, percent) ==
  LET result == (participants * percent + percent \div 2) \div 100 IN
  IF result = 0 THEN 1 ELSE result

(* Mutants: a tie keeps the earlier time; a time with 75 percent of the    *)
(* votes is settled although it is below the threshold of the stage.       *)
closeTimeStepFirst(votes, threshConsensus, acc, t) ==
  IF votes[t] > acc.threshVote
    THEN [closeTime |-> t, threshVote |-> votes[t],
          consensus |-> acc.consensus \/ votes[t] >= threshConsensus]
    ELSE acc
closeTimeStepSettles(votes, threshConsensus, acc, t) ==
  IF votes[t] >= acc.threshVote
    THEN [closeTime |-> t, threshVote |-> votes[t],
          consensus |-> acc.consensus \/ votes[t] >= threshConsensus]
    ELSE [acc EXCEPT !.consensus =
            @ \/ (t # 0 /\ votes[t] >= threshConsensus)]

(* The close time vote of updateOurPositions: walk the rounded close times *)
(* in ascending order (votes is a function from time to count), raising    *)
(* the threshold to the best count seen so far.                            *)
closeTimeStep(votes, threshConsensus, acc, t) ==
  IF votes[t] >= acc.threshVote
    THEN [closeTime |-> t, threshVote |-> votes[t],
          consensus |-> acc.consensus \/ votes[t] >= threshConsensus]
    ELSE acc

closeTimeVote(votes, participants, neededWeight) ==
  LET threshConsensus == participantsNeeded(participants, AvCtConsensusPct)
      start == [closeTime |-> 0, consensus |-> FALSE,
                threshVote |-> participantsNeeded(participants, neededWeight)]
      end == MapThenFoldSet(LAMBDA t, acc : closeTimeStep(votes,
                                              threshConsensus, acc, t),
                            start, LAMBDA t : t, Max, DOMAIN votes)
      zeros == IF 0 \in DOMAIN votes THEN votes[0] ELSE 0 IN
  IF ~end.consensus /\ zeros > threshConsensus
    THEN [closeTime |-> 0, consensus |-> TRUE]
    ELSE [closeTime |-> end.closeTime, consensus |-> end.consensus]
===============================================================================
