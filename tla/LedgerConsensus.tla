--------------------------- MODULE LedgerConsensus ---------------------------
(***************************************************************************)
(* One consensus round of one server: class LedgerConsensusImp with the    *)
(* parts of LedgerProposal, DisputedTx, ConsensusImp, InboundTransactions  *)
(* and NetworkOPs it works with.                                           *)
(*                                                                         *)
(* round is the LedgerConsensusImp object.  Every handler that the code    *)
(* runs under the master lock is one action; its steps are operators from  *)
(* a round to a round, applied in the order of the code.  accept() is a    *)
(* job that runs without that lock and is several actions.                 *)
(*                                                                         *)
(* A transaction set is a subset of Txs and stands for its own hash.  The  *)
(* validations other servers have sent are inputs of the timer: counts of  *)
(* validators per ledger, and how many have moved past our ledger.         *)
(***************************************************************************)
EXTENDS DisputedTx, Functions, TLC

CONSTANTS
  Txs,            \* transactions
  Ledgers,        \* hashes of possible last closed ledgers
  OurLCL,         \* the parent of our open ledger
  Positions,      \* the transaction sets peers propose
  PeerSeqs,       \* the proposal sequence numbers peers use below SeqLeave
  SeqLeave,       \* LedgerProposal::seqLeave
  CloseTimes,     \* close times peers propose
  OurCloseTimes,  \* values of our clock when we close
  Info,           \* LedgerInfo of each ledger; age: seconds from its close
                  \* to the start of the round
  LastCloseAge,   \* the same for consensus_.getLastCloseTime()
  Clocks,         \* instants (ms) at which anything happens
  PreviousProposers,
  PreviousMSeconds,
  StoreLimit,     \* proposals kept per peer: getLastCloseProposers() + 10
  MaxProposals,   \* bound: proposals received
  QuietFrom,      \* bound: peers fall silent at this instant
  Punctual,       \* the heartbeat never misses an instant of Clocks
  None

ASSUME RoundAssumption ==
  /\ IsFiniteSet(Peers)
  /\ OurLCL \in Ledgers
  /\ Positions \subseteq SUBSET Txs
  /\ PeerSeqs \subseteq Nat /\ SeqLeave \in Nat
  /\ \A s \in PeerSeqs : s < SeqLeave
  /\ CloseTimes \subseteq Nat /\ OurCloseTimes \subseteq Nat
  /\ Info \in [Ledgers -> [seq: Nat, agree: BOOLEAN, age: Int,
                           resolution: ToSet(PossibleTimeResolutions)]]
  /\ LastCloseAge \in Int
  /\ Clocks \subseteq Nat /\ 0 \in Clocks
  /\ PreviousProposers \in Nat /\ PreviousMSeconds \in Nat \ {0}
  /\ StoreLimit \in Nat \ {0} /\ MaxProposals \in Nat /\ QuietFrom \in Nat
  /\ Punctual \in BOOLEAN

VARIABLES
  round,      \* the LedgerConsensusImp object
  clock,      \* std::chrono::steady_clock, ms
  openTxs,    \* the transactions of our open ledger
  have,       \* ledgers LedgerMaster::getLedgerByHash can return
  inbound,    \* sets InboundTransactions holds
  gotSet,     \* sets given to InboundTransactions, mapComplete still to come
  stored,     \* ConsensusImp::storedProposals_
  received,   \* number of proposals received
  sent,       \* the proposals we have broadcast, in order
  job,        \* the accept job
  validation  \* the validation accept() has issued

vars == <<round, clock, openTxs, have, inbound, gotSet, stored, received,
          sent, job, validation>>

Proposal ==
  [peer: Peers, prevLedger: Ledgers, seq: PeerSeqs \cup {SeqLeave},
   pos: Positions, closeTime: CloseTimes, time: Clocks]

TxSets == SUBSET Txs
Mine == [prevLedger: Ledgers, seq: Nat, pos: TxSets, closeTime: Nat,
         time: Clocks]
NoPosition == <<>>   \* mOurPosition is null

IsRound(r) ==
  /\ r.state \in {"open", "establish", "finished", "accepted", "ended"}
  /\ r.prevLedgerHash \in Ledgers /\ r.previousLedger \in Ledgers
  /\ r.acquiringLedger \in Ledgers \cup {None}
  /\ r.haveCorrectLCL \in BOOLEAN /\ r.proposing \in BOOLEAN
  /\ r.validating \in BOOLEAN /\ r.consensusFail \in BOOLEAN
  /\ r.haveCloseTimeConsensus \in BOOLEAN
  /\ r.closeResolution \in ToSet(PossibleTimeResolutions)
  /\ r.startTime \in Clocks
  /\ r.ourPosition \in Mine \cup {NoPosition}
  /\ DOMAIN r.peerPositions \subseteq Peers
  /\ \A p \in DOMAIN r.peerPositions :
        r.peerPositions[p] \in Proposal /\ r.peerPositions[p].peer = p
  /\ r.deadNodes \subseteq Peers
  /\ r.acquired \subseteq TxSets /\ r.compares \subseteq TxSets
  /\ r.wanted \subseteq TxSets
  /\ DOMAIN r.disputes \subseteq Txs
  /\ \A t \in DOMAIN r.disputes : r.disputes[t] \in Dispute

(* The round object is well formed; in particular a peer's position is     *)
(* filed under that peer, and the vote counters never go below zero.       *)
TypeOK ==
  /\ IsRound(round)
  /\ clock \in Clocks
  /\ openTxs \subseteq Txs /\ have \subseteq Ledgers
  /\ inbound \subseteq TxSets /\ gotSet \subseteq TxSets
  /\ \A p \in Peers : stored[p] \in Seq(Proposal)
  /\ received \in 0 .. MaxProposals
  /\ sent \in Seq(Mine)
  /\ job \in [at: {"none", "queued", "started", "built"}, set: TxSets]
  /\ validation \in {None} \cup
       [parent: Ledgers, network: Ledgers, set: TxSets, full: BOOLEAN]

-----------------------------------------------------------------------------
(* Partial functions. *)
Put(f, x, v) == [y \in DOMAIN f \cup {x} |-> IF y = x THEN v ELSE f[y]]
Drop(f, S) == Restrict(f, DOMAIN f \ S)
NoFun == [x \in {} |-> None]

OnSet(r, s) == {p \in DOMAIN r.peerPositions : r.peerPositions[p].pos = s}
BowedOut(pos) == pos.seq = SeqLeave
InConsensus(r) == r.ourPosition # NoPosition /\ ~BowedOut(r.ourPosition)

(* What our broadcasts look like: propose(). *)
Propose(log, r) == Append(log, r.ourPosition)

-----------------------------------------------------------------------------
(* Disputes. *)

(* adjustCount: record the vote a set implies for the peers that take it.  *)
AdjustCount(r, s, S) ==
  [r EXCEPT !.disputes =
     [t \in DOMAIN @ |-> SetVote(@[t], S, VoteOf(t, s))]]

UnVoteAll(r, S) ==
  [r EXCEPT !.disputes = [t \in DOMAIN @ |-> UnVote(@[t], S)]]

(* Mutant: our own vote is left out. *)
DisputedUnvoted(r, t) ==
  LET known == {p \in DOMAIN r.peerPositions :
                  r.peerPositions[p].pos \in r.acquired}
      yes == {p \in known : t \in r.peerPositions[p].pos} IN
  SetVote(SetVote(NewDispute(FALSE), yes, "yes"), known \ yes, "no")

(* addDisputedTransaction: our vote and those of the peers whose set we    *)
(* have.                                                                   *)
Disputed(r, t) ==
  LET known == {p \in DOMAIN r.peerPositions :
                  r.peerPositions[p].pos \in r.acquired}
      yes == {p \in known : t \in r.peerPositions[p].pos}
      ours == r.ourPosition # NoPosition /\ t \in r.ourPosition.pos IN
  SetVote(SetVote(NewDispute(ours), yes, "yes"), known \ yes, "no")

(* createDisputes over the differences D; a disputed transaction is kept.  *)
CreateDisputes(r, D) ==
  [r EXCEPT !.disputes =
     [t \in DOMAIN @ \cup D |-> IF t \in DOMAIN @ THEN @[t]
                                ELSE Disputed(r, t)]]

(* Mutant: only what the other set has and ours lacks is disputed. *)
CompareOneWay(r, sets) ==
  [CreateDisputes(r, UNION {s \ r.ourPosition.pos : s \in sets})
     EXCEPT !.compares = @ \cup sets]

(* Compare our position with sets and remember that we did. *)
Compare(r, sets) ==
  [CreateDisputes(r, UNION {SymDiff(r.ourPosition.pos, s) : s \in sets})
     EXCEPT !.compares = @ \cup sets]

(* Record the set and count the peers that take it. *)
Acquire(r, s) ==
  AdjustCount([r EXCEPT !.acquired = @ \cup {s}], s, OnSet(r, s))

(* mapCompleteInternal. *)
MapComplete(r, s) ==
  IF s \in r.acquired THEN r
  ELSE Acquire(IF InConsensus(r) /\ s # r.ourPosition.pos
                 THEN Compare(r, {s}) ELSE r, s)

-----------------------------------------------------------------------------
(* peerPosition, with getTransactionTree.  in is the content of            *)
(* InboundTransactions.                                                    *)
Supersedes(r, prop) ==
  /\ prop.peer \notin r.deadNodes
  /\ prop.peer \in DOMAIN r.peerPositions =>
       prop.seq > r.peerPositions[prop.peer].seq

PeerPosition(r, in, prop) ==
  LET p == prop.peer
      taken == [r EXCEPT !.peerPositions = Put(@, p, prop)] IN
  CASE ~Supersedes(r, prop) -> r
    [] Supersedes(r, prop) /\ BowedOut(prop) ->
         [UnVoteAll(r, {p}) EXCEPT !.peerPositions = Drop(@, {p}),
                                   !.deadNodes = @ \cup {p}]
    [] Supersedes(r, prop) /\ ~BowedOut(prop) ->
         IF prop.pos \in r.acquired \cup in
           THEN AdjustCount([taken EXCEPT !.acquired = @ \cup {prop.pos}],
                            prop.pos, {p})
           ELSE [taken EXCEPT !.wanted = @ \cup {prop.pos}]

(* playbackProposals: peerPosition for each stored proposal made on the    *)
(* ledger we now think is the last closed one.  handleLCL has just dropped *)
(* all positions, dead nodes and disputes, and peers do not touch each     *)
(* other's, so the calls leave a peer dead if it bowed out, and otherwise  *)
(* at the last of its proposals that superseded the ones before it.        *)
PlaybackProposals(r, in, props) ==
  LET played(p) == {i \in DOMAIN props[p] :
                      props[p][i].prevLedger = r.prevLedgerHash}
      taken(p) == {i \in played(p) :
                     /\ ~BowedOut(props[p][i])
                     /\ \A j \in played(p) : j < i =>
                          /\ ~BowedOut(props[p][j])
                          /\ props[p][j].seq < props[p][i].seq}
      dead == {p \in Peers : \E i \in played(p) : BowedOut(props[p][i])}
      sets == UNION {{props[p][i].pos : i \in taken(p)} : p \in Peers} IN
  [r EXCEPT !.peerPositions = [p \in {q \in Peers \ dead : taken(q) # {}} |->
                                 props[p][Max(taken(p))]],
            !.deadNodes = dead,
            !.acquired = @ \cup (sets \cap in),
            !.wanted = @ \cup (sets \ (r.acquired \cup in))]

BowOut(pos) == [pos EXCEPT !.seq = SeqLeave, !.time = clock]

(* Mutants: the votes outlive the positions; we go on proposing. *)
ForgetRoundKeepDisputes(r, lcl) ==
  [r EXCEPT !.prevLedgerHash = lcl, !.proposing = FALSE,
            !.peerPositions = NoFun, !.deadNodes = {}]
ForgetRoundProposing(r, lcl) ==
  [r EXCEPT !.prevLedgerHash = lcl, !.peerPositions = NoFun,
            !.disputes = NoFun, !.deadNodes = {}]

(* What handleLCL throws away; mCompares and mAcquired stay. *)
ForgetRound(r, lcl) ==
  [r EXCEPT !.prevLedgerHash = lcl, !.proposing = FALSE,
            !.peerPositions = NoFun, !.disputes = NoFun, !.deadNodes = {}]

(* handleLCL.  m is [r: round, sent: broadcasts]. *)
SwitchLCL(m, in, props, lcl) ==
  LET bow == m.r.haveCorrectLCL /\ m.r.proposing /\ m.r.ourPosition # NoPosition
      bowed == IF bow THEN [m.r EXCEPT !.ourPosition = BowOut(@)] ELSE m.r IN
  [r |-> PlaybackProposals(ForgetRound(bowed, lcl), in, props),
   sent |-> IF bow THEN Propose(m.sent, bowed) ELSE m.sent]

(* The resolution of close times in a round on top of ledger l. *)
CloseResolutionOn(l) ==
  getNextLedgerTimeResolution(Info[l].resolution, Info[l].agree,
                              Info[l].seq + 1)

WorkFromLCL(r, lcl) ==
  CASE r.previousLedger = lcl -> r
    [] r.previousLedger # lcl /\ lcl \in have ->
         [r EXCEPT !.previousLedger = lcl, !.haveCorrectLCL = TRUE,
                   !.closeResolution = CloseResolutionOn(lcl)]
    [] r.previousLedger # lcl /\ lcl \notin have ->
         IF r.acquiringLedger = lcl THEN r
         ELSE [r EXCEPT !.acquiringLedger = lcl, !.haveCorrectLCL = FALSE]

HandleLCL(m, lcl) ==
  LET m1 == IF m.r.prevLedgerHash = lcl THEN m
            ELSE SwitchLCL(m, inbound, stored, lcl) IN
  [m1 EXCEPT !.r = WorkFromLCL(@, lcl)]

(* checkLCL: the ledger most validators are on, ours if it is among them;  *)
(* ties between others fall to the order of a hash map.                    *)
NetLedgers(r, counts) ==
  LET most == {l \in Ledgers : counts[l] > 0
                 /\ \A x \in Ledgers : counts[x] =< counts[l]} IN
  IF most = {} \/ r.prevLedgerHash \in most THEN {r.prevLedgerHash} ELSE most

CheckLCL(m, netLgr) ==
  IF netLgr # m.r.prevLedgerHash \/ m.r.previousLedger # m.r.prevLedgerHash
    THEN HandleLCL(m, netLgr) ELSE m

-----------------------------------------------------------------------------
(* closeLedger and takeInitialPosition: our open transactions become our   *)
(* position, which is compared with the peers' sets we have.               *)
InitialPosition(r, closeTime) ==
  [r EXCEPT !.state = "establish", !.startTime = clock,
            !.ourPosition = [prevLedger |-> OurLCL, seq |-> 0, pos |-> openTxs,
                             closeTime |-> closeTime, time |-> clock],
            !.disputes = [t \in DOMAIN @ |->
                            [@[t] EXCEPT !.ourVote = t \in openTxs]]]

PeerSets(r) == {r.peerPositions[p].pos : p \in DOMAIN r.peerPositions}

TakePosition(r) == Compare(r, PeerSets(r) \cap r.acquired)

CloseLedger(m, closeTime) ==
  LET r == TakePosition(InitialPosition(MapComplete(m.r, openTxs), closeTime)) IN
  [r |-> r, sent |-> IF m.r.proposing THEN Propose(m.sent, r) ELSE m.sent]

(* Milliseconds since the last ledger closed, from clocks in seconds: the  *)
(* consensus close time if there is one, else the time we saw it close.    *)
SinceClose(r) ==
  1000 * (clock \div 1000 +
            IF r.haveCorrectLCL /\ Info[r.previousLedger].agree
              THEN Info[r.previousLedger].age ELSE LastCloseAge)

IdleInterval(r) ==
  Max({LedgerIdleInterval, 2 * Info[r.previousLedger].resolution})

StatePreClose(m, validated, closeTime) ==
  IF shouldCloseLedger(openTxs # {}, PreviousProposers,
                       Cardinality(DOMAIN m.r.peerPositions), validated,
                       PreviousMSeconds, SinceClose(m.r),
                       clock - m.r.startTime, IdleInterval(m.r))
    THEN CloseLedger(m, closeTime) ELSE m

-----------------------------------------------------------------------------
(* updateOurPositions. *)

(* Mutant: stale peers are never dropped. *)
DropStaleNever(r) == r

DropStale(r) ==
  LET stale == {p \in DOMAIN r.peerPositions :
                  clock - r.peerPositions[p].time >= ProposeFreshness} IN
  [UnVoteAll(r, stale) EXCEPT !.peerPositions = Drop(@, stale)]

ClosePercent(r) == ((clock - r.startTime) * 100) \div PreviousMSeconds

UpdateVotes(r) ==
  [r EXCEPT !.disputes =
     [t \in DOMAIN @ |-> [@[t] EXCEPT !.ourVote =
                            UpdatedVote(r.disputes[t], ClosePercent(r),
                                        r.proposing)]]]

CloseVotes(r) ==
  LET rounded(pos) == roundCloseTime(pos.closeTime, r.closeResolution)
      theirs == [p \in DOMAIN r.peerPositions |-> rounded(r.peerPositions[p])]
      ours == rounded(r.ourPosition)
      times == Range(theirs) \cup (IF r.proposing THEN {ours} ELSE {}) IN
  [t \in times |->
     Cardinality({p \in DOMAIN theirs : theirs[p] = t})
     + (IF r.proposing /\ t = ours THEN 1 ELSE 0)]

(* Mutant: mHaveCloseTimeConsensus is not reset. *)
CloseTimeChoiceSticky(r) ==
  IF DOMAIN r.peerPositions = {}
    THEN [closeTime |-> roundCloseTime(r.ourPosition.closeTime, r.closeResolution),
          consensus |-> TRUE]
    ELSE LET vote == closeTimeVote(CloseVotes(r),
                       Cardinality(DOMAIN r.peerPositions)
                         + (IF r.proposing THEN 1 ELSE 0),
                       AvalancheThreshold(ClosePercent(r))) IN
         [vote EXCEPT !.consensus = @ \/ r.haveCloseTimeConsensus]

CloseTimeChoice(r) ==
  IF DOMAIN r.peerPositions = {}
    THEN [closeTime |-> roundCloseTime(r.ourPosition.closeTime, r.closeResolution),
          consensus |-> TRUE]
    ELSE closeTimeVote(CloseVotes(r),
                       Cardinality(DOMAIN r.peerPositions)
                         + (IF r.proposing THEN 1 ELSE 0),
                       AvalancheThreshold(ClosePercent(r)))

(* changePosition, unless we bowed out; the new set becomes known. *)
ChangePosition(m, r) ==
  [r |-> MapComplete(r, r.ourPosition.pos),
   sent |-> IF r.proposing THEN Propose(m.sent, r) ELSE m.sent]

(* The position moves when a vote or the close time does, and when it is   *)
(* about to get stale.  r: the round after the votes; choice: the vote on  *)
(* the close time.                                                         *)
Reposition(m, r, flips, choice) ==
  LET ours == r.ourPosition
      yes == {t \in flips : r.disputes[t].ourVote} IN
  IF /\ ~BowedOut(ours)
     /\ \/ flips # {}
        \/ choice.closeTime # roundCloseTime(ours.closeTime, r.closeResolution)
        \/ clock - ours.time >= ProposeInterval
    THEN ChangePosition(m,
           [r EXCEPT !.haveCloseTimeConsensus = choice.consensus,
                     !.ourPosition.pos = (@ \cup yes) \ (flips \ yes),
                     !.ourPosition.closeTime = choice.closeTime,
                     !.ourPosition.time = clock,
                     !.ourPosition.seq = @ + 1])
    ELSE [m EXCEPT !.r = [r EXCEPT !.haveCloseTimeConsensus =
                                     choice.consensus]]

Flips(before, after) ==
  {t \in DOMAIN after.disputes :
     after.disputes[t].ourVote # before.disputes[t].ourVote}

VoteAndReposition(m, r, voted) ==
  Reposition(m, voted, Flips(r, voted), CloseTimeChoice(voted))

VoteWith(m, r) == VoteAndReposition(m, r, UpdateVotes(r))

UpdateOurPositions(m) == VoteWith(m, DropStale(m.r))

(* haveConsensus: disputes for the sets we have not compared yet, then the *)
(* count.                                                                  *)
Uncompared(r) ==
  {s \in r.acquired \ r.compares :
     s # r.ourPosition.pos /\ OnSet(r, s) # {}}

GenerateDisputes(r) ==
  IF r.ourPosition.pos \in r.acquired
    THEN Compare(r, Uncompared(r)) ELSE r

ConsensusOf(r, finished) ==
  checkConsensus(PreviousProposers, Cardinality(DOMAIN r.peerPositions),
                 Cardinality(OnSet(r, r.ourPosition.pos)), finished,
                 PreviousMSeconds, clock - r.startTime)

(* The end of stateEstablish: the round is finished when the transactions  *)
(* and the close time are.                                                 *)
Finish(r, result) ==
  IF result = "No" THEN r
  ELSE [r EXCEPT !.consensusFail = result = "MovedOn",
                 !.state = IF r.haveCloseTimeConsensus THEN "finished" ELSE @]

Conclude(r, finished) == Finish(r, ConsensusOf(r, finished))

StateEstablish(m, finished) ==
  IF clock - m.r.startTime < LedgerMinConsensus THEN m
  ELSE [UpdateOurPositions(m) EXCEPT !.r =
          Conclude(GenerateDisputes(@), finished)]

-----------------------------------------------------------------------------
(* The constructor.  NetworkOPs hands over a wrong ledger only after it    *)
(* has left omFULL (checkLastClosedLedger), so such a round starts without *)
(* proposing.                                                              *)
NewRound(network, proposing, validating) ==
  [state |-> "open", prevLedgerHash |-> network, previousLedger |-> OurLCL,
   acquiringLedger |-> None, haveCorrectLCL |-> network = OurLCL,
   proposing |-> proposing, validating |-> validating,
   consensusFail |-> FALSE, haveCloseTimeConsensus |-> FALSE,
   closeResolution |-> CloseResolutionOn(OurLCL),
   startTime |-> 0, ourPosition |-> NoPosition, peerPositions |-> NoFun,
   deadNodes |-> {}, acquired |-> {}, compares |-> {}, wanted |-> {},
   disputes |-> NoFun]

Init ==
  /\ clock = 0
  /\ openTxs \in Positions
  /\ have = {OurLCL}
  /\ inbound = {{}}
  /\ gotSet = {}
  /\ stored = [p \in Peers |-> <<>>]
  /\ received = 0
  /\ sent = <<>>
  /\ job = [at |-> "none", set |-> {}]
  /\ validation = None
  /\ \E network \in Ledgers, mode \in {"watching", "validating", "full"} :
       /\ network # OurLCL => mode # "full"
       /\ round = WorkFromLCL(NewRound(network, mode = "full",
                                       mode # "watching"), network)

(* The step of the state we are in. *)
TimerStep(m, validators, closeTime) ==
  IF m.r.state = "open" THEN StatePreClose(m, validators, closeTime)
                        ELSE StateEstablish(m, validators)

(* timerEntry, called by the heartbeat: check the ledger we work on, then  *)
(* the step of the state we are in.  netLgr: the ledger checkLCL finds;    *)
(* validators: those that validated our ledger (in state open) or are past *)
(* it (in state establish).                                                *)
Timer(m, netLgr, validators, closeTime) ==
  TimerStep(CheckLCL(m, netLgr), validators, closeTime)

Now == [r |-> round, sent |-> sent]

TimerEntry(counts, validators, closeTime) ==
  /\ round.state \in {"open", "establish"}
  /\ \E m \in {Timer(Now, netLgr, validators, closeTime) :
                 netLgr \in NetLedgers(round, counts)} :
       LET mine == IF m.r.ourPosition = NoPosition THEN {}
                   ELSE {m.r.ourPosition.pos} IN
       /\ round' = m.r
       /\ sent' = m.sent
       /\ inbound' = inbound \cup mine
       /\ job' = IF m.r.state = "finished"
                   THEN [at |-> "queued", set |-> m.r.ourPosition.pos]
                   ELSE job
  /\ UNCHANGED <<clock, openTxs, have, gotSet, stored, received, validation>>

(* processTrustedProposal: store the proposal, then take it if it is made  *)
(* on our last closed ledger.                                              *)
TrustedProposal(prop) ==
  /\ round.state # "ended"
  /\ received < MaxProposals /\ clock < QuietFrom
  /\ received' = received + 1
  /\ stored' = [stored EXCEPT ![prop.peer] =
       Append(IF Len(@) >= StoreLimit THEN Tail(@) ELSE @, prop)]
  /\ round' = IF prop.prevLedger = round.prevLedgerHash
                THEN PeerPosition(round, inbound, prop) ELSE round
  /\ UNCHANGED <<clock, openTxs, have, inbound, gotSet, sent, job, validation>>

(* InboundTransactions::giveSet for an acquired set makes it available     *)
(* under its own lock; NetworkOPs::mapComplete then waits for the master   *)
(* lock.                                                                   *)
GiveSet(s) ==
  /\ s \in round.wanted \ inbound
  /\ inbound' = inbound \cup {s}
  /\ gotSet' = gotSet \cup {s}
  /\ UNCHANGED <<round, clock, openTxs, have, stored, received, sent, job,
                 validation>>

GotSet(s) ==
  /\ s \in gotSet
  /\ round.state # "ended"
  /\ gotSet' = gotSet \ {s}
  /\ round' = MapComplete(round, s)
  /\ UNCHANGED <<clock, openTxs, have, inbound, stored, received, sent, job,
                 validation>>

(* A ledger we were acquiring arrives. *)
AcquireLedger(l) ==
  /\ l \notin have
  /\ round.acquiringLedger = l
  /\ have' = have \cup {l}
  /\ UNCHANGED <<round, clock, openTxs, inbound, gotSet, stored, received,
                 sent, job, validation>>

(* accept(): first the section under the master lock, ... *)
AcceptStart ==
  /\ job.at = "queued"
  /\ job' = [job EXCEPT !.at = "started"]
  /\ stored' = [p \in Peers |-> <<>>]
  /\ UNCHANGED <<round, clock, openTxs, have, inbound, gotSet, received, sent,
                 validation>>

(* Mutant: the disputed transactions we voted for are retried. *)
RetriedYes(r) == {t \in DOMAIN r.disputes : r.disputes[t].ourVote}

Retried(r) == {t \in DOMAIN r.disputes : ~r.disputes[t].ourVote}

(* ... then the new ledger is built, validated and pushed without it; the  *)
(* disputed transactions we voted against go into the next open ledger.    *)
AcceptBuild ==
  /\ job.at = "started"
  /\ job' = [job EXCEPT !.at = "built"]
  /\ openTxs' = (openTxs \ job.set) \cup Retried(round)
  /\ round' = [round EXCEPT !.state = "accepted"]
  /\ validation' =
       IF round.validating /\ ~round.consensusFail
         THEN [parent |-> round.previousLedger,
               network |-> round.prevLedgerHash,
               set |-> job.set, full |-> round.proposing]
         ELSE None
  /\ UNCHANGED <<clock, have, inbound, gotSet, stored, received, sent>>

(* timerEntry in state accepted: endConsensus drops the round. *)
EndConsensus ==
  /\ round.state = "accepted"
  /\ round' = [round EXCEPT !.state = "ended"]
  /\ UNCHANGED <<clock, openTxs, have, inbound, gotSet, stored, received, sent,
                 job, validation>>

(* The timer has something to do, whatever it learns from the validations. *)
TimerActs ==
  /\ round.state \in {"open", "establish"}
  /\ \A netLgr \in Ledgers, validators \in 0 .. Cardinality(Peers),
        closeTime \in OurCloseTimes :
        Timer(Now, netLgr, validators, closeTime) # Now

MayTick == (\E c \in Clocks : c > clock) /\ (Punctual => ~TimerActs)

Tick ==
  /\ MayTick
  /\ \E c \in Clocks :
       /\ c > clock /\ ~\E d \in Clocks : d > clock /\ d < c
       /\ clock' = c
  /\ UNCHANGED <<round, openTxs, have, inbound, gotSet, stored, received, sent,
                 job, validation>>

Counts == [Ledgers -> 0 .. 1]

Next ==
  \/ \E counts \in Counts, validators \in 0 .. Cardinality(Peers),
        closeTime \in OurCloseTimes :
        TimerEntry(counts, validators, closeTime)
  \/ \E p \in Peers, l \in Ledgers, seq \in PeerSeqs \cup {SeqLeave},
        pos \in Positions, ct \in CloseTimes :
        TrustedProposal([peer |-> p, prevLedger |-> l, seq |-> seq,
                         pos |-> pos, closeTime |-> ct, time |-> clock])
  \/ \E s \in TxSets : GiveSet(s) \/ GotSet(s)
  \/ \E l \in Ledgers : AcquireLedger(l)
  \/ AcceptStart
  \/ AcceptBuild
  \/ EndConsensus
  \/ Tick

(* The heartbeat timer keeps firing, time passes, and the accept job runs. *)
(* The first conjunct asks for a call of the timer only while one has      *)
(* something to do whatever its inputs are, which is less than weak        *)
(* fairness; the second is the weak fairness of Tick, with its enabling    *)
(* condition written out.                                                  *)
Fairness ==
  /\ \/ []<>~TimerActs
     \/ []<><<\E counts \in Counts, validators \in 0 .. Cardinality(Peers),
                closeTime \in OurCloseTimes :
                TimerEntry(counts, validators, closeTime)>>_vars
  /\ []<>~MayTick \/ []<><<Tick>>_vars
  /\ WF_vars(AcceptStart) /\ WF_vars(AcceptBuild) /\ WF_vars(EndConsensus)

Spec == Init /\ [][Next]_vars /\ Fairness

-----------------------------------------------------------------------------
(* The two counters of every disputed transaction are the sums of the      *)
(* votes on record, after any sequence of new, changed and withdrawn votes.*)
VotesCounted ==
  \A t \in DOMAIN round.disputes :
    LET d == round.disputes[t] IN
    d.yays = Holding(d, Peers, "yes") /\ d.nays = Holding(d, Peers, "no")

(* Only peers whose position we track have votes: a peer that bowed out,   *)
(* went stale or was dropped with the old ledger leaves none behind, and a *)
(* dead node is not tracked.                                               *)
VotersTracked ==
  /\ \A t \in DOMAIN round.disputes, p \in Peers :
       round.disputes[t].votes[p] # "none" => p \in DOMAIN round.peerPositions
  /\ round.deadNodes \cap DOMAIN round.peerPositions = {}

(* While we have not bowed out, our vote on a disputed transaction says    *)
(* whether it is in the set we propose.  We always hold that set, so       *)
(* beginAccept cannot abort, and the set the accept job was given is still *)
(* our position when it runs, which accept() asserts, although proposals   *)
(* and sets keep arriving.                                                 *)
VoteMatchesPosition ==
  /\ InConsensus(round) =>
       \A t \in DOMAIN round.disputes :
         round.disputes[t].ourVote <=> t \in round.ourPosition.pos
  /\ round.ourPosition # NoPosition => round.ourPosition.pos \in round.acquired
  /\ job.at \in {"queued", "started"} => job.set = round.ourPosition.pos

(* A tracked peer whose set we have, once mapComplete has run for it, is   *)
(* counted on every disputed transaction according to that set:            *)
(* mapCompleteInternal "Adjust tracking for each peer that takes this      *)
(* position".  The code does not keep this: a proposal that arrives        *)
(* between giveSet and mapComplete acquires the set for its own peer only, *)
(* and mapComplete then finds nothing to do.                               *)
PeerVotesCurrent ==
  \A t \in DOMAIN round.disputes, p \in DOMAIN round.peerPositions :
    LET s == round.peerPositions[p].pos IN
    s \in round.acquired \ gotSet => round.disputes[t].votes[p] = VoteOf(t, s)

(* While we propose, every transaction on which our position and a set     *)
(* that we compared it with, and that a tracked peer takes, differ is      *)
(* disputed, also after our position has changed: "Make sure we have       *)
(* generated disputes" in haveConsensus skips the sets already compared.   *)
(* handleLCL drops the disputes and keeps mCompares, so it matters that it *)
(* also stops us from proposing.                                           *)
DisputesCoverDifferences ==
  round.proposing /\ InConsensus(round) =>
    \A s \in round.compares :
      OnSet(round, s) # {} =>
        SymDiff(round.ourPosition.pos, s) \subseteq DOMAIN round.disputes

(* A server that proposes works on the ledger it believes the network      *)
(* closed, and so do the proposals and the full validation it sends; its   *)
(* broadcasts carry growing sequence numbers and nothing follows the one   *)
(* with which it bows out, so peers never discard one as old.              *)
ProposingInSync ==
  /\ round.proposing =>
       /\ round.haveCorrectLCL
       /\ round.previousLedger = round.prevLedgerHash
       /\ round.ourPosition # NoPosition =>
            round.ourPosition.prevLedger = round.prevLedgerHash
  /\ validation # None /\ validation.full =>
       validation.parent = validation.network
  /\ \A i, j \in DOMAIN sent : i < j => sent[i].seq < sent[j].seq

(* mHaveCorrectLCL is only true while the ledger we work from is the one   *)
(* the network closed, as the constructor defines it.  The code does not   *)
(* keep this: see the README.                                              *)
CorrectLCLMeansIt ==
  round.haveCorrectLCL => round.previousLedger = round.prevLedgerHash

RetriesLosers ==
  job.at = "started" /\ job'.at = "built" =>
    \A t \in DOMAIN round.disputes : t \notin job.set => t \in openTxs'

(* "Apply disputed transactions that didn't get in": unless we bowed out   *)
(* of the round, every disputed transaction outside the accepted set gets  *)
(* into the next open ledger, whatever the votes, the late sets and the    *)
(* changes of ledger before were.                                          *)
LosersRetried == [][InConsensus(round) => RetriesLosers]_vars

(* A close time is settled only when at least half of the participants     *)
(* stand behind it: the flag haveConsensus reads is the outcome of the     *)
(* close time vote of this very timer call, over the peers still tracked   *)
(* and at the resolution of the ledger we work from now.                   *)
CloseTimeSupported ==
  [][round.state = "establish" /\ round'.state = "finished"
       /\ InConsensus(round') =>
       LET us == IF round'.proposing THEN 1 ELSE 0
           rounded(pos) == roundCloseTime(pos.closeTime,
                             CloseResolutionOn(round'.previousLedger))
           behind == {p \in DOMAIN round'.peerPositions :
                        rounded(round'.peerPositions[p])
                          = rounded(round'.ourPosition)} IN
       2 * (Cardinality(behind) + us)
         >= Cardinality(DOMAIN round'.peerPositions) + us]_vars

(* The round ends: silent peers go stale and are dropped, so a server that *)
(* hears nothing more reaches consensus with itself.                       *)
RoundEnds == <>(round.state = "ended")
==============================================================================
