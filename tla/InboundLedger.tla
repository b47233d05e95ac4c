---------------------------- MODULE InboundLedger ----------------------------
(***************************************************************************)
(* One acquisition of a ledger from peers: InboundLedger                   *)
(* (src/ripple/app/ledger/impl/InboundLedger.cpp), the timer of its base   *)
(* PeerSet (src/ripple/overlay/impl/PeerSet.cpp) and its place in          *)
(* InboundLedgers.  The timer's job, the jobs that process received data,  *)
(* fetch packs and the sweep run concurrently; peers send anything at any  *)
(* time, any number of times, or nothing, so that requests are left out.   *)
(*                                                                         *)
(* A ledger is a header, state nodes and transaction nodes.  mLock is      *)
(* recursive: the timer's job holds it throughout, so it is one action;    *)
(* trigger, called from runData, gives it up while it searches the state   *)
(* map, and calls done without it.                                         *)
(***************************************************************************)
EXTENDS Naturals, Sequences, FiniteSets

CONSTANTS
  Header,        \* the node of the header
  AsNodes,       \* nodes of the state map
  TxNodes,       \* nodes of the transaction map
  AtStart,       \* what the node store may hold when the fetch begins
  History,       \* mReason = fcHISTORY
  ledgerTimeoutRetriesMax,
  ledgerBecomeAggressiveThreshold,
  Kinds,         \* what may be behind mHash
  BadNodes,      \* nodes that are out of bounds in a malformed ledger
  Workers,       \* job queue threads that can run doLedgerData
  MaxQueue       \* bound: packets in mReceivedData

ASSUME NodesAssumption ==
  /\ Header \notin AsNodes \union TxNodes
  /\ AsNodes \intersect TxNodes = {} /\ AsNodes # {}
  /\ ledgerTimeoutRetriesMax \in Nat
  /\ ledgerBecomeAggressiveThreshold \in Nat

(* The job queue has a fixed pool of threads. *)
ASSUME WorkersAssumption == IsFiniteSet(Workers)

(* The node store may hold any nodes of this ledger. *)
ASSUME AtStartAssumption ==
  AtStart \subseteq SUBSET ({Header} \union AsNodes \union TxNodes)

(* mHash may be the hash of a ledger, of a ledger with a zero account      *)
(* hash, of one with a node that is out of bounds in its map, or of an     *)
(* object that is no ledger.                                               *)
ASSUME KindsAssumption ==
  Kinds \subseteq {"ledger", "zero", "malformed", "other"}

Nodes == {Header} \union AsNodes \union TxNodes

(* TMLedgerData packets: liBASE, liAS_NODE, liTX_NODE, and one without     *)
(* nodes.                                                                  *)
Packets == {{Header}} \union (SUBSET AsNodes) \union (SUBSET TxNodes)

VARIABLES
  kind,                \* what is behind mHash
  la,                  \* the flags and counters of the InboundLedger
  mSignaled,
  mapState,            \* state_ of the state map and the transaction map
  mReceivedData,
  mReceiveDispatched,
  jobs,                \* doLedgerData jobs in the queue
  worker,              \* per thread: the runData call in progress
  timer,               \* "off", "armed", or its job is "queued"
  listed,              \* the object is in InboundLedgers::mLedgers
  swept,               \* it has been
  store,               \* nodes in the node store and in fetch packs
  dispatches,          \* LADispatch jobs in the queue
  answered             \* what the rest of the server was told

vars == <<kind, la, mSignaled, mapState, mReceivedData, mReceiveDispatched,
          jobs, worker, timer, listed, swept, store, dispatches, answered>>

data == <<mReceivedData, mReceiveDispatched, jobs>>
signal == <<mSignaled, dispatches>>

Idle == [at |-> "idle", data |-> <<>>, chosen |-> FALSE, missing |-> {}]

RunDataCall ==
  [at: {"idle", "take", "process", "trigger", "search", "relock", "done",
        "signal"},
   data: Seq(Packets), chosen: BOOLEAN, missing: SUBSET AsNodes]

Flags == [mHaveHeader: BOOLEAN, mHaveState: BOOLEAN, mHaveTransactions: BOOLEAN,
          mComplete: BOOLEAN, mFailed: BOOLEAN, mProgress: BOOLEAN,
          mAggressive: BOOLEAN, mTimeouts: Nat]

MapStates == [{"as", "tx"} -> {"synching", "full", "invalid"}]

Init ==
  /\ kind \in Kinds
  /\ la = [mHaveHeader |-> FALSE, mHaveState |-> FALSE,
           mHaveTransactions |-> FALSE, mComplete |-> FALSE,
           mFailed |-> FALSE, mProgress |-> FALSE, mAggressive |-> FALSE,
           mTimeouts |-> 0]
  /\ mSignaled = FALSE
  /\ mapState = [m \in {"as", "tx"} |-> "synching"]
  /\ mReceivedData = <<>> /\ mReceiveDispatched = FALSE /\ jobs = 0
  /\ worker = [w \in Workers |-> Idle]
  /\ timer = "off"
  /\ listed = FALSE /\ swept = FALSE
  /\ store \in AtStart
  /\ dispatches = 0
  /\ answered = "no"

TypeOK ==
  /\ kind \in Kinds
  /\ la \in Flags
  /\ mSignaled \in BOOLEAN /\ mapState \in MapStates
  /\ mReceivedData \in Seq(Packets)
  /\ mReceiveDispatched \in BOOLEAN /\ jobs \in Nat
  /\ worker \in [Workers -> RunDataCall]
  /\ timer \in {"off", "armed", "queued"}
  /\ listed \in BOOLEAN /\ swept \in BOOLEAN
  /\ store \subseteq Nodes
  /\ dispatches \in Nat
  /\ answered \in {"no", "complete", "failed"}

isDone(l) == l.mComplete \/ l.mFailed

-----------------------------------------------------------------------------
(* tryLocal: what the node store and the fetch packs hold of the ledger.   *)
(* An object that is no ledger, or a zero account hash, makes it fail.     *)
tryLocal(l) ==
  LET tx == l.mHaveTransactions \/ TxNodes \subseteq store
      as == l.mHaveState \/ AsNodes \subseteq store
  IN IF ~ l.mHaveHeader /\ Header \notin store THEN l
     ELSE IF kind = "other" THEN [l EXCEPT !.mFailed = TRUE]
     ELSE IF kind = "zero" /\ ~ l.mHaveState
       THEN [l EXCEPT !.mHaveHeader = TRUE, !.mHaveTransactions = tx,
                      !.mFailed = TRUE]
       ELSE [l EXCEPT !.mHaveHeader = TRUE, !.mHaveTransactions = tx,
                      !.mHaveState = as, !.mComplete = @ \/ (tx /\ as)]

(* The parts of trigger, as sets of the flags that they may leave.  A      *)
(* request for missing nodes ends trigger, but filterNodes may drop it     *)
(* because the nodes were asked for recently.                              *)
mayFilter(l) == l.mProgress /\ ~ l.mAggressive

(* trigger, the transaction map. *)
TriggerTx(l) ==
  IF l.mHaveTransactions \/ l.mFailed THEN l
  ELSE IF mapState["tx"] = "invalid" THEN [l EXCEPT !.mFailed = TRUE]
  ELSE IF TxNodes \subseteq store
    THEN [l EXCEPT !.mHaveTransactions = TRUE, !.mComplete = @ \/ l.mHaveState]
    ELSE l

(* Mutant: nothing is tested again after the search. *)
TriggerRestStale(l, missing) ==
  IF missing = {}
    THEN {TriggerTx([l EXCEPT !.mHaveState = TRUE,
                              !.mComplete = @ \/ l.mHaveTransactions])}
    ELSE {l, TriggerTx(l)}

(* trigger, from the result of the search of the state map on. *)
TriggerRest(l, missing) ==
  IF isDone(l) \/ l.mHaveState THEN {TriggerTx(l)}
  ELSE IF missing # {}
    THEN {l} \union (IF mayFilter(l) THEN {TriggerTx(l)} ELSE {})
  ELSE IF mapState["as"] = "invalid" THEN {[l EXCEPT !.mFailed = TRUE]}
    ELSE {TriggerTx([l EXCEPT !.mHaveState = TRUE,
                              !.mComplete = @ \/ l.mHaveTransactions])}

(* trigger, the part that fetches by hash: when nothing is needed the      *)
(* acquisition is complete.  mByHash is left out.                          *)
TriggerByHash(l) ==
  LET needed == \/ ~ l.mHaveHeader
                \/ ~ l.mHaveState /\ ~ AsNodes \subseteq store
                \/ ~ l.mHaveTransactions /\ ~ TxNodes \subseteq store
  IN IF /\ ~ l.mProgress /\ ~ needed
        /\ l.mTimeouts > ledgerBecomeAggressiveThreshold
       THEN {l, [l EXCEPT !.mHaveTransactions = TRUE, !.mHaveState = TRUE,
                          !.mComplete = TRUE]}
       ELSE {l}

(* trigger up to the state map. *)
TriggerStart(l) ==
  LET t == IF l.mHaveHeader THEN l ELSE tryLocal(l)
  IN IF t.mFailed THEN {t} ELSE TriggerByHash(t)

searches(l) == ~ isDone(l) /\ l.mHaveHeader /\ ~ l.mHaveState

(* The rest of trigger when the state map is not searched: it is known, or *)
(* invalid, or there is no header.                                         *)
TriggerUnsearched(l) ==
  IF searches(l) THEN [l EXCEPT !.mFailed = TRUE]
  ELSE IF l.mHaveHeader THEN TriggerTx(l)
  ELSE l

(* trigger with mLock held by the caller too. *)
Trigger(l) ==
  IF isDone(l) THEN {l}
  ELSE UNION {IF searches(t) /\ mapState["as"] # "invalid"
                THEN TriggerRest(t, AsNodes \ store)
                ELSE {TriggerUnsearched(t)} : t \in TriggerStart(l)}

(* done, with mLock held. *)
Done(l) ==
  IF isDone(l) /\ ~ mSignaled
    THEN mSignaled' = TRUE /\ dispatches' = dispatches + 1
    ELSE UNCHANGED signal

-----------------------------------------------------------------------------
(* InboundLedgers::acquire and init.  A ledger that is complete in the     *)
(* node store is returned to the caller and nothing is dispatched.  When   *)
(* tryLocal fails nobody is told and no timer is set.                      *)
Acquire ==
  LET l == tryLocal(la)
  IN /\ ~ listed /\ ~ swept
     /\ listed' = TRUE
     /\ IF isDone(l)
          THEN /\ la' = l
               /\ answered' = IF l.mComplete THEN "complete" ELSE answered
               /\ UNCHANGED timer
          ELSE /\ la' \in IF History THEN {l} ELSE Trigger(l)
               /\ timer' = "armed"
               /\ UNCHANGED answered
     /\ UNCHANGED <<kind, signal, mapState, data, worker, swept, store>>

(* InboundLedgers::sweep takes the object out of mLedgers. *)
Sweep ==
  /\ listed
  /\ listed' = FALSE /\ swept' = TRUE
  /\ UNCHANGED <<kind, la, signal, mapState, data, worker, timer, store,
                 answered>>

(* Another fetch stores a node of this ledger, or a fetch pack brings it. *)
Stash(n) ==
  /\ n \notin store
  /\ store' = store \union {n}
  /\ UNCHANGED <<kind, la, signal, mapState, data, worker, timer, listed,
                 swept, answered>>

(* gotFetchPack, checkLocal. *)
CheckLocal ==
  /\ listed
  /\ ~ isDone(la)
  /\ la' = tryLocal(la)
  /\ Done(la')
  /\ UNCHANGED <<kind, mapState, data, worker, timer, listed, swept, store,
                 answered>>

-----------------------------------------------------------------------------
(* The timer holds a weak pointer: it finds the object while it is listed  *)
(* or a job uses it.                                                       *)
Alive == listed \/ \E w \in Workers : worker[w].at # "idle"

(* TimerEntry.  Under load it re-arms the timer, which is a step that      *)
(* changes nothing.                                                        *)
TimerFires ==
  /\ timer = "armed"
  /\ timer' = IF Alive THEN "queued" ELSE "off"
  /\ UNCHANGED <<kind, la, signal, mapState, data, worker, listed, swept,
                 store, answered>>

(* The flags when the timer's job begins to act (invokeOnTimer). *)
Ticked ==
  IF la.mProgress THEN [la EXCEPT !.mProgress = FALSE]
                  ELSE [la EXCEPT !.mTimeouts = @ + 1]

(* onTimer: give up after too many timeouts, or ask again when there was   *)
(* no progress.                                                            *)
OnTimer(l, wasProgress) ==
  IF l.mTimeouts > ledgerTimeoutRetriesMax
    THEN {[l EXCEPT !.mFailed = TRUE]}
  ELSE IF wasProgress THEN {l}
  ELSE Trigger([tryLocal(l) EXCEPT !.mAggressive = TRUE])

(* Mutant: the timer is not set again after progress. *)
TimerJobOnce ==
  /\ timer = "queued"
  /\ IF isDone(la)
       THEN timer' = "off" /\ UNCHANGED <<la, signal>>
       ELSE /\ la' \in OnTimer(Ticked, la.mProgress)
            /\ Done(la')
            /\ timer' = IF isDone(la') \/ la.mProgress THEN "off"
                                                       ELSE "armed"
  /\ UNCHANGED <<kind, mapState, data, worker, listed, swept, store,
                 answered>>

TimerJob ==
  /\ timer = "queued"
  /\ IF isDone(la)
       THEN timer' = "off" /\ UNCHANGED <<la, signal>>
       ELSE /\ la' \in OnTimer(Ticked, la.mProgress)
            /\ Done(la')
            /\ timer' = IF isDone(la') THEN "off" ELSE "armed"
  /\ UNCHANGED <<kind, mapState, data, worker, listed, swept, store,
                 answered>>

-----------------------------------------------------------------------------
(* gotLedgerData, gotData: a packet is stashed, and a job is dispatched    *)
(* unless there is one.                                                    *)
GotData(p) ==
  /\ listed
  /\ Len(mReceivedData) < MaxQueue
  /\ mReceivedData' = Append(mReceivedData, p)
  /\ mReceiveDispatched' = TRUE
  /\ jobs' = IF mReceiveDispatched THEN jobs ELSE jobs + 1
  /\ UNCHANGED <<kind, la, signal, mapState, worker, timer, listed, swept,
                 store, answered>>

(* doLedgerData: the job runs; the object may have been swept. *)
DoLedgerData(w) ==
  /\ worker[w].at = "idle"
  /\ jobs > 0
  /\ jobs' = jobs - 1
  /\ worker' = IF listed THEN [worker EXCEPT ![w] = [Idle EXCEPT !.at = "take"]]
                         ELSE worker
  /\ UNCHANGED <<kind, la, signal, mapState, mReceivedData,
                 mReceiveDispatched, timer, listed, swept, store, answered>>

(* Mutant: the flag is cleared when the data is taken. *)
TakeDataEarly(w) ==
  /\ worker[w].at = "take"
  /\ mReceiveDispatched' = FALSE
  /\ mReceivedData' = <<>>
  /\ worker' = [worker EXCEPT ![w] =
       IF mReceivedData # <<>>
         THEN [@ EXCEPT !.at = "process", !.data = mReceivedData]
         ELSE IF worker[w].chosen THEN [Idle EXCEPT !.at = "trigger"] ELSE Idle]
  /\ UNCHANGED <<kind, la, signal, mapState, jobs, timer, listed, swept,
                 store, answered>>

(* runData, the section under mReceivedDataLock: take everything, or leave *)
(* the loop and, when a peer sent something, call trigger.                 *)
TakeData(w) ==
  /\ worker[w].at = "take"
  /\ IF mReceivedData = <<>>
       THEN /\ mReceiveDispatched' = FALSE
            /\ worker' = [worker EXCEPT ![w] =
                 IF worker[w].chosen THEN [Idle EXCEPT !.at = "trigger"]
                                     ELSE Idle]
            /\ UNCHANGED mReceivedData
       ELSE /\ worker' = [worker EXCEPT ![w].at = "process",
                                        ![w].data = mReceivedData]
            /\ mReceivedData' = <<>>
            /\ UNCHANGED mReceiveDispatched
  /\ UNCHANGED <<kind, la, signal, mapState, jobs, timer, listed, swept,
                 store, answered>>

Progress(l) == [l EXCEPT !.mProgress = TRUE, !.mAggressive = FALSE]

(* processData on the header: takeHeader.  No header has the hash of an    *)
(* object that is no ledger, and it is then refused.                       *)
TakeHeader ==
  IF la.mHaveHeader \/ isDone(la)
    THEN la' = Progress(la) /\ UNCHANGED <<store, mapState, signal>>
  ELSE IF kind = "other" THEN UNCHANGED <<la, store, mapState, signal>>
  ELSE /\ la' = [Progress(la) EXCEPT !.mHaveHeader = TRUE,
                                     !.mHaveTransactions = (TxNodes = {}),
                                     !.mHaveState = (kind = "zero")]
       /\ store' = store \union {Header}
       /\ mapState' = [m \in {"as", "tx"} |-> "synching"]
       /\ UNCHANGED signal

(* Mutant: late nodes complete an acquisition that has failed. *)
TakeNodesLate(p) ==
  IF la.mHaveHeader
    THEN /\ store' = store \union p
         /\ la' = [Progress(la) EXCEPT !.mComplete = Nodes \subseteq store',
                                      !.mFailed = @ /\ ~ Nodes \subseteq store']
         /\ Done(la')
         /\ UNCHANGED mapState
    ELSE UNCHANGED <<la, store, mapState, signal>>

(* The nodes that addKnownNode takes from p, in a packet all of whose      *)
(* nodes belong to the map m: one that is out of bounds is not stored and  *)
(* makes the map invalid.                                                  *)
outOfBounds(p) ==
  IF kind = "malformed" THEN (p \intersect BadNodes) \ store ELSE {}

AddNodes(m, p) ==
  /\ store' = store \union (p \ outOfBounds(p))
  /\ mapState' = [mapState EXCEPT ![m] =
       IF outOfBounds(p) # {} THEN "invalid" ELSE @]

(* processData on nodes: takeAsNode and takeTxNode.  Without the header    *)
(* they are invalid; what is known already counts as progress.  A map that *)
(* is not synching, because a search has just ended without a missing node *)
(* or because it is invalid, counts as held.                               *)
TakeNodes(p) ==
  LET m == IF p \subseteq AsNodes THEN "as" ELSE "tx"
      had == IF m = "as" THEN la.mHaveState ELSE la.mHaveTransactions
      held == mapState'[m] # "synching"
      as == la.mHaveState \/ (m = "as" /\ held)
      tx == la.mHaveTransactions \/ (m = "tx" /\ held)
  IN IF ~ la.mHaveHeader THEN UNCHANGED <<la, store, mapState, signal>>
     ELSE IF had \/ la.mFailed
       THEN la' = Progress(la) /\ UNCHANGED <<store, mapState, signal>>
       ELSE /\ AddNodes(m, p)
            /\ la' = [Progress(la) EXCEPT
                        !.mHaveState = as, !.mHaveTransactions = tx,
                        !.mComplete = @ \/ (held /\ as /\ tx)]
            /\ Done(la')

(* The same when a later node of the packet is corrupt: takeAsNode and     *)
(* takeTxNode return before they look at the map.                          *)
TakeNodesThenRefuse(p) ==
  LET m == IF p \subseteq AsNodes THEN "as" ELSE "tx"
      had == IF m = "as" THEN la.mHaveState ELSE la.mHaveTransactions
  IN /\ la.mHaveHeader /\ ~ had /\ ~ la.mFailed
     /\ mapState[m] = "synching" /\ outOfBounds(p) = {}
     /\ AddNodes(m, p)
     /\ UNCHANGED <<la, signal>>

(* A packet that processData refuses: one without nodes, or a header for   *)
(* an object that is no ledger.                                            *)
Refused(p) == p = {} \/ (p = {Header} /\ kind = "other" /\ ~ isDone(la))

(* processData on one packet. *)
ProcessData(w) ==
  LET p == Head(worker[w].data)
      rest == Tail(worker[w].data)
  IN /\ worker[w].at = "process"
     /\ worker' = [worker EXCEPT
          ![w].data = rest,
          ![w].chosen = @ \/ ~ Refused(p),
          ![w].at = IF rest = <<>> THEN "take" ELSE "process"]
     /\ CASE p = {} -> UNCHANGED <<la, store, mapState, signal>>
          [] p = {Header} -> TakeHeader
          [] OTHER -> TakeNodes(p) \/ TakeNodesThenRefuse(p)
     /\ UNCHANGED <<kind, data, timer, listed, swept, answered>>

(* trigger from runData, up to the search of the state map, for which it   *)
(* gives up mLock.  When tryLocal fails here done is not called.           *)
TriggerBegins(w) ==
  /\ worker[w].at = "trigger"
  /\ \E t \in IF isDone(la) THEN {la} ELSE TriggerStart(la) :
       IF searches(t) /\ mapState["as"] # "invalid"
         THEN la' = t /\ worker' = [worker EXCEPT ![w].at = "search"]
         ELSE /\ la' = IF isDone(la) THEN la ELSE TriggerUnsearched(t)
              /\ worker' = [worker EXCEPT ![w].at =
                   IF isDone(la') /\ ~ isDone(la) /\ ~ t.mFailed
                     THEN "done" ELSE "idle"]
  /\ UNCHANGED <<kind, signal, mapState, data, timer, listed, swept, store,
                 answered>>

(* getMissingNodes, without mLock. *)
SearchState(w) ==
  /\ worker[w].at = "search"
  /\ worker' = [worker EXCEPT ![w].at = "relock",
                              ![w].missing = AsNodes \ store]
  /\ mapState' = [mapState EXCEPT !["as"] =
       IF AsNodes \subseteq store THEN "full" ELSE @]
  /\ UNCHANGED <<kind, la, signal, data, timer, listed, swept, store,
                 answered>>

(* The rest of trigger, with what may have happened in between. *)
TriggerEnds(w) ==
  /\ worker[w].at = "relock"
  /\ la' \in TriggerRest(la, worker[w].missing)
  /\ worker' = [worker EXCEPT ![w] =
       [Idle EXCEPT !.at = IF isDone(la') THEN "done" ELSE "idle"]]
  /\ UNCHANGED <<kind, signal, mapState, data, timer, listed, swept, store,
                 answered>>

(* done after mLock was released: the test of mSignaled and its assignment *)
(* are two steps.                                                          *)
DoneTests(w) ==
  /\ worker[w].at = "done"
  /\ worker' = [worker EXCEPT ![w].at = IF mSignaled THEN "idle" ELSE "signal"]
  /\ UNCHANGED <<kind, la, signal, mapState, data, timer, listed, swept,
                 store, answered>>

DoneSignals(w) ==
  /\ worker[w].at = "signal"
  /\ worker' = [worker EXCEPT ![w].at = "idle"]
  /\ mSignaled' = TRUE
  /\ dispatches' = dispatches + 1
  /\ UNCHANGED <<kind, la, mapState, data, timer, listed, swept, store,
                 answered>>

(* LADispatch: checkAccept and tryAdvance, or logFailure. *)
LADispatch ==
  /\ dispatches > 0
  /\ dispatches' = dispatches - 1
  /\ answered' = IF la.mComplete /\ ~ la.mFailed THEN "complete" ELSE "failed"
  /\ UNCHANGED <<kind, la, mSignaled, mapState, data, worker, timer, listed,
                 swept, store>>

-----------------------------------------------------------------------------
RunData(w) ==
  \/ TakeData(w) \/ ProcessData(w)
  \/ TriggerBegins(w) \/ SearchState(w) \/ TriggerEnds(w)
  \/ DoneTests(w) \/ DoneSignals(w)

Next ==
  \/ Acquire \/ Sweep \/ CheckLocal
  \/ \E n \in Nodes : Stash(n)
  \/ TimerFires \/ TimerJob
  \/ \E p \in Packets : GotData(p)
  \/ \E w \in Workers : DoLedgerData(w) \/ RunData(w)
  \/ LADispatch

(* The timer fires, also under load, which passes; the jobs run.  No peer  *)
(* need answer.                                                            *)
Fairness ==
  /\ WF_vars(TimerFires) /\ WF_vars(TimerJob)
  /\ WF_vars(\E w \in Workers : DoLedgerData(w))
  /\ \A w \in Workers : WF_vars(RunData(w))
  /\ WF_vars(LADispatch)

Spec == Init /\ [][Next]_vars /\ Fairness

-----------------------------------------------------------------------------
(* The nodes of the ledger: one with a zero account hash has no state.     *)
LedgerNodes == IF kind = "zero" THEN {Header} \union TxNodes ELSE Nodes

(* An acquisition says it is complete only when every node of the ledger   *)
(* is held, although the state map is searched without the lock, and it is *)
(* never both complete and failed.  A ledger whose map is malformed is     *)
(* taken for complete with the first node that shows it, and excepted.     *)
CompleteHasAll ==
  /\ la.mComplete /\ kind # "malformed" => LedgerNodes \subseteq store
  /\ ~ (la.mComplete /\ la.mFailed)

(* The threads that are in the loop of runData. *)
Looping == {w \in Workers : worker[w].at \in {"take", "process"}}

(* Received data always has a job that will process it, also when it comes *)
(* while a job leaves its loop, and never two: a second runData may only   *)
(* begin when the first is past its loop.                                  *)
DataHasJob ==
  listed =>
    /\ mReceivedData # <<>> => mReceiveDispatched
    /\ jobs + Cardinality(Looping) = IF mReceiveDispatched THEN 1 ELSE 0

(* What the rest of the server was told is final: a late packet, a fetch   *)
(* pack or the timer does not turn a failed acquisition into a complete    *)
(* one, also when the end is dispatched twice.                             *)
AnswerFinal ==
  [][answered # "no" => /\ answered' = answered
                        /\ la'.mComplete = la.mComplete
                        /\ la'.mFailed = la.mFailed]_vars

(* Every acquisition ends: the server learns that it is complete or has    *)
(* failed, unless it is swept before.  Peers may put that off for ever     *)
(* with packets that count as progress, and the failure of tryLocal in     *)
(* init or trigger is told to nobody.                                      *)
AcquisitionEnds ==
  <>[](la.mProgress => isDone(la)) =>
    (listed ~> \/ answered # "no" \/ swept
               \/ la.mFailed /\ kind \in {"other", "zero"})
==============================================================================
