------------------------- MODULE InboundLedger_proofs ------------------------
(***************************************************************************)
(* Proofs about InboundLedger, for any ledger, any number of threads and   *)
(* any behaviour of the peers: an acquisition that says it is complete     *)
(* holds every node, received data has exactly one job, and the outcome    *)
(* the server was told never changes.                                      *)
(***************************************************************************)
EXTENDS InboundLedger, FiniteSetTheorems, SequenceTheorems, TLAPS

(* The flags say only what the node store confirms, but for a map that is  *)
(* malformed and for the state of a ledger with a zero account hash.       *)
Honest(l) ==
  /\ l.mHaveHeader => Header \in store /\ kind # "other"
  /\ l.mHaveState => AsNodes \subseteq store \/ kind \in {"zero", "malformed"}
  /\ l.mHaveTransactions => TxNodes \subseteq store \/ kind = "malformed"
  /\ l.mComplete => l.mHaveHeader /\ l.mHaveState /\ l.mHaveTransactions
  /\ ~ (l.mComplete /\ l.mFailed)

(* What the states of the maps stand for. *)
MapsHold ==
  /\ mapState["as"] = "full" => AsNodes \subseteq store
  /\ mapState["tx"] = "full" => TxNodes \subseteq store
  /\ \A m \in {"as", "tx"} : mapState[m] = "invalid" => kind = "malformed"

(* What is known without the lock stays true until it is used: the end of  *)
(* a search, whether kept in mapState or by the thread that searched.      *)
SearchesHold ==
  /\ MapsHold
  /\ \A w \in Workers :
       /\ worker[w].at \in {"search", "relock"} => la.mHaveHeader
       /\ worker[w].at = "relock" /\ worker[w].missing = {} =>
            AsNodes \subseteq store

(* A thread in the inner loop of runData has a packet to process. *)
LoopHasData ==
  \A w \in Workers : worker[w].at = "process" => worker[w].data # <<>>

(* The end is dispatched, and the server told, only of an acquisition that *)
(* has ended, and what it was told is so.                                  *)
EndIsReal ==
  /\ dispatches > 0 => isDone(la)
  /\ \A w \in Workers : worker[w].at \in {"done", "signal"} => isDone(la)
  /\ answered = "complete" => la.mComplete
  /\ answered = "failed" => la.mFailed

(* Before InboundLedgers::acquire nothing has happened. *)
Fresh ==
  ~ listed /\ ~ swept =>
    /\ \A w \in Workers : worker[w].at = "idle"
    /\ mReceivedData = <<>> /\ ~ mReceiveDispatched /\ jobs = 0
    /\ timer = "off" /\ dispatches = 0 /\ answered = "no"
    /\ ~ isDone(la)

AcquireInv ==
  TypeOK /\ Honest(la) /\ SearchesHold /\ LoopHasData /\ EndIsReal /\ Fresh

-----------------------------------------------------------------------------
(* What tryLocal and the parts of trigger do to the flags. *)

LEMMA TryLocal ==
  ASSUME NEW l \in Flags, Honest(l), ~ isDone(l)
  PROVE  /\ tryLocal(l) \in Flags /\ Honest(tryLocal(l))
         /\ l.mHaveHeader => tryLocal(l).mHaveHeader
  BY DEF tryLocal, Flags, Honest, isDone

(* Flags k that trigger may leave when it is called with the flags l: they *)
(* stay honest, and an acquisition that has ended stays as it is.          *)
Sound(l, k) ==
  /\ k \in Flags /\ Honest(k)
  /\ l.mHaveHeader => k.mHaveHeader
  /\ isDone(l) => k.mComplete = l.mComplete /\ k.mFailed = l.mFailed

LEMMA TriggerTxSound ==
  ASSUME NEW l \in Flags, Honest(l), l.mHaveHeader
  PROVE  Sound(l, TriggerTx(l))
  <1>1. CASE l.mHaveTransactions \/ l.mFailed
    <2>1. TriggerTx(l) = l
      BY <1>1 DEF TriggerTx
    <2> QED BY <2>1 DEF Sound
  <1>2. CASE ~ (l.mHaveTransactions \/ l.mFailed) /\ mapState["tx"] = "invalid"
    <2>1. TriggerTx(l) = [l EXCEPT !.mFailed = TRUE]
      BY <1>2 DEF TriggerTx
    <2> QED BY <1>2, <2>1 DEF Sound, Flags, Honest, isDone
  <1>3. CASE /\ ~ (l.mHaveTransactions \/ l.mFailed)
             /\ mapState["tx"] # "invalid" /\ TxNodes \subseteq store
    <2>1. TriggerTx(l) = [l EXCEPT !.mHaveTransactions = TRUE,
                                   !.mComplete = @ \/ l.mHaveState]
      BY <1>3 DEF TriggerTx
    <2> QED BY <1>3, <2>1 DEF Sound, Flags, Honest, isDone
  <1>4. CASE /\ ~ (l.mHaveTransactions \/ l.mFailed)
             /\ mapState["tx"] # "invalid" /\ ~ TxNodes \subseteq store
    <2>1. TriggerTx(l) = l
      BY <1>4 DEF TriggerTx
    <2> QED BY <2>1 DEF Sound
  <1> QED BY <1>1, <1>2, <1>3, <1>4

(* A map that is found invalid ends an acquisition that had not ended. *)
LEMMA FailedSound ==
  ASSUME NEW l \in Flags, Honest(l), ~ isDone(l)
  PROVE  Sound(l, [l EXCEPT !.mFailed = TRUE])
  BY DEF Sound, Flags, Honest, isDone

LEMMA TriggerRestSound ==
  ASSUME NEW l \in Flags, Honest(l), l.mHaveHeader,
         NEW missing \in SUBSET AsNodes,
         missing = {} => AsNodes \subseteq store,
         NEW k \in TriggerRest(l, missing)
  PROVE  Sound(l, k)
  <1> DEFINE full == [l EXCEPT !.mHaveState = TRUE,
                               !.mComplete = @ \/ l.mHaveTransactions]
  <1>1. CASE k = TriggerTx(l)
    BY <1>1, TriggerTxSound
  <1>2. CASE ~ isDone(l) /\ ~ l.mHaveState /\ missing = {} /\ k = TriggerTx(full)
    <2>1. full \in Flags /\ Honest(full) /\ full.mHaveHeader
      BY <1>2 DEF Flags, Honest, isDone
    <2>2. Sound(full, k)
      BY <1>2, <2>1, TriggerTxSound
    <2> QED BY <1>2, <2>1, <2>2 DEF Sound
  <1>3. CASE k = l
    BY <1>3 DEF Sound
  <1>4. CASE ~ isDone(l) /\ k = [l EXCEPT !.mFailed = TRUE]
    BY <1>4, FailedSound
  <1> QED BY <1>1, <1>2, <1>3, <1>4 DEF TriggerRest

LEMMA TriggerStartSound ==
  ASSUME NEW l \in Flags, Honest(l), ~ isDone(l), NEW t \in TriggerStart(l)
  PROVE  Sound(l, t)
  <1> DEFINE u == IF l.mHaveHeader THEN l ELSE tryLocal(l)
             all == [u EXCEPT !.mHaveTransactions = TRUE, !.mHaveState = TRUE,
                              !.mComplete = TRUE]
  <1>1. u \in Flags /\ Honest(u) /\ (l.mHaveHeader => u.mHaveHeader)
    BY TryLocal
  <1>2. CASE t = u
    BY <1>1, <1>2 DEF Sound
  <1>3. CASE /\ ~ u.mFailed /\ t = all /\ u.mHaveHeader
             /\ u.mHaveState \/ AsNodes \subseteq store
             /\ u.mHaveTransactions \/ TxNodes \subseteq store
    <2> HIDE DEF u
    <2> QED BY <1>1, <1>3 DEF Sound, Flags, Honest
  <1>4. t = u \/ <1>3!1
    <2>1. CASE u.mFailed
      BY <2>1 DEF TriggerStart
    <2>2. CASE ~ u.mFailed
      <3>1. t \in TriggerByHash(u)
        BY <2>2 DEF TriggerStart
      <3> HIDE DEF u
      <3> QED BY <2>2, <3>1 DEF TriggerByHash
    <2> QED BY <2>1, <2>2
  <1> QED BY <1>2, <1>3, <1>4

LEMMA TriggerUnsearchedSound ==
  ASSUME NEW l \in Flags, Honest(l)
  PROVE  Sound(l, TriggerUnsearched(l))
  <1>1. CASE searches(l)
    <2>1. ~ isDone(l) /\ TriggerUnsearched(l) = [l EXCEPT !.mFailed = TRUE]
      BY <1>1 DEF TriggerUnsearched, searches
    <2> QED BY <2>1, FailedSound
  <1>2. CASE ~ searches(l) /\ l.mHaveHeader
    <2>1. TriggerUnsearched(l) = TriggerTx(l)
      BY <1>2 DEF TriggerUnsearched
    <2> QED BY <1>2, <2>1, TriggerTxSound
  <1>3. CASE ~ searches(l) /\ ~ l.mHaveHeader
    <2>1. TriggerUnsearched(l) = l
      BY <1>3 DEF TriggerUnsearched
    <2> QED BY <2>1 DEF Sound
  <1> QED BY <1>1, <1>2, <1>3

LEMMA TriggerSound ==
  ASSUME NEW l \in Flags, Honest(l), NEW k \in Trigger(l)
  PROVE  Sound(l, k)
  <1>1. CASE isDone(l)
    <2>1. k = l
      BY <1>1 DEF Trigger
    <2> QED BY <2>1 DEF Sound
  <1>2. CASE ~ isDone(l)
    <2>1. PICK t \in TriggerStart(l) :
            k \in IF searches(t) /\ mapState["as"] # "invalid"
                    THEN TriggerRest(t, AsNodes \ store)
                    ELSE {TriggerUnsearched(t)}
      BY <1>2 DEF Trigger
    <2>2. Sound(l, t)
      BY <1>2, TriggerStartSound
    <2>3. Sound(t, k)
      <3>1. CASE searches(t) /\ mapState["as"] # "invalid"
        <4>1. k \in TriggerRest(t, AsNodes \ store) /\ t.mHaveHeader
          BY <2>1, <3>1 DEF searches
        <4> QED BY <2>2, <4>1, TriggerRestSound DEF Sound
      <3>2. CASE ~ (searches(t) /\ mapState["as"] # "invalid")
        <4>1. k = TriggerUnsearched(t)
          BY <2>1, <3>2
        <4> QED BY <2>2, <4>1, TriggerUnsearchedSound DEF Sound
      <3> QED BY <3>1, <3>2
    <2> QED BY <1>2, <2>2, <2>3 DEF Sound
  <1> QED BY <1>1, <1>2

LEMMA OnTimerSound ==
  ASSUME NEW l \in Flags, Honest(l), ~ isDone(l), NEW p \in BOOLEAN,
         NEW k \in OnTimer(l, p)
  PROVE  Sound(l, k)
  <1> DEFINE t == [tryLocal(l) EXCEPT !.mAggressive = TRUE]
  <1>1. CASE k = [l EXCEPT !.mFailed = TRUE]
    BY <1>1, FailedSound
  <1>2. CASE k = l
    BY <1>2 DEF Sound
  <1>3. CASE k \in Trigger(t)
    <2>1. t \in Flags /\ Honest(t) /\ (l.mHaveHeader => t.mHaveHeader)
      <3>1. PICK u \in Flags : u = tryLocal(l)
        BY TryLocal
      <3>2. Honest(u) /\ (l.mHaveHeader => u.mHaveHeader)
        BY <3>1, TryLocal
      <3> QED BY <3>1, <3>2 DEF Flags, Honest
    <2>2. Sound(t, k)
      BY <1>3, <2>1, TriggerSound
    <2> QED BY <2>1, <2>2 DEF Sound
  <1> QED BY <1>1, <1>2, <1>3 DEF OnTimer

-----------------------------------------------------------------------------
LEMMA IdleCall == Idle \in RunDataCall
  BY EmptySeq DEF Idle, RunDataCall

LEMMA InitInv == Init => AcquireInv
  <1> SUFFICES ASSUME Init PROVE AcquireInv
    OBVIOUS
  <1>1. \A w \in Workers : worker[w].at = "idle"
    BY DEF Init, Idle
  <1>2. ~ isDone(la)
    BY DEF Init, isDone
  <1>3. TypeOK
    <2>1. worker \in [Workers -> RunDataCall]
      BY IdleCall DEF Init
    <2>2. la \in Flags
      BY DEF Init, Flags
    <2>3. store \subseteq Nodes
      BY AtStartAssumption DEF Init, Nodes
    <2>4. mapState \in MapStates
      BY DEF Init, MapStates
    <2> QED BY <2>1, <2>2, <2>3, <2>4, EmptySeq DEF Init, TypeOK
  <1>4. Honest(la) /\ SearchesHold /\ LoopHasData
    BY <1>1 DEF Init, Honest, SearchesHold, MapsHold, LoopHasData
  <1>5. EndIsReal /\ Fresh
    BY <1>1, <1>2 DEF Init, EndIsReal, Fresh
  <1> QED BY <1>3, <1>4, <1>5 DEF AcquireInv

-----------------------------------------------------------------------------
(* One lemma per action, or per group of actions that touch the same part  *)
(* of the state.                                                           *)

(* done() dispatches only what has ended. *)
LEMMA DoneDispatches ==
  ASSUME TypeOK, NEW l, Done(l)
  PROVE  /\ mSignaled' \in BOOLEAN /\ dispatches' \in Nat
         /\ dispatches' > 0 => dispatches > 0 \/ isDone(l)
  <1>1. CASE isDone(l) /\ ~ mSignaled
    <2>1. mSignaled' = TRUE /\ dispatches' = dispatches + 1
      BY <1>1 DEF Done
    <2> QED BY <1>1, <2>1 DEF TypeOK
  <1>2. CASE ~ (isDone(l) /\ ~ mSignaled)
    <2>1. mSignaled' = mSignaled /\ dispatches' = dispatches
      BY <1>2 DEF Done, signal
    <2> QED BY <2>1 DEF TypeOK
  <1> QED BY <1>1, <1>2

LEMMA TickedHonest ==
  ASSUME la \in Flags, Honest(la), ~ isDone(la)
  PROVE  /\ Ticked \in Flags /\ Honest(Ticked) /\ ~ isDone(Ticked)
         /\ Ticked.mHaveHeader = la.mHaveHeader
  <1>1. CASE la.mProgress
    <2>1. Ticked = [la EXCEPT !.mProgress = FALSE]
      BY <1>1 DEF Ticked
    <2> QED BY <2>1 DEF Flags, Honest, isDone
  <1>2. CASE ~ la.mProgress
    <2>1. Ticked = [la EXCEPT !.mTimeouts = la.mTimeouts + 1]
      BY <1>2 DEF Ticked
    <2>2. la.mTimeouts + 1 \in Nat
      BY DEF Flags
    <2> QED BY <2>1, <2>2 DEF Flags, Honest, isDone
  <1> QED BY <1>1, <1>2

LEMMA AcquireStep ==
  ASSUME AcquireInv, Acquire
  PROVE  AcquireInv'
  <1>0. TypeOK /\ Honest(la) /\ Fresh /\ ~ listed /\ ~ swept
    BY DEF AcquireInv, Acquire
  <1>1. ~ isDone(la) /\ answered = "no" /\ dispatches = 0
        /\ \A w \in Workers : worker[w].at = "idle"
    BY <1>0 DEF Fresh
  <1>2. /\ UNCHANGED <<kind, mSignaled, dispatches, mapState, mReceivedData,
                       mReceiveDispatched, jobs, worker, swept, store>>
        /\ listed' = TRUE
    BY DEF Acquire, signal, data
  <1>3. tryLocal(la) \in Flags /\ Honest(tryLocal(la))
    BY <1>0, <1>1, TryLocal DEF TypeOK
  <1>4. /\ la' \in Flags /\ Honest(la')
        /\ timer' \in {"off", "armed", "queued"}
        /\ answered' = "no" \/ (answered' = "complete" /\ la'.mComplete)
    <2>1. CASE isDone(tryLocal(la))
      <3>1. /\ la' = tryLocal(la) /\ UNCHANGED timer
            /\ answered' = IF tryLocal(la).mComplete THEN "complete" ELSE answered
        BY <2>1 DEF Acquire
      <3> QED BY <1>0, <1>1, <1>3, <3>1 DEF TypeOK
    <2>2. CASE ~ isDone(tryLocal(la))
      <3>1. /\ la' \in IF History THEN {tryLocal(la)} ELSE Trigger(tryLocal(la))
            /\ timer' = "armed" /\ UNCHANGED answered
        BY <2>2 DEF Acquire
      <3>2. Sound(tryLocal(la), la')
        <4>1. CASE la' \in Trigger(tryLocal(la))
          BY <4>1, <1>3, TriggerSound
        <4>2. CASE la' = tryLocal(la)
          BY <4>2, <1>3 DEF Sound
        <4> QED BY <3>1, <4>1, <4>2
      <3> QED BY <1>1, <3>1, <3>2 DEF Sound
    <2> QED BY <2>1, <2>2
  <1>5. TypeOK'
    BY <1>0, <1>2, <1>4 DEF TypeOK
  <1>6. Honest(la)'
    BY <1>2, <1>4 DEF Honest
  <1>7. (SearchesHold /\ LoopHasData /\ EndIsReal /\ Fresh)'
    BY <1>1, <1>2, <1>4 DEF AcquireInv, SearchesHold, MapsHold, LoopHasData, EndIsReal,
                            Fresh
  <1> QED BY <1>5, <1>6, <1>7 DEF AcquireInv

LEMMA SweepStep ==
  ASSUME AcquireInv, Sweep
  PROVE  AcquireInv'
  BY DEF AcquireInv, Sweep, signal, data, TypeOK, Honest, SearchesHold, MapsHold,
         LoopHasData, EndIsReal, Fresh, isDone

LEMMA StashStep ==
  ASSUME AcquireInv, NEW n \in Nodes, Stash(n)
  PROVE  AcquireInv'
  BY DEF AcquireInv, Stash, signal, data, TypeOK, Honest, SearchesHold, MapsHold,
         LoopHasData, EndIsReal, Fresh, isDone

LEMMA CheckLocalStep ==
  ASSUME AcquireInv, CheckLocal
  PROVE  AcquireInv'
  <1>1. /\ tryLocal(la) \in Flags /\ Honest(tryLocal(la))
        /\ la.mHaveHeader => tryLocal(la).mHaveHeader
        /\ ~ isDone(la) /\ la' = tryLocal(la)
    BY TryLocal DEF AcquireInv, TypeOK, CheckLocal
  <1>2. /\ UNCHANGED <<kind, mapState, mReceivedData, mReceiveDispatched,
                       jobs, worker, timer, listed, swept, store, answered>>
        /\ listed /\ Done(la')
    BY DEF CheckLocal, data
  <1>3. /\ mSignaled' \in BOOLEAN /\ dispatches' \in Nat
        /\ dispatches' > 0 => dispatches > 0 \/ isDone(la')
    BY <1>2, DoneDispatches DEF AcquireInv
  <1>4. TypeOK'
    BY <1>1, <1>2, <1>3 DEF AcquireInv, TypeOK
  <1>5. Honest(la)' /\ SearchesHold' /\ LoopHasData'
    BY <1>1, <1>2 DEF AcquireInv, Honest, SearchesHold, MapsHold, LoopHasData
  <1>6. EndIsReal' /\ Fresh'
    BY <1>1, <1>2, <1>3 DEF AcquireInv, EndIsReal, Fresh, isDone
  <1> QED BY <1>4, <1>5, <1>6 DEF AcquireInv

LEMMA TimerFiresStep ==
  ASSUME AcquireInv, TimerFires
  PROVE  AcquireInv'
  <1>1. timer' \in {"off", "armed", "queued"} /\ timer # "off"
    BY DEF TimerFires
  <1> QED BY <1>1 DEF AcquireInv, TimerFires, signal, data, TypeOK, Honest,
                      SearchesHold, MapsHold, LoopHasData, EndIsReal, Fresh, isDone

LEMMA TimerJobStep ==
  ASSUME AcquireInv, TimerJob
  PROVE  AcquireInv'
  <1>1. /\ UNCHANGED <<kind, mapState, mReceivedData, mReceiveDispatched,
                       jobs, worker, listed, swept, store, answered>>
        /\ timer = "queued"
    BY DEF TimerJob, data
  <1>2. CASE isDone(la)
    <2>1. timer' = "off" /\ UNCHANGED <<la, mSignaled, dispatches>>
      BY <1>2 DEF TimerJob, signal
    <2> QED BY <1>1, <2>1 DEF AcquireInv, TypeOK, Honest, SearchesHold, MapsHold,
                              LoopHasData, EndIsReal, Fresh, isDone
  <1>3. CASE ~ isDone(la)
    <2>1. /\ la' \in OnTimer(Ticked, la.mProgress) /\ Done(la')
          /\ timer' = IF isDone(la') THEN "off" ELSE "armed"
      BY <1>3 DEF TimerJob
    <2>2. /\ Ticked \in Flags /\ Honest(Ticked) /\ ~ isDone(Ticked)
          /\ Ticked.mHaveHeader = la.mHaveHeader
      BY <1>3, TickedHonest DEF AcquireInv, TypeOK
    <2>3. Sound(Ticked, la')
      BY <2>1, <2>2, OnTimerSound DEF AcquireInv, TypeOK, Flags
    <2>4. /\ mSignaled' \in BOOLEAN /\ dispatches' \in Nat
          /\ dispatches' > 0 => dispatches > 0 \/ isDone(la')
      BY <2>1, DoneDispatches DEF AcquireInv
    <2>6. TypeOK'
      BY <1>1, <2>1, <2>3, <2>4 DEF AcquireInv, TypeOK, Sound
    <2>7. Honest(la)' /\ SearchesHold' /\ LoopHasData'
      BY <1>1, <2>1, <2>2, <2>3 DEF AcquireInv, Honest, SearchesHold, MapsHold,
                                    LoopHasData, Sound
    <2>8. EndIsReal' /\ Fresh'
      BY <1>1, <1>3, <2>4 DEF AcquireInv, EndIsReal, Fresh, isDone
    <2> QED BY <2>6, <2>7, <2>8 DEF AcquireInv
  <1> QED BY <1>2, <1>3

LEMMA GotDataStep ==
  ASSUME AcquireInv, NEW p \in Packets, GotData(p)
  PROVE  AcquireInv'
  <1>1. /\ UNCHANGED <<kind, la, mSignaled, dispatches, mapState, worker,
                       timer, listed, swept, store, answered>>
        /\ listed /\ mReceiveDispatched' = TRUE
    BY DEF GotData, signal
  <1>2. mReceivedData' \in Seq(Packets)
    BY DEF GotData, AcquireInv, TypeOK
  <1>3. jobs' \in Nat
    BY DEF GotData, AcquireInv, TypeOK
  <1>5. TypeOK'
    BY <1>1, <1>2, <1>3 DEF AcquireInv, TypeOK
  <1> QED BY <1>1, <1>5 DEF AcquireInv, Honest, SearchesHold, MapsHold, LoopHasData,
                            EndIsReal, Fresh, isDone

LEMMA DoLedgerDataStep ==
  ASSUME AcquireInv, NEW w \in Workers, DoLedgerData(w)
  PROVE  AcquireInv'
  <1>1. /\ UNCHANGED <<kind, la, mSignaled, dispatches, mapState,
                       mReceivedData, mReceiveDispatched, timer, listed,
                       swept, store, answered>>
        /\ jobs > 0 /\ jobs' \in Nat
    BY DEF DoLedgerData, signal, AcquireInv, TypeOK
  <1>2. worker \in [Workers -> RunDataCall]
    BY DEF AcquireInv, TypeOK
  <1>3. [Idle EXCEPT !.at = "take"] \in RunDataCall
    BY IdleCall DEF RunDataCall
  <1>4. /\ worker' \in [Workers -> RunDataCall]
        /\ \A x \in Workers : worker'[x] = worker[x] \/ worker'[x].at = "take"
    <2>1. CASE listed
      <3>1. worker' = [worker EXCEPT ![w] = [Idle EXCEPT !.at = "take"]]
        BY <2>1 DEF DoLedgerData
      <3> QED BY <1>2, <1>3, <3>1 DEF Idle
    <2>2. CASE ~ listed
      BY <1>2, <2>2 DEF DoLedgerData
    <2> QED BY <2>1, <2>2
  <1>5. TypeOK'
    BY <1>1, <1>4 DEF AcquireInv, TypeOK
  <1> QED BY <1>1, <1>4, <1>5 DEF AcquireInv, Honest, SearchesHold, MapsHold,
                            LoopHasData, EndIsReal, Fresh, isDone

(* A section of runData that changes the call of w, and of the rest only   *)
(* what was received.                                                      *)
LEMMA TakeDataStep ==
  ASSUME AcquireInv, NEW w \in Workers, TakeData(w)
  PROVE  AcquireInv'
  <1>1. /\ UNCHANGED <<kind, la, mSignaled, dispatches, mapState, jobs, timer,
                       listed, swept, store, answered>>
        /\ worker[w].at = "take"
    BY DEF TakeData, signal
  <1>2. worker \in [Workers -> RunDataCall] /\ mReceivedData \in Seq(Packets)
    BY DEF AcquireInv, TypeOK
  <1>3. /\ worker' \in [Workers -> RunDataCall]
        /\ mReceivedData' \in Seq(Packets) /\ mReceiveDispatched' \in BOOLEAN
        /\ \A x \in Workers :
             \/ worker'[x] = worker[x]
             \/ worker'[x].at \in {"idle", "trigger"}
             \/ worker'[x].at = "process" /\ worker'[x].data # <<>>
    <2>1. CASE mReceivedData = <<>>
      <3>1. /\ worker' = [worker EXCEPT ![w] =
                 IF worker[w].chosen THEN [Idle EXCEPT !.at = "trigger"]
                                     ELSE Idle]
            /\ mReceivedData' = mReceivedData /\ mReceiveDispatched' = FALSE
        BY <2>1 DEF TakeData
      <3>2. [Idle EXCEPT !.at = "trigger"] \in RunDataCall
        BY IdleCall DEF RunDataCall
      <3> QED BY <1>2, <3>1, <3>2, IdleCall DEF Idle
    <2>2. CASE mReceivedData # <<>>
      <3>1. /\ worker' = [worker EXCEPT ![w].at = "process",
                                        ![w].data = mReceivedData]
            /\ mReceivedData' = <<>> /\ mReceiveDispatched' = mReceiveDispatched
        BY <2>2 DEF TakeData
      <3>2. worker[w] \in RunDataCall
        BY <1>2
      <3> QED BY <1>2, <2>2, <3>1, <3>2, EmptySeq
            DEF RunDataCall, AcquireInv, TypeOK
    <2> QED BY <2>1, <2>2
  <1>4. TypeOK'
    BY <1>1, <1>3 DEF AcquireInv, TypeOK
  <1>5. Fresh'
    BY <1>1 DEF AcquireInv, Fresh
  <1> QED BY <1>1, <1>3, <1>4, <1>5 DEF AcquireInv, Honest, SearchesHold, MapsHold,
                            LoopHasData, EndIsReal, isDone

(* What the processing of one packet does to the flags and the store. *)
Processed ==
  /\ la' \in Flags /\ Honest(la)'
  /\ store' \subseteq Nodes /\ store \subseteq store'
  /\ mapState' \in MapStates /\ MapsHold'
  /\ la.mHaveHeader => la'.mHaveHeader
  /\ isDone(la) => la'.mComplete = la.mComplete /\ la'.mFailed = la.mFailed
  /\ mSignaled' \in BOOLEAN /\ dispatches' \in Nat
  /\ dispatches' > 0 => dispatches > 0 \/ isDone(la')

(* Nothing but progress. *)
LEMMA ProgressProcessed ==
  ASSUME AcquireInv, la' = la \/ la' = Progress(la),
         UNCHANGED <<kind, store, mapState, mSignaled, dispatches>>
  PROVE  Processed
  <1>1. la \in Flags /\ Honest(la) /\ store \subseteq Nodes
        /\ mapState \in MapStates /\ MapsHold
        /\ mSignaled \in BOOLEAN /\ dispatches \in Nat
    BY DEF AcquireInv, TypeOK, SearchesHold
  <1>2. MapsHold'
    BY <1>1 DEF MapsHold
  <1> QED BY <1>1, <1>2 DEF Processed, Progress, Flags, Honest, isDone

LEMMA HeaderProcessed ==
  ASSUME AcquireInv, TakeHeader, kind' = kind
  PROVE  Processed
  <1>1. la \in Flags /\ Honest(la) /\ store \subseteq Nodes
        /\ mSignaled \in BOOLEAN /\ dispatches \in Nat
    BY DEF AcquireInv, TypeOK
  <1>2. mSignaled' = mSignaled /\ dispatches' = dispatches
    BY DEF TakeHeader, signal
  <1>3. CASE la.mHaveHeader \/ isDone(la) \/ kind = "other"
    <2>1. /\ la' = la \/ la' = Progress(la)
          /\ store' = store /\ mapState' = mapState
      BY <1>3 DEF TakeHeader
    <2> QED BY <1>2, <2>1, ProgressProcessed
  <1>4. CASE ~ (la.mHaveHeader \/ isDone(la) \/ kind = "other")
    <2>1. /\ la' = [Progress(la) EXCEPT !.mHaveHeader = TRUE,
                                        !.mHaveTransactions = (TxNodes = {}),
                                        !.mHaveState = (kind = "zero")]
          /\ store' = store \union {Header}
          /\ mapState' = [m \in {"as", "tx"} |-> "synching"]
      BY <1>4 DEF TakeHeader
    <2>2. la' \in Flags
      BY <1>1, <2>1 DEF Progress, Flags
    <2>3. Honest(la)'
      BY <1>1, <1>4, <2>1 DEF Progress, Flags, Honest, isDone
    <2>4. mapState' \in MapStates /\ MapsHold'
      BY <2>1 DEF MapStates, MapsHold
    <2> QED BY <1>1, <1>2, <1>4, <2>1, <2>2, <2>3, <2>4 DEF Processed, Nodes
  <1> QED BY <1>3, <1>4

(* Added nodes belong to the ledger, and a map becomes invalid only when   *)
(* the ledger is malformed.                                                *)
LEMMA NodesAdded ==
  ASSUME AcquireInv, NEW p \in Packets, NEW m \in {"as", "tx"},
         AddNodes(m, p), kind' = kind
  PROVE  /\ store' \subseteq Nodes /\ store \subseteq store'
         /\ mapState' \in MapStates /\ MapsHold'
  <1>1. mapState \in MapStates /\ MapsHold /\ store \subseteq Nodes
    BY DEF AcquireInv, TypeOK, SearchesHold
  <1>2. p \subseteq Nodes
    BY DEF Packets, Nodes
  <1>3. /\ store' = store \union (p \ outOfBounds(p))
        /\ mapState' = [mapState EXCEPT ![m] =
             IF outOfBounds(p) # {} THEN "invalid" ELSE mapState[m]]
    BY DEF AddNodes
  <1>4. outOfBounds(p) # {} => kind = "malformed"
    BY DEF outOfBounds
  <1>5. mapState' \in MapStates
    BY <1>1, <1>3 DEF MapStates
  <1>6. \A x \in {"as", "tx"} :
          mapState'[x] = mapState[x] \/ (mapState'[x] = "invalid" /\ kind = "malformed")
    BY <1>1, <1>3, <1>4 DEF MapStates
  <1>7. store \subseteq store'
    BY <1>3
  <1>8. MapsHold'
    BY <1>1, <1>6, <1>7 DEF MapsHold
  <1> QED BY <1>1, <1>2, <1>3, <1>5, <1>8

LEMMA NodesProcessed ==
  ASSUME AcquireInv, NEW p \in Packets, p # {Header}, kind' = kind,
         TakeNodes(p) \/ TakeNodesThenRefuse(p)
  PROVE  Processed
  <1> DEFINE m == IF p \subseteq AsNodes THEN "as" ELSE "tx"
             had == IF m = "as" THEN la.mHaveState ELSE la.mHaveTransactions
             held == mapState'[m] # "synching"
             as == la.mHaveState \/ (m = "as" /\ held)
             tx == la.mHaveTransactions \/ (m = "tx" /\ held)
  <1>1. la \in Flags /\ Honest(la)
        /\ mSignaled \in BOOLEAN /\ dispatches \in Nat
    BY DEF AcquireInv, TypeOK
  <1>2. CASE TakeNodes(p) /\ (~ la.mHaveHeader \/ had \/ la.mFailed)
    <2>1. /\ la' = la \/ la' = Progress(la)
          /\ UNCHANGED <<store, mapState, mSignaled, dispatches>>
      BY <1>2 DEF TakeNodes, signal
    <2> QED BY <2>1, ProgressProcessed
  <1>3. CASE TakeNodes(p) /\ la.mHaveHeader /\ ~ (had \/ la.mFailed)
    <2>1. /\ AddNodes(m, p)
          /\ la' = [Progress(la) EXCEPT
                      !.mHaveState = as, !.mHaveTransactions = tx,
                      !.mComplete = @ \/ (held /\ as /\ tx)]
          /\ Done(la')
      BY <1>3 DEF TakeNodes
    <2>2. ~ isDone(la)
      BY <1>1, <1>3 DEF Honest, isDone, Flags
    <2>3. /\ store' \subseteq Nodes /\ store \subseteq store'
          /\ mapState' \in MapStates /\ MapsHold'
      BY <2>1, NodesAdded
    <2>4. /\ as => AsNodes \subseteq store' \/ kind \in {"zero", "malformed"}
          /\ tx => TxNodes \subseteq store' \/ kind = "malformed"
          /\ Header \in store' /\ kind # "other"
      <3>1. mapState'["as"] # "synching" =>
              AsNodes \subseteq store' \/ kind = "malformed"
        BY <2>3 DEF MapsHold, MapStates
      <3>2. mapState'["tx"] # "synching" =>
              TxNodes \subseteq store' \/ kind = "malformed"
        BY <2>3 DEF MapsHold, MapStates
      <3> QED BY <1>1, <1>3, <2>3, <3>1, <3>2 DEF Honest
    <2>5. as \in BOOLEAN /\ tx \in BOOLEAN /\ held \in BOOLEAN
      BY <1>1 DEF Flags
    <2> HIDE DEF as, tx, held, m, had
    <2>6. la' \in Flags /\ la'.mHaveHeader
      BY <1>1, <1>3, <2>1, <2>5 DEF Progress, Flags
    <2>7. Honest(la)'
      BY <1>1, <1>3, <2>1, <2>2, <2>4, <2>5 DEF Progress, Flags, Honest, isDone
    <2>8. /\ mSignaled' \in BOOLEAN /\ dispatches' \in Nat
          /\ dispatches' > 0 => dispatches > 0 \/ isDone(la')
      BY <2>1, DoneDispatches DEF AcquireInv
    <2> QED BY <2>2, <2>3, <2>6, <2>7, <2>8 DEF Processed
  <1>4. CASE TakeNodesThenRefuse(p)
    <2>1. AddNodes(m, p) /\ la' = la /\ mSignaled' = mSignaled
          /\ dispatches' = dispatches
      BY <1>4 DEF TakeNodesThenRefuse, signal
    <2>2. /\ store' \subseteq Nodes /\ store \subseteq store'
          /\ mapState' \in MapStates /\ MapsHold'
      BY <2>1, NodesAdded
    <2>3. Honest(la)'
      BY <1>1, <2>1, <2>2 DEF Honest
    <2> QED BY <1>1, <2>1, <2>2, <2>3 DEF Processed
  <1> QED BY <1>2, <1>3, <1>4

LEMMA ProcessDataStep ==
  ASSUME AcquireInv, NEW w \in Workers, ProcessData(w)
  PROVE  AcquireInv' /\ (isDone(la) => la'.mComplete = la.mComplete
                                        /\ la'.mFailed = la.mFailed)
  <1> DEFINE p == Head(worker[w].data)
             rest == Tail(worker[w].data)
  <1>1. /\ UNCHANGED <<kind, mReceivedData, mReceiveDispatched, jobs, timer,
                       listed, swept, answered>>
        /\ worker[w].at = "process"
    BY DEF ProcessData, data
  <1>2. worker \in [Workers -> RunDataCall] /\ worker[w] \in RunDataCall
    BY DEF AcquireInv, TypeOK
  <1>3. worker[w].data \in Seq(Packets) /\ worker[w].data # <<>>
    BY <1>1, <1>2 DEF AcquireInv, LoopHasData, RunDataCall
  <1>4. p \in Packets /\ rest \in Seq(Packets)
    BY <1>3, HeadTailProperties
  <1>5. /\ worker' \in [Workers -> RunDataCall]
        /\ \A x \in Workers :
             \/ worker'[x] = worker[x]
             \/ worker'[x].at = "take"
             \/ worker'[x].at = "process" /\ worker'[x].data # <<>>
    <2>1. worker' = [worker EXCEPT
              ![w].data = rest, ![w].chosen = @ \/ ~ Refused(p),
              ![w].at = IF rest = <<>> THEN "take" ELSE "process"]
      BY DEF ProcessData
    <2> HIDE DEF p, rest
    <2>2. Refused(p) \in BOOLEAN
      BY DEF Refused, isDone
    <2> QED BY <1>2, <1>4, <2>1, <2>2 DEF RunDataCall
  <1>6. Processed
    <2>1. CASE p = {}
      <3>1. UNCHANGED <<la, store, mapState, mSignaled, dispatches>>
        BY <2>1 DEF ProcessData, signal
      <3> QED BY <1>1, <3>1, ProgressProcessed
    <2>2. CASE p = {Header}
      <3>1. TakeHeader
        BY <2>2 DEF ProcessData
      <3> QED BY <1>1, <3>1, HeaderProcessed
    <2>3. CASE p # {} /\ p # {Header}
      <3>1. TakeNodes(p) \/ TakeNodesThenRefuse(p)
        BY <2>3 DEF ProcessData
      <3> QED BY <1>1, <1>4, <2>3, <3>1, NodesProcessed
    <2> QED BY <2>1, <2>2, <2>3
  <1>7. TypeOK'
    BY <1>1, <1>5, <1>6 DEF AcquireInv, TypeOK, Processed
  <1>8. SearchesHold' /\ LoopHasData'
    BY <1>1, <1>5, <1>6 DEF AcquireInv, SearchesHold, MapsHold, LoopHasData, Processed
  <1>9. EndIsReal'
    BY <1>1, <1>5, <1>6 DEF AcquireInv, EndIsReal, Processed, isDone
  <1>10. Fresh'
    BY <1>1 DEF AcquireInv, Fresh
  <1> QED BY <1>6, <1>7, <1>8, <1>9, <1>10 DEF AcquireInv, Processed

LEMMA TriggerBeginsStep ==
  ASSUME AcquireInv, NEW w \in Workers, TriggerBegins(w)
  PROVE  AcquireInv' /\ (isDone(la) => la'.mComplete = la.mComplete
                                        /\ la'.mFailed = la.mFailed)
  <1>1. /\ UNCHANGED <<kind, mSignaled, dispatches, mapState, mReceivedData,
                       mReceiveDispatched, jobs, timer, listed, swept, store,
                       answered>>
        /\ worker[w].at = "trigger"
    BY DEF TriggerBegins, signal, data
  <1>2. /\ worker \in [Workers -> RunDataCall] /\ worker[w] \in RunDataCall
        /\ la \in Flags /\ Honest(la)
    BY DEF AcquireInv, TypeOK
  <1>3. /\ la' \in Flags /\ Honest(la')
        /\ la.mHaveHeader => la'.mHaveHeader
        /\ isDone(la) => la'.mComplete = la.mComplete /\ la'.mFailed = la.mFailed
        /\ worker' \in [Workers -> RunDataCall]
        /\ \A x \in Workers :
             \/ worker'[x] = worker[x]
             \/ worker'[x].at = "idle"
             \/ worker'[x].at = "search" /\ la'.mHaveHeader
             \/ worker'[x].at = "done" /\ isDone(la')
    <2>1. PICK t \in IF isDone(la) THEN {la} ELSE TriggerStart(la) :
            IF searches(t) /\ mapState["as"] # "invalid"
              THEN la' = t /\ worker' = [worker EXCEPT ![w].at = "search"]
              ELSE /\ la' = IF isDone(la) THEN la ELSE TriggerUnsearched(t)
                   /\ worker' = [worker EXCEPT ![w].at =
                        IF isDone(la') /\ ~ isDone(la) /\ ~ t.mFailed
                          THEN "done" ELSE "idle"]
      BY DEF TriggerBegins
    <2>2. Sound(la, t)
      <3>1. CASE isDone(la)
        BY <1>2, <2>1, <3>1 DEF Sound
      <3>2. CASE ~ isDone(la)
        BY <1>2, <2>1, <3>2, TriggerStartSound
      <3> QED BY <3>1, <3>2
    <2>3. CASE searches(t) /\ mapState["as"] # "invalid"
      <3>1. la' = t /\ worker' = [worker EXCEPT ![w].at = "search"]
            /\ t.mHaveHeader
        BY <2>1, <2>3 DEF searches
      <3>2. /\ worker' \in [Workers -> RunDataCall]
            /\ \A x \in Workers : worker'[x] = worker[x] \/ worker'[x].at = "search"
        BY <1>2, <3>1 DEF RunDataCall
      <3> QED BY <2>2, <3>1, <3>2 DEF Sound
    <2>4. CASE ~ (searches(t) /\ mapState["as"] # "invalid")
      <3>1. /\ la' = IF isDone(la) THEN la ELSE TriggerUnsearched(t)
            /\ worker' = [worker EXCEPT ![w].at =
                 IF isDone(la') /\ ~ isDone(la) /\ ~ t.mFailed
                   THEN "done" ELSE "idle"]
        BY <2>1, <2>4
      <3>2. Sound(la, la')
        <4>1. CASE isDone(la)
          BY <1>2, <3>1, <4>1 DEF Sound
        <4>2. CASE ~ isDone(la)
          <5>1. Sound(t, TriggerUnsearched(t))
            BY <2>2, TriggerUnsearchedSound DEF Sound
          <5> QED BY <2>2, <3>1, <4>2, <5>1 DEF Sound
        <4> QED BY <4>1, <4>2
      <3>3. /\ worker' \in [Workers -> RunDataCall]
            /\ \A x \in Workers : \/ worker'[x] = worker[x]
                                  \/ worker'[x].at = "idle"
                                  \/ worker'[x].at = "done" /\ isDone(la')
        <4>1. CASE isDone(la') /\ ~ isDone(la) /\ ~ t.mFailed
          <5>1. worker' = [worker EXCEPT ![w].at = "done"]
            BY <3>1, <4>1
          <5> QED BY <1>2, <4>1, <5>1 DEF RunDataCall
        <4>2. CASE ~ (isDone(la') /\ ~ isDone(la) /\ ~ t.mFailed)
          <5>1. worker' = [worker EXCEPT ![w].at = "idle"]
            BY <3>1, <4>2
          <5> QED BY <1>2, <5>1 DEF RunDataCall
        <4> QED BY <4>1, <4>2
      <3> QED BY <3>2, <3>3 DEF Sound
    <2> QED BY <2>3, <2>4
  <1>4. TypeOK'
    BY <1>1, <1>3 DEF AcquireInv, TypeOK
  <1>5. Honest(la)' /\ SearchesHold' /\ LoopHasData'
    BY <1>1, <1>3 DEF AcquireInv, Honest, SearchesHold, MapsHold, LoopHasData
  <1>6. EndIsReal' /\ Fresh'
    BY <1>1, <1>3 DEF AcquireInv, EndIsReal, Fresh, isDone
  <1> QED BY <1>3, <1>4, <1>5, <1>6 DEF AcquireInv

LEMMA SearchStateStep ==
  ASSUME AcquireInv, NEW w \in Workers, SearchState(w)
  PROVE  AcquireInv'
  <1>1. /\ UNCHANGED <<kind, la, mSignaled, dispatches, mReceivedData,
                       mReceiveDispatched, jobs, timer, listed, swept, store,
                       answered>>
        /\ worker[w].at = "search"
    BY DEF SearchState, signal, data
  <1>2. worker \in [Workers -> RunDataCall] /\ worker[w] \in RunDataCall
    BY DEF AcquireInv, TypeOK
  <1>3. /\ worker' \in [Workers -> RunDataCall]
        /\ \A x \in Workers :
             \/ worker'[x] = worker[x]
             \/ /\ worker[x].at = "search" /\ worker'[x].at = "relock"
                /\ worker'[x].missing = AsNodes \ store
    BY <1>1, <1>2 DEF SearchState, RunDataCall
  <1>7. mapState' \in MapStates /\ MapsHold'
    <2>1. mapState \in MapStates /\ MapsHold
      BY DEF AcquireInv, TypeOK, SearchesHold
    <2>2. mapState' = [mapState EXCEPT !["as"] =
            IF AsNodes \subseteq store THEN "full" ELSE mapState["as"]]
      BY DEF SearchState
    <2> QED BY <1>1, <2>1, <2>2 DEF MapStates, MapsHold
  <1>4. TypeOK'
    BY <1>1, <1>3, <1>7 DEF AcquireInv, TypeOK
  <1>5. Honest(la)' /\ SearchesHold' /\ LoopHasData'
    BY <1>1, <1>3, <1>7 DEF AcquireInv, TypeOK, Honest, SearchesHold, MapsHold, LoopHasData
  <1>6. EndIsReal' /\ Fresh'
    BY <1>1, <1>3 DEF AcquireInv, EndIsReal, Fresh, isDone
  <1> QED BY <1>4, <1>5, <1>6 DEF AcquireInv

LEMMA TriggerEndsStep ==
  ASSUME AcquireInv, NEW w \in Workers, TriggerEnds(w)
  PROVE  AcquireInv' /\ (isDone(la) => la'.mComplete = la.mComplete
                                        /\ la'.mFailed = la.mFailed)
  <1>1. /\ UNCHANGED <<kind, mSignaled, dispatches, mapState, mReceivedData,
                       mReceiveDispatched, jobs, timer, listed, swept, store,
                       answered>>
        /\ worker[w].at = "relock"
    BY DEF TriggerEnds, signal, data
  <1>2. /\ worker \in [Workers -> RunDataCall]
        /\ worker[w].missing \in SUBSET AsNodes
        /\ la \in Flags /\ Honest(la)
    BY DEF AcquireInv, TypeOK, RunDataCall
  <1>3. /\ la.mHaveHeader
        /\ worker[w].missing = {} => AsNodes \subseteq store
    BY <1>1 DEF AcquireInv, SearchesHold
  <1>4. /\ la' \in TriggerRest(la, worker[w].missing)
        /\ worker' = [worker EXCEPT ![w] =
             [Idle EXCEPT !.at = IF isDone(la') THEN "done" ELSE "idle"]]
    BY DEF TriggerEnds
  <1>5. Sound(la, la')
    BY <1>2, <1>3, <1>4, TriggerRestSound
  <1>7. /\ worker' \in [Workers -> RunDataCall]
        /\ \A x \in Workers : \/ worker'[x] = worker[x]
                              \/ worker'[x].at = "idle"
                              \/ worker'[x].at = "done" /\ isDone(la')
    <2>1. [Idle EXCEPT !.at = "done"] \in RunDataCall
          /\ [Idle EXCEPT !.at = "idle"] \in RunDataCall
      BY IdleCall DEF RunDataCall
    <2>2. CASE isDone(la')
      <3>1. worker' = [worker EXCEPT ![w] = [Idle EXCEPT !.at = "done"]]
        BY <1>4, <2>2
      <3> QED BY <1>2, <1>4, <2>1, <2>2, <3>1 DEF Idle
    <2>3. CASE ~ isDone(la')
      <3>1. worker' = [worker EXCEPT ![w] = [Idle EXCEPT !.at = "idle"]]
        BY <1>4, <2>3
      <3> QED BY <1>2, <2>1, <3>1 DEF Idle
    <2> QED BY <2>2, <2>3
  <1>8. TypeOK'
    BY <1>1, <1>4, <1>5, <1>7 DEF AcquireInv, TypeOK, Sound
  <1>9. Honest(la)' /\ SearchesHold' /\ LoopHasData'
    BY <1>1, <1>4, <1>5, <1>7 DEF AcquireInv, Honest, SearchesHold, MapsHold,
                                  LoopHasData, Sound
  <1>10. EndIsReal' /\ Fresh'
    BY <1>1, <1>4, <1>5, <1>7 DEF AcquireInv, EndIsReal, Fresh, isDone, Sound
  <1> QED BY <1>4, <1>5, <1>8, <1>9, <1>10 DEF AcquireInv, Sound

LEMMA DoneTestsStep ==
  ASSUME AcquireInv, NEW w \in Workers, DoneTests(w) \/ DoneSignals(w)
  PROVE  AcquireInv'
  <1>1. /\ UNCHANGED <<kind, la, mapState, mReceivedData, mReceiveDispatched,
                       jobs, timer, listed, swept, store, answered>>
        /\ worker[w].at \in {"done", "signal"}
    BY DEF DoneTests, DoneSignals, signal, data
  <1>2. worker \in [Workers -> RunDataCall] /\ worker[w] \in RunDataCall
    BY DEF AcquireInv, TypeOK
  <1>3. PICK at \in {"idle", "signal"} : worker' = [worker EXCEPT ![w].at = at]
    BY DEF DoneTests, DoneSignals
  <1>4. isDone(la)
    BY <1>1 DEF AcquireInv, EndIsReal
  <1>5. mSignaled' \in BOOLEAN /\ dispatches' \in Nat
    <2>1. CASE DoneTests(w)
      BY <2>1 DEF DoneTests, signal, AcquireInv, TypeOK
    <2>2. CASE DoneSignals(w)
      BY <2>2 DEF DoneSignals, AcquireInv, TypeOK
    <2> QED BY <2>1, <2>2
  <1>6. /\ worker' \in [Workers -> RunDataCall]
        /\ \A x \in Workers : \/ worker'[x] = worker[x]
                              \/ worker'[x].at \in {"idle", "signal"}
    BY <1>2, <1>3 DEF RunDataCall
  <1>7. TypeOK'
    BY <1>1, <1>5, <1>6 DEF AcquireInv, TypeOK
  <1>8. Honest(la)' /\ SearchesHold' /\ LoopHasData'
    BY <1>1, <1>6 DEF AcquireInv, Honest, SearchesHold, MapsHold, LoopHasData
  <1>9. EndIsReal' /\ Fresh'
    BY <1>1, <1>4 DEF AcquireInv, EndIsReal, Fresh, isDone
  <1> QED BY <1>7, <1>8, <1>9 DEF AcquireInv

LEMMA LADispatchStep ==
  ASSUME AcquireInv, LADispatch
  PROVE  AcquireInv' /\ (answered # "no" => answered' = answered)
  <1>1. /\ UNCHANGED <<kind, la, mSignaled, mapState, mReceivedData,
                       mReceiveDispatched, jobs, worker, timer, listed, swept,
                       store>>
        /\ dispatches > 0 /\ dispatches' = dispatches - 1
        /\ answered' = IF la.mComplete /\ ~ la.mFailed THEN "complete" ELSE "failed"
    BY DEF LADispatch, data
  <1>2. isDone(la) /\ ~ (la.mComplete /\ la.mFailed)
    BY <1>1 DEF AcquireInv, EndIsReal, Honest
  <1>3. TypeOK'
    BY <1>1 DEF AcquireInv, TypeOK
  <1>4. Honest(la)' /\ SearchesHold' /\ LoopHasData' /\ Fresh'
    BY <1>1 DEF AcquireInv, Honest, SearchesHold, MapsHold, LoopHasData, Fresh
  <1>5. EndIsReal'
    BY <1>1, <1>2 DEF AcquireInv, EndIsReal, isDone
  <1>6. answered # "no" => answered' = answered
    BY <1>1, <1>2 DEF AcquireInv, TypeOK, EndIsReal
  <1> QED BY <1>3, <1>4, <1>5, <1>6 DEF AcquireInv

(* The actions of one thread, and the whole step. *)
LEMMA NextStep == AcquireInv /\ [Next]_vars => AcquireInv'
  <1> SUFFICES ASSUME AcquireInv, [Next]_vars PROVE AcquireInv'
    OBVIOUS
  <1>1. CASE Acquire \/ Sweep \/ CheckLocal
    BY <1>1, AcquireStep, SweepStep, CheckLocalStep
  <1>2. CASE \E n \in Nodes : Stash(n)
    BY <1>2, StashStep
  <1>3. CASE TimerFires \/ TimerJob
    BY <1>3, TimerFiresStep, TimerJobStep
  <1>4. CASE \E p \in Packets : GotData(p)
    BY <1>4, GotDataStep
  <1>5. ASSUME NEW w \in Workers, DoLedgerData(w) \/ RunData(w)
        PROVE  AcquireInv'
    BY <1>5, DoLedgerDataStep, TakeDataStep, ProcessDataStep,
       TriggerBeginsStep, SearchStateStep, TriggerEndsStep, DoneTestsStep
       DEF RunData
  <1>6. CASE LADispatch
    BY <1>6, LADispatchStep
  <1>7. CASE UNCHANGED vars
    BY <1>7 DEF vars, data, signal, AcquireInv, TypeOK, Honest, SearchesHold, MapsHold,
                LoopHasData, EndIsReal, Fresh, isDone
  <1> QED BY <1>1, <1>2, <1>3, <1>4, <1>5, <1>6, <1>7 DEF Next

(* In every behaviour of the acquisition, whatever the trees, peers and     *)
(* workers, its flags, jobs, trees and answers keep the relations of        *)
(* AcquireInv between them, which the theorems below are read off from.     *)
THEOREM InvCorrect == Spec => []AcquireInv
  BY InitInv, NextStep, PTL DEF Spec

(* An acquisition says it is complete only when it holds every node of the *)
(* ledger, and is never both complete and failed: InboundLedger::trigger   *)
(* may search without the lock, because nodes are only ever added and it   *)
(* tests the flags again when it has the lock back.                        *)
THEOREM CompleteCorrect == Spec => []CompleteHasAll
  <1>1. AcquireInv => CompleteHasAll
    BY DEF AcquireInv, Honest, CompleteHasAll, LedgerNodes, Nodes
  <1> QED BY <1>1, InvCorrect, PTL

-----------------------------------------------------------------------------
(* Once the acquisition has ended, no step changes its outcome. *)
LEMMA OutcomeKept ==
  ASSUME AcquireInv, [Next]_vars, isDone(la)
  PROVE  la'.mComplete = la.mComplete /\ la'.mFailed = la.mFailed
  <1>1. CASE Acquire
    BY <1>1 DEF Acquire, AcquireInv, Fresh
  <1>2. CASE Sweep \/ CheckLocal \/ TimerFires \/ LADispatch
    BY <1>2 DEF Sweep, CheckLocal, TimerFires, LADispatch
  <1>3. CASE TimerJob
    BY <1>3 DEF TimerJob
  <1>4. CASE \E n \in Nodes : Stash(n)
    BY <1>4 DEF Stash
  <1>5. CASE \E p \in Packets : GotData(p)
    BY <1>5 DEF GotData
  <1>6. ASSUME NEW w \in Workers, DoLedgerData(w) \/ RunData(w)
        PROVE  la'.mComplete = la.mComplete /\ la'.mFailed = la.mFailed
    <2>1. CASE ProcessData(w) \/ TriggerBegins(w) \/ TriggerEnds(w)
      BY <2>1, ProcessDataStep, TriggerBeginsStep, TriggerEndsStep
    <2>2. CASE DoLedgerData(w) \/ TakeData(w) \/ SearchState(w)
               \/ DoneTests(w) \/ DoneSignals(w)
      BY <2>2 DEF DoLedgerData, TakeData, SearchState, DoneTests, DoneSignals
    <2> QED BY <1>6, <2>1, <2>2 DEF RunData
  <1>7. CASE UNCHANGED vars
    BY <1>7 DEF vars
  <1> QED BY <1>1, <1>2, <1>3, <1>4, <1>5, <1>6, <1>7 DEF Next

(* What the rest of the server was told by LADispatch stays true: no late  *)
(* packet, fetch pack or timer turns a failed acquisition into a complete  *)
(* one, although done() may dispatch twice.                                *)
THEOREM AnswerCorrect == Spec => AnswerFinal
  <1>1. AcquireInv /\ [Next]_vars =>
          [answered # "no" => /\ answered' = answered
                              /\ la'.mComplete = la.mComplete
                              /\ la'.mFailed = la.mFailed]_vars
    <2> SUFFICES ASSUME AcquireInv, [Next]_vars, answered # "no"
                 PROVE  /\ answered' = answered
                        /\ la'.mComplete = la.mComplete
                        /\ la'.mFailed = la.mFailed
      OBVIOUS
    <2>1. isDone(la)
      BY DEF AcquireInv, TypeOK, EndIsReal, isDone
    <2>2. answered' = answered
      <3>1. CASE Acquire
        BY <2>1, <3>1 DEF Acquire, AcquireInv, Fresh
      <3>2. CASE LADispatch
        BY <3>2, LADispatchStep
      <3>3. CASE Sweep \/ CheckLocal \/ TimerFires \/ TimerJob
        BY <3>3 DEF Sweep, CheckLocal, TimerFires, TimerJob
      <3>4. CASE \E n \in Nodes : Stash(n)
        BY <3>4 DEF Stash
      <3>5. CASE \E p \in Packets : GotData(p)
        BY <3>5 DEF GotData
      <3>6. ASSUME NEW w \in Workers, DoLedgerData(w) \/ RunData(w)
            PROVE  answered' = answered
        BY <3>6 DEF RunData, DoLedgerData, TakeData, ProcessData,
                    TriggerBegins, SearchState, TriggerEnds, DoneTests,
                    DoneSignals
      <3>7. CASE UNCHANGED vars
        BY <3>7 DEF vars
      <3> QED BY <3>1, <3>2, <3>3, <3>4, <3>5, <3>6, <3>7 DEF Next
    <2> QED BY <2>1, <2>2, OutcomeKept
  <1> QED BY <1>1, InvCorrect, PTL DEF Spec, AnswerFinal

-----------------------------------------------------------------------------
(* The threads in the loop of runData, counted. *)
LEMMA LoopingFinite == IsFiniteSet(Looping) /\ Cardinality(Looping) \in Nat
  <1>1. Looping \subseteq Workers
    BY DEF Looping
  <1> QED BY <1>1, WorkersAssumption, FS_Subset, FS_CardinalityType

LEMMA NoneLooping ==
  ASSUME \A w \in Workers : worker[w].at = "idle"
  PROVE  Cardinality(Looping) = 0
  <1>1. Looping = {}
    BY DEF Looping
  <1> QED BY <1>1, FS_EmptySet

(* A thread that enters, leaves or stays. *)
LEMMA LoopEntered ==
  ASSUME NEW w \in Workers, worker[w].at = "idle",
         worker' = [worker EXCEPT ![w] = [Idle EXCEPT !.at = "take"]],
         worker \in [Workers -> RunDataCall]
  PROVE  Cardinality(Looping') = Cardinality(Looping) + 1
  <1>1. w \notin Looping
    BY DEF Looping
  <1>2. Looping' = Looping \cup {w}
    BY DEF Looping, Idle
  <1> QED BY <1>1, <1>2, LoopingFinite, FS_AddElement

LEMMA LoopLeft ==
  ASSUME NEW w \in Looping, worker \in [Workers -> RunDataCall],
         worker'[w].at \notin {"take", "process"},
         \A x \in Workers \ {w} : worker'[x] = worker[x]
  PROVE  Cardinality(Looping') = Cardinality(Looping) - 1
  <1>1. Looping' = Looping \ {w}
    BY DEF Looping
  <1> QED BY <1>1, LoopingFinite, FS_RemoveElement

LEMMA LoopKept ==
  ASSUME \A x \in Workers : worker'[x].at \in {"take", "process"}
                              <=> worker[x].at \in {"take", "process"}
  PROVE  Looping' = Looping
  BY DEF Looping

LEMMA GotDataKeepsJob ==
  ASSUME AcquireInv, DataHasJob, NEW p \in Packets, GotData(p)
  PROVE  DataHasJob'
  <1>1. /\ listed /\ worker' = worker
        /\ mReceiveDispatched' = TRUE
        /\ jobs' = IF mReceiveDispatched THEN jobs ELSE jobs + 1
    BY DEF GotData
  <1>2. Looping' = Looping
    BY <1>1 DEF Looping
  <1>3. jobs \in Nat /\ Cardinality(Looping) \in Nat
        /\ mReceiveDispatched \in BOOLEAN
    BY LoopingFinite DEF AcquireInv, TypeOK
  <1>4. jobs + Cardinality(Looping) = IF mReceiveDispatched THEN 1 ELSE 0
    BY <1>1 DEF DataHasJob
  <1>5. jobs' + Cardinality(Looping) = 1
    <2>1. CASE mReceiveDispatched
      BY <1>1, <1>3, <1>4, <2>1
    <2>2. CASE ~ mReceiveDispatched
      BY <1>1, <1>3, <1>4, <2>2
    <2> QED BY <2>1, <2>2
  <1> QED BY <1>1, <1>2, <1>5 DEF DataHasJob

LEMMA DoLedgerDataKeepsJob ==
  ASSUME AcquireInv, DataHasJob, NEW w \in Workers, DoLedgerData(w)
  PROVE  DataHasJob'
  <1> SUFFICES ASSUME listed' PROVE DataHasJob'
    BY DEF DataHasJob
  <1>1. /\ listed /\ worker[w].at = "idle"
        /\ jobs' = jobs - 1
        /\ mReceivedData' = mReceivedData
        /\ mReceiveDispatched' = mReceiveDispatched
        /\ worker' = [worker EXCEPT ![w] = [Idle EXCEPT !.at = "take"]]
    BY DEF DoLedgerData
  <1>2. Cardinality(Looping') = Cardinality(Looping) + 1
    BY <1>1, LoopEntered DEF AcquireInv, TypeOK
  <1>3. jobs' + Cardinality(Looping') = jobs + Cardinality(Looping)
    BY <1>1, <1>2, LoopingFinite DEF AcquireInv, TypeOK
  <1> QED BY <1>1, <1>3 DEF DataHasJob

LEMMA TakeDataKeepsJob ==
  ASSUME AcquireInv, DataHasJob, NEW w \in Workers, TakeData(w)
  PROVE  DataHasJob'
  <1> SUFFICES ASSUME listed' PROVE DataHasJob'
    BY DEF DataHasJob
  <1>1. listed /\ worker[w].at = "take" /\ jobs' = jobs /\ w \in Looping
    BY DEF TakeData, Looping
  <1>2. worker \in [Workers -> RunDataCall]
    BY DEF AcquireInv, TypeOK
  <1>3. jobs \in Nat /\ mReceiveDispatched \in BOOLEAN
    BY DEF AcquireInv, TypeOK
  <1>4. CASE mReceivedData = <<>>
    <2>1. /\ worker' = [worker EXCEPT ![w] =
               IF worker[w].chosen THEN [Idle EXCEPT !.at = "trigger"]
                                   ELSE Idle]
          /\ mReceivedData' = <<>> /\ mReceiveDispatched' = FALSE
      BY <1>4 DEF TakeData
    <2>2. /\ worker'[w].at \notin {"take", "process"}
          /\ \A x \in Workers \ {w} : worker'[x] = worker[x]
      BY <1>2, <2>1 DEF Idle
    <2>3. Cardinality(Looping') = Cardinality(Looping) - 1
      BY <1>1, <1>2, <2>2, LoopLeft
    <2>4. Cardinality(Looping) > 0
      <3>1. Looping # {}
        BY <1>1
      <3> QED BY <3>1, LoopingFinite, FS_EmptySet
    <2>5. jobs + Cardinality(Looping) = 1
      <3>1. jobs + Cardinality(Looping) = IF mReceiveDispatched THEN 1 ELSE 0
        BY <1>1 DEF DataHasJob
      <3> QED BY <1>3, <2>4, <3>1, LoopingFinite
    <2>6. jobs' + Cardinality(Looping') = 0
      BY <1>1, <1>3, <2>3, <2>5, LoopingFinite
    <2> QED BY <2>1, <2>6 DEF DataHasJob
  <1>5. CASE mReceivedData # <<>>
    <2>1. /\ worker' = [worker EXCEPT ![w].at = "process",
                                      ![w].data = mReceivedData]
          /\ mReceivedData' = <<>> /\ mReceiveDispatched' = mReceiveDispatched
      BY <1>5 DEF TakeData
    <2>2. \A x \in Workers : worker'[x].at \in {"take", "process"}
                               <=> worker[x].at \in {"take", "process"}
      BY <1>1, <1>2, <2>1 DEF RunDataCall
    <2>3. Looping' = Looping
      BY <2>2, LoopKept
    <2> QED BY <1>1, <2>1, <2>3 DEF DataHasJob
  <1> QED BY <1>4, <1>5

(* The rest of runData is outside the loop, or stays in it. *)
LEMMA RestKeepsJob ==
  ASSUME AcquireInv, DataHasJob, NEW w \in Workers,
         \/ ProcessData(w) \/ TriggerBegins(w) \/ SearchState(w)
         \/ TriggerEnds(w) \/ DoneTests(w) \/ DoneSignals(w)
  PROVE  DataHasJob'
  <1>1. worker \in [Workers -> RunDataCall] /\ worker[w] \in RunDataCall
    BY DEF AcquireInv, TypeOK
  <1>2. UNCHANGED <<mReceivedData, mReceiveDispatched, jobs, listed>>
    BY DEF ProcessData, TriggerBegins, SearchState, TriggerEnds, DoneTests,
           DoneSignals, data
  <1>3. \A x \in Workers : worker'[x].at \in {"take", "process"}
                             <=> worker[x].at \in {"take", "process"}
    <2>1. CASE ProcessData(w)
      <3>1. worker[w].at = "process"
            /\ \E rest, ch : worker' = [worker EXCEPT
                  ![w].data = rest, ![w].chosen = ch,
                  ![w].at = IF rest = <<>> THEN "take" ELSE "process"]
        BY <2>1 DEF ProcessData
      <3> QED BY <1>1, <3>1 DEF RunDataCall
    <2>2. CASE TriggerBegins(w)
      <3>1. worker[w].at = "trigger" /\ \E at \in {"search", "done", "idle"} :
              worker' = [worker EXCEPT ![w].at = at]
        BY <2>2 DEF TriggerBegins
      <3> QED BY <1>1, <3>1 DEF RunDataCall
    <2>3. CASE SearchState(w)
      BY <1>1, <2>3 DEF SearchState, RunDataCall
    <2>4. CASE TriggerEnds(w)
      <3>1. worker[w].at = "relock" /\ \E at \in {"done", "idle"} :
              worker' = [worker EXCEPT ![w] = [Idle EXCEPT !.at = at]]
        BY <2>4 DEF TriggerEnds
      <3> QED BY <1>1, <3>1 DEF Idle
    <2>5. CASE DoneTests(w) \/ DoneSignals(w)
      <3>1. worker[w].at \in {"done", "signal"}
            /\ \E at \in {"idle", "signal"} :
                 worker' = [worker EXCEPT ![w].at = at]
        BY <2>5 DEF DoneTests, DoneSignals
      <3> QED BY <1>1, <3>1 DEF RunDataCall
    <2> QED BY <2>1, <2>2, <2>3, <2>4, <2>5
  <1>4. Looping' = Looping
    BY <1>3, LoopKept
  <1> QED BY <1>2, <1>4 DEF DataHasJob

LEMMA DataStep == AcquireInv /\ DataHasJob /\ [Next]_vars => DataHasJob'
  <1> SUFFICES ASSUME AcquireInv, DataHasJob, [Next]_vars PROVE DataHasJob'
    OBVIOUS
  <1>1. CASE Acquire
    <2>1. /\ \A w \in Workers : worker[w].at = "idle"
          /\ mReceivedData = <<>> /\ ~ mReceiveDispatched /\ jobs = 0
      BY <1>1 DEF Acquire, AcquireInv, Fresh
    <2>2. UNCHANGED <<mReceivedData, mReceiveDispatched, jobs, worker>>
      BY <1>1 DEF Acquire, data
    <2>3. Cardinality(Looping') = 0
      BY <2>1, <2>2, NoneLooping DEF Looping
    <2> QED BY <2>1, <2>2, <2>3 DEF DataHasJob
  <1>2. CASE Sweep
    BY <1>2 DEF Sweep, DataHasJob
  <1>3. CASE \/ CheckLocal \/ TimerFires \/ TimerJob \/ LADispatch
             \/ \E n \in Nodes : Stash(n)
             \/ UNCHANGED vars
    <2>1. UNCHANGED <<mReceivedData, mReceiveDispatched, jobs, worker,
                      listed>>
      BY <1>3 DEF CheckLocal, TimerFires, TimerJob, LADispatch, Stash, vars, data
    <2> QED BY <2>1 DEF DataHasJob, Looping
  <1>4. CASE \E p \in Packets : GotData(p)
    BY <1>4, GotDataKeepsJob
  <1>5. ASSUME NEW w \in Workers, DoLedgerData(w) \/ RunData(w)
        PROVE  DataHasJob'
    BY <1>5, DoLedgerDataKeepsJob, TakeDataKeepsJob, RestKeepsJob DEF RunData
  <1> QED BY <1>1, <1>2, <1>3, <1>4, <1>5 DEF Next

(* Received data has exactly one doLedgerData job, queued or in the loop   *)
(* of runData, for as long as InboundLedgers lists the acquisition: a      *)
(* packet that comes while the job leaves its loop gets a new one.         *)
THEOREM DataCorrect == Spec => []DataHasJob
  <1>1. Init => DataHasJob
    BY DEF Init, DataHasJob
  <1> QED BY <1>1, DataStep, InvCorrect, PTL DEF Spec
==============================================================================
