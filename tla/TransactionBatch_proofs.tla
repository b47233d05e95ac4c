------------------------ MODULE TransactionBatch_proofs ------------------------
(***************************************************************************)
(* For any number of transactions, clients, relays, workers and            *)
(* submissions: one batch at a time, every transaction in it once, none    *)
(* forgotten.                                                              *)
(***************************************************************************)
EXTENDS TransactionBatch, TLAPS

(* Where a thread of each kind can be, and what it then has. *)
ThreadInv ==
  /\ \A t \in Threads :
       /\ at[t] \in {"sync", "waiting", "woken"} => t \in Clients
       /\ at[t] = "async" => t \in Relays
       /\ at[t] \in {"taken", "applied"} => t \notin Relays
       /\ at[t] \notin {"taken", "applied"} => batch[t] = {}
  /\ \A t \in Clients : at[t] # "idle" => request[t] \in Entry

(* A queued transaction has made somebody schedule a batch, and a batch is *)
(* scheduled only while something is queued.                               *)
QueueInv ==
  /\ mTransactions # {} => mDispatchState # "none"
  /\ mDispatchState = "scheduled" => mTransactions # {}

BatchInv ==
  /\ TypeOK
  /\ ThreadInv
  /\ QueueInv
  /\ OneBatch
  /\ AppliedOnce
  /\ BatchNotEmpty
  /\ NotStranded

LEMMA InFlightDef ==
  \A e : e \in InFlight <=>
           e \in mTransactions \/ \E t \in Threads : e \in batch[t]
BY DEF InFlight

(* When no batch is running, everything that is being applied is queued.   *)
LEMMA QueueHasAll ==
  ASSUME BatchInv, mDispatchState # "running"
  PROVE  /\ \A t \in Threads : batch[t] = {}
         /\ applying = {e.tx : e \in mTransactions}
<1>1. Busy = {}
  BY DEF BatchInv, OneBatch
<1>2. \A t \in Threads : batch[t] = {}
  BY <1>1 DEF BatchInv, ThreadInv, Busy
<1>3. InFlight = mTransactions
  BY <1>2, InFlightDef
<1>4. QED
  BY <1>2, <1>3 DEF BatchInv, AppliedOnce

LEMMA InitInv == Init => BatchInv
<1> SUFFICES ASSUME Init PROVE BatchInv
  OBVIOUS
<1> USE BatchAssumption
<1>1. TypeOK
  <2>1. stopping \in BOOLEAN
    BY Zenon DEF Init
  <2>2. /\ request \in [Threads -> Entry \cup {NoRequest}]
        /\ batch \in [Threads -> SUBSET Entry]
        /\ flags \in [Txs -> SUBSET {"bad", "siggood", "relayed"}]
        /\ result \in [Txs -> Results \cup {"uncertain"}]
    BY DEF Init
  <2>3. /\ submits \in 0 .. MaxSubmits
        /\ batchJobs \in Nat
    BY DEF Init
  <2>4. QED
    BY <2>1, <2>2, <2>3 DEF Init, TypeOK
<1>2. ThreadInv /\ QueueInv
  BY DEF Init, ThreadInv, QueueInv, Threads
<1>3. OneBatch /\ BatchNotEmpty /\ NotStranded
  BY DEF Init, OneBatch, BatchNotEmpty, NotStranded, Busy
<1>4. AppliedOnce
  <2>1. \A e : e \notin InFlight
    BY InFlightDef DEF Init
  <2>2. QED
    BY <2>1 DEF AppliedOnce, Init
<1>5. QED
  BY <1>1, <1>2, <1>3, <1>4 DEF BatchInv

LEMMA ProcessTransactionInv ==
  ASSUME BatchInv, NEW t \in Threads, NEW x \in Txs,
         NEW failHard \in BOOLEAN, ProcessTransaction(t, x, failHard)
  PROVE  BatchInv'
<1> USE BatchAssumption
<1> USE DEF BatchInv, ProcessTransaction
<1>1. flags' \in [Txs -> SUBSET {"bad", "siggood", "relayed"}]
  BY DEF TypeOK
<1>2. CASE IsBad(x)
  <2>1. UNCHANGED <<at, request, batch, mTransactions, applying,
                    mDispatchState, batchJobs, stopping>>
    BY <1>2
  <2>2. TypeOK'
    <3>1. submits' \in 0 .. MaxSubmits
      BY DEF TypeOK
    <3>2. QED
      BY <1>1, <2>1, <3>1 DEF TypeOK
  <2>3. (ThreadInv /\ QueueInv /\ OneBatch /\ AppliedOnce /\ BatchNotEmpty
           /\ NotStranded)'
    BY <2>1 DEF ThreadInv, QueueInv, OneBatch, AppliedOnce, BatchNotEmpty,
                NotStranded, Busy, InFlight
  <2>4. QED
    BY <2>2, <2>3
<1>3. CASE ~IsBad(x)
  <2> DEFINE r == [tx |-> x, local |-> t \in Clients, failHard |-> failHard,
                   id |-> submits + 1]
  <2>2. r \in Entry
    <3>1. submits + 1 \in 1 .. MaxSubmits
      BY DEF TypeOK
    <3>2. QED
      BY <3>1 DEF Entry
  <2> HIDE DEF r
  <2>3. /\ at' = [at EXCEPT ![t] = IF t \in Clients THEN "sync" ELSE "async"]
        /\ request' = [request EXCEPT ![t] = r]
    BY <1>3 DEF r
  <2>4. TypeOK'
    BY <1>1, <2>2, <2>3 DEF TypeOK
  <2>5. ThreadInv'
    BY <2>2, <2>3 DEF ThreadInv, TypeOK, Threads
  <2>6. Busy' = Busy
    BY <2>3 DEF Busy, TypeOK
  <2>7. (QueueInv /\ OneBatch /\ AppliedOnce /\ BatchNotEmpty
           /\ NotStranded)'
    BY <2>6 DEF QueueInv, OneBatch, AppliedOnce, BatchNotEmpty, NotStranded,
                InFlight
  <2>8. QED
    BY <2>4, <2>5, <2>7
<1>4. QED
  BY <1>2, <1>3

LEMMA DoTransactionAsyncInv ==
  ASSUME BatchInv, NEW t \in Threads, DoTransactionAsync(t)
  PROVE  BatchInv'
<1> USE BatchAssumption
<1> DEFINE r == request[t]
<1>1. r \in Entry /\ r.tx \in Txs
  BY DEF BatchInv, TypeOK, DoTransactionAsync, Entry
<1>2. t \in Relays /\ t \notin Clients
  BY DEF BatchInv, ThreadInv, DoTransactionAsync
<1>3. /\ at' = [at EXCEPT ![t] = "idle"]
      /\ request' = [request EXCEPT ![t] = NoRequest]
      /\ UNCHANGED <<batch, flags, openTxs, held, localTxs, result, submits,
                     stopping>>
      /\ at[t] = "async"
  BY DEF DoTransactionAsync, effects
<1>4. /\ applying' \subseteq Txs
      /\ mTransactions' \subseteq Entry
      /\ mDispatchState' \in {"none", "scheduled", "running"}
      /\ batchJobs' \in Nat
  BY <1>1 DEF DoTransactionAsync, BatchInv, TypeOK, AddBatchJob
<1>5. TypeOK'
  <2>1. /\ at' \in [Threads -> {"idle", "async", "sync", "waiting", "woken",
                                "taken", "applied"}]
        /\ request' \in [Threads -> Entry \cup {NoRequest}]
        /\ \A s \in Threads : at'[s] \in {"async", "sync", "waiting", "woken"}
             => request'[s] \in Entry
    BY <1>3 DEF BatchInv, TypeOK
  <2>2. QED
    BY <1>3, <1>4, <2>1 DEF BatchInv, TypeOK
<1>6. ThreadInv'
  BY <1>2, <1>3 DEF BatchInv, ThreadInv, TypeOK, Threads
<1>7. Busy' = Busy
  BY <1>3 DEF BatchInv, TypeOK, Busy
<1>8. /\ QueueInv'
      /\ mDispatchState = "running" <=> mDispatchState' = "running"
  BY DEF DoTransactionAsync, BatchInv, QueueInv
<1>9. OneBatch' /\ BatchNotEmpty'
  BY <1>3, <1>7, <1>8 DEF BatchInv, OneBatch, BatchNotEmpty
<1>10. NotStranded'
  BY <1>3 DEF DoTransactionAsync, AddBatchJob, BatchInv, QueueInv, TypeOK,
              NotStranded
<1>11. AppliedOnce'
  <2>1. CASE r.tx \in applying
    BY <2>1, <1>3 DEF DoTransactionAsync, BatchInv, AppliedOnce, InFlight
  <2>2. CASE r.tx \notin applying
    <3>1. /\ mTransactions' = mTransactions \cup {r}
          /\ applying' = applying \cup {r.tx}
      BY <2>2 DEF DoTransactionAsync
    <3>2. InFlight' = InFlight \cup {r}
      BY <3>1, <1>3 DEF InFlight
    <3>3. \A e \in InFlight : e.tx # r.tx
      BY <2>2 DEF BatchInv, AppliedOnce
    <3>4. \A s \in Threads : r \notin batch[s]
      BY <3>3, InFlightDef
    <3>5. QED
      BY <1>3, <3>1, <3>2, <3>3, <3>4 DEF BatchInv, AppliedOnce
  <2>3. QED
    BY <2>1, <2>2
<1>12. QED
  BY <1>5, <1>6, <1>8, <1>9, <1>10, <1>11 DEF BatchInv

(* apply() starts: t takes the queue, when no batch is running. *)
LEMMA TakeInv ==
  ASSUME BatchInv, NEW t \in Threads, NEW queue \in SUBSET Entry,
         mDispatchState # "running", t \notin Relays, queue # {},
         t \in Clients => request[t] \in Entry,
         \A e, f \in queue : e.tx = f.tx => e = f,
         applying' = {e.tx : e \in queue}, batchJobs' \in Nat,
         Take(t, queue), UNCHANGED <<request, effects, submits, stopping>>
  PROVE  BatchInv'
<1>1. /\ \A s \in Threads : batch[s] = {}
      /\ \A s \in Threads : at[s] \notin {"taken", "applied"}
  BY QueueHasAll DEF BatchInv, OneBatch, Busy
<1>2. /\ at' = [at EXCEPT ![t] = "taken"]
      /\ batch' = [batch EXCEPT ![t] = queue]
      /\ mTransactions' = {}
      /\ mDispatchState' = "running"
      /\ UNCHANGED <<request, flags, openTxs, held, localTxs, result, submits,
                     stopping>>
  BY DEF Take, effects
<1>3. \A s \in Threads : batch'[s] = IF s = t THEN queue ELSE {}
  BY <1>1, <1>2 DEF BatchInv, TypeOK
<1>4. Busy' = {t}
  BY <1>1, <1>2 DEF BatchInv, TypeOK, Busy
<1>5. TypeOK'
  <2>1. applying' \subseteq Txs
    BY DEF Entry
  <2>2. /\ at' \in [Threads -> {"idle", "async", "sync", "waiting", "woken",
                                "taken", "applied"}]
        /\ batch' \in [Threads -> SUBSET Entry]
        /\ \A s \in Threads : at'[s] \in {"async", "sync", "waiting", "woken"}
             => request'[s] \in Entry
    BY <1>2 DEF BatchInv, TypeOK
  <2>3. QED
    BY <1>2, <2>1, <2>2 DEF BatchInv, TypeOK
<1>6. ThreadInv'
  BY <1>2, <1>3 DEF BatchInv, ThreadInv, TypeOK, Threads
<1>7. QueueInv' /\ NotStranded'
  BY <1>2 DEF QueueInv, NotStranded
<1>8. OneBatch' /\ BatchNotEmpty'
  BY <1>2, <1>3, <1>4 DEF OneBatch, BatchNotEmpty
<1>9. AppliedOnce'
  <2>1. InFlight' = queue
    BY <1>2, <1>3 DEF InFlight
  <2>2. QED
    BY <1>2, <1>3, <2>1 DEF AppliedOnce
<1>10. QED
  BY <1>5, <1>6, <1>7, <1>8, <1>9 DEF BatchInv

(* A thread without a batch moves to another such place. *)
LEMMA MoveInv ==
  ASSUME BatchInv, NEW t \in Clients, NEW p \in {"idle", "waiting", "woken"},
         at[t] \notin {"taken", "applied"}, at' = [at EXCEPT ![t] = p],
         \/ p = "idle" /\ request' = [request EXCEPT ![t] = NoRequest]
         \/ at[t] # "idle" /\ request' = request,
         UNCHANGED <<applying, mTransactions, mDispatchState, batchJobs,
                     batch, effects, submits, stopping>>
  PROVE  BatchInv'
<1>1. t \in Threads
  BY DEF Threads
<1>2. /\ at' \in [Threads -> {"idle", "async", "sync", "waiting", "woken",
                              "taken", "applied"}]
      /\ request' \in [Threads -> Entry \cup {NoRequest}]
  BY DEF BatchInv, TypeOK
<1>3. p # "idle" => request'[t] \in Entry
  BY DEF BatchInv, ThreadInv
<1>4. \A s \in Threads : s # t => at'[s] = at[s] /\ request'[s] = request[s]
  BY DEF BatchInv, TypeOK
<1>5. at'[t] = p
  BY <1>1 DEF BatchInv, TypeOK
<1>6. \A s \in Threads : at'[s] \in {"async", "sync", "waiting", "woken"}
        => request'[s] \in Entry
  BY <1>3, <1>4, <1>5 DEF BatchInv, TypeOK
<1>7. TypeOK'
  BY <1>2, <1>6 DEF BatchInv, TypeOK, effects
<1>8. ThreadInv'
  BY <1>1, <1>3, <1>4, <1>5 DEF BatchInv, ThreadInv, Threads
<1>9. Busy' = Busy
  BY <1>4, <1>5 DEF Busy
<1>10. (QueueInv /\ OneBatch /\ AppliedOnce /\ BatchNotEmpty /\ NotStranded)'
  BY <1>9 DEF BatchInv, QueueInv, OneBatch, AppliedOnce, BatchNotEmpty,
              NotStranded, InFlight
<1>11. QED
  BY <1>7, <1>8, <1>10 DEF BatchInv

LEMMA DoTransactionSyncInv ==
  ASSUME BatchInv, NEW t \in Threads, DoTransactionSync(t)
  PROVE  BatchInv'
<1> DEFINE r == request[t]
<1> DEFINE queue == IF r.tx \in applying THEN mTransactions
                                         ELSE mTransactions \cup {r}
<1>1. /\ at[t] = "sync"
      /\ applying' = applying \cup {r.tx}
      /\ WaitOrTake(t, queue)
      /\ UNCHANGED <<batchJobs, request, effects, submits, stopping>>
  BY DEF DoTransactionSync
<1>2. t \in Clients /\ t \notin Relays /\ r \in Entry /\ r.tx \in Txs
  BY <1>1, BatchAssumption DEF BatchInv, ThreadInv, Entry
<1>3. queue \in SUBSET Entry
  BY <1>2 DEF BatchInv, TypeOK
<1>4. \A e, f \in queue : e.tx = f.tx => e = f
  <2>1. \A e, f \in mTransactions : e.tx = f.tx => e = f
    BY InFlightDef DEF BatchInv, AppliedOnce
  <2>2. \A e \in mTransactions : e.tx \in applying
    BY InFlightDef DEF BatchInv, AppliedOnce
  <2>3. QED
    BY <2>1, <2>2
<1>5. CASE mDispatchState # "running"
  <2>1. Take(t, queue)
    BY <1>1, <1>5 DEF WaitOrTake
  <2>2. applying = {e.tx : e \in mTransactions}
    BY <1>5, QueueHasAll
  <2>3. applying' = {e.tx : e \in queue}
    BY <1>1, <2>2
  <2>4. queue # {}
    BY <1>1, <2>3
  <2>5. batchJobs' \in Nat
    BY <1>1 DEF BatchInv, TypeOK
  <2> HIDE DEF queue
  <2>6. QED
    BY <1>1, <1>2, <1>3, <1>4, <1>5, <2>1, <2>3, <2>4, <2>5, TakeInv
<1>6. CASE mDispatchState = "running"
  <2>1. /\ at' = [at EXCEPT ![t] = "waiting"]
        /\ mTransactions' = queue
        /\ UNCHANGED <<batch, mDispatchState, batchJobs, request, flags,
                       openTxs, held, localTxs, result, submits, stopping>>
    BY <1>1, <1>6 DEF WaitOrTake, effects
  <2>2. TypeOK'
    <3>1. /\ at' \in [Threads -> {"idle", "async", "sync", "waiting", "woken",
                                  "taken", "applied"}]
          /\ \A s \in Threads :
               at'[s] \in {"async", "sync", "waiting", "woken"} =>
                 request'[s] \in Entry
      BY <1>2, <2>1 DEF BatchInv, TypeOK
    <3>2. applying' \subseteq Txs
      BY <1>1, <1>2 DEF BatchInv, TypeOK
    <3>3. mTransactions' \subseteq Entry
      BY <1>3, <2>1
    <3>4. QED
      BY <2>1, <3>1, <3>2, <3>3 DEF BatchInv, TypeOK
  <2>3. ThreadInv'
    BY <1>1, <1>2, <2>1 DEF BatchInv, ThreadInv, TypeOK, Threads
  <2>4. Busy' = Busy
    BY <1>1, <2>1 DEF BatchInv, TypeOK, Busy
  <2>5. (QueueInv /\ OneBatch /\ BatchNotEmpty /\ NotStranded)'
    BY <1>6, <2>1, <2>4 DEF BatchInv, QueueInv, OneBatch, BatchNotEmpty,
                            NotStranded
  <2>6. AppliedOnce'
    <3>1. CASE r.tx \in applying
      <4>1. UNCHANGED <<applying, mTransactions, batch>>
        BY <1>1, <2>1, <3>1
      <4>2. QED
        BY <4>1 DEF BatchInv, AppliedOnce, InFlight
    <3>2. CASE r.tx \notin applying
      <4>1. InFlight' = InFlight \cup {r}
        BY <2>1, <3>2 DEF InFlight
      <4>2. \A e \in InFlight : e.tx # r.tx
        BY <3>2 DEF BatchInv, AppliedOnce
      <4>3. \A s \in Threads : r \notin batch[s]
        BY <4>2, InFlightDef
      <4>4. QED
        BY <1>1, <2>1, <3>2, <4>1, <4>2, <4>3 DEF BatchInv, AppliedOnce
    <3>3. QED
      BY <3>1, <3>2
  <2>7. QED
    BY <2>2, <2>3, <2>5, <2>6 DEF BatchInv
<1>7. QED
  BY <1>5, <1>6

LEMMA LoopTestInv ==
  ASSUME BatchInv, NEW t \in Threads, LoopTest(t)
  PROVE  BatchInv'
<1>1. /\ at[t] = "woken"
      /\ UNCHANGED <<applying, batchJobs, effects, submits, stopping>>
  BY DEF LoopTest
<1>2. t \in Clients /\ t \notin Relays /\ request[t] \in Entry
  BY <1>1, BatchAssumption DEF BatchInv, ThreadInv
<1>3. CASE request[t].tx \notin applying
  BY <1>1, <1>2, <1>3, MoveInv DEF LoopTest
<1>4. CASE request[t].tx \in applying /\ mDispatchState = "running"
  <2>1. /\ at' = [at EXCEPT ![t] = "waiting"]
        /\ UNCHANGED <<request, mTransactions, batch, mDispatchState>>
    BY <1>4 DEF LoopTest, WaitOrTake
  <2>2. QED
    BY <1>1, <1>2, <2>1, MoveInv
<1>5. CASE request[t].tx \in applying /\ mDispatchState # "running"
  <2>1. Take(t, mTransactions) /\ UNCHANGED request
    BY <1>5 DEF LoopTest, WaitOrTake
  <2>2. applying' = {e.tx : e \in mTransactions}
    BY <1>1, <1>5, QueueHasAll
  <2>3. mTransactions # {}
    BY <1>1, <1>5, <2>2
  <2>4. \A e, f \in mTransactions : e.tx = f.tx => e = f
    BY InFlightDef DEF BatchInv, AppliedOnce
  <2>5. batchJobs' \in Nat /\ mTransactions \in SUBSET Entry
    BY <1>1 DEF BatchInv, TypeOK
  <2>6. QED
    BY <1>1, <1>2, <1>5, <2>1, <2>2, <2>3, <2>4, <2>5, TakeInv
<1>6. QED
  BY <1>3, <1>4, <1>5

LEMMA TransactionBatchInv ==
  ASSUME BatchInv, NEW w \in Workers, TransactionBatch(w)
  PROVE  BatchInv'
<1>1. /\ at[w] = "idle" /\ batchJobs > 0
      /\ batchJobs' = batchJobs - 1
      /\ UNCHANGED <<applying, request, effects, submits, stopping>>
  BY DEF TransactionBatch
<1>2. w \in Threads /\ w \notin Relays /\ w \notin Clients
  BY BatchAssumption DEF Threads
<1>3. batchJobs' \in Nat
  BY <1>1 DEF BatchInv, TypeOK
<1>4. CASE stopping \/ mDispatchState = "running" \/ mTransactions = {}
  <2>1. UNCHANGED <<mTransactions, mDispatchState, at, batch>>
    BY <1>4 DEF TransactionBatch
  <2>2. TypeOK'
    BY <1>1, <1>3, <2>1 DEF BatchInv, TypeOK, effects
  <2>3. (ThreadInv /\ QueueInv /\ OneBatch /\ AppliedOnce /\ BatchNotEmpty)'
    BY <1>1, <2>1 DEF BatchInv, ThreadInv, QueueInv, OneBatch, AppliedOnce,
                      BatchNotEmpty, Busy, InFlight
  <2>4. NotStranded'
    BY <1>1, <1>4, <2>1 DEF NotStranded
  <2>5. QED
    BY <2>2, <2>3, <2>4 DEF BatchInv
<1>5. CASE ~(stopping \/ mDispatchState = "running" \/ mTransactions = {})
  <2>1. Take(w, mTransactions)
    BY <1>5 DEF TransactionBatch
  <2>2. applying' = {e.tx : e \in mTransactions}
    BY <1>1, <1>5, QueueHasAll
  <2>3. \A e, f \in mTransactions : e.tx = f.tx => e = f
    BY InFlightDef DEF BatchInv, AppliedOnce
  <2>4. mTransactions \in SUBSET Entry
    BY DEF BatchInv, TypeOK
  <2>5. QED
    BY <1>1, <1>2, <1>3, <1>5, <2>1, <2>2, <2>3, <2>4, TakeInv
<1>6. QED
  BY <1>4, <1>5

LEMMA ApplyBatchInv ==
  ASSUME BatchInv, NEW t \in Threads, ApplyBatch(t)
  PROVE  BatchInv'
<1>1. /\ at[t] = "taken"
      /\ at' = [at EXCEPT ![t] = "applied"]
      /\ UNCHANGED <<applying, mTransactions, mDispatchState, batchJobs,
                     request, batch, submits, stopping>>
  BY DEF ApplyBatch
<1>2. flags' \in [Txs -> SUBSET {"bad", "siggood", "relayed"}]
  BY DEF BatchInv, TypeOK, ApplyBatch
<1>3. /\ openTxs' \subseteq Txs /\ held' \subseteq Txs
      /\ localTxs' \subseteq Txs
  <2>1. \A e \in batch[t] : e.tx \in Txs
    BY DEF BatchInv, TypeOK, Entry
  <2>2. QED
    BY <2>1 DEF BatchInv, TypeOK, ApplyBatch
<1>4. result' \in [Txs -> Results \cup {"uncertain"}]
  BY DEF BatchInv, TypeOK, ApplyBatch
<1>5. TypeOK'
  <2>1. /\ at' \in [Threads -> {"idle", "async", "sync", "waiting", "woken",
                                "taken", "applied"}]
        /\ \A s \in Threads : at'[s] \in {"async", "sync", "waiting", "woken"}
             => request'[s] \in Entry
    BY <1>1 DEF BatchInv, TypeOK
  <2>2. QED
    BY <1>1, <1>2, <1>3, <1>4, <2>1 DEF BatchInv, TypeOK
<1>6. ThreadInv'
  BY <1>1 DEF BatchInv, ThreadInv, TypeOK, Threads
<1>7. Busy' = Busy
  BY <1>1 DEF BatchInv, TypeOK, Busy
<1>8. (QueueInv /\ OneBatch /\ AppliedOnce /\ BatchNotEmpty /\ NotStranded)'
  BY <1>1, <1>7 DEF BatchInv, QueueInv, OneBatch, AppliedOnce, BatchNotEmpty,
                    NotStranded, InFlight
<1>9. QED
  BY <1>5, <1>6, <1>8 DEF BatchInv

(* At the end of apply() the batch is the only one: clearApplying leaves   *)
(* exactly the queued transactions.                                        *)
LEMMA ClearedFacts ==
  ASSUME BatchInv, NEW t \in Threads, at[t] = "applied"
  PROVE  /\ \A s \in Threads : s # t =>
              batch[s] = {} /\ at[s] \notin {"taken", "applied"}
         /\ Cleared(t) = {e.tx : e \in mTransactions}
<1>1. \A s \in Threads : s # t => at[s] \notin {"taken", "applied"}
  BY DEF BatchInv, OneBatch, Busy
<1>2. \A s \in Threads : s # t => batch[s] = {}
  BY <1>1 DEF BatchInv, ThreadInv
<1>3. InFlight = mTransactions \cup batch[t]
  BY <1>2, InFlightDef
<1>4. applying = {e.tx : e \in mTransactions \cup batch[t]}
  BY <1>3 DEF BatchInv, AppliedOnce
<1>5. \A e \in mTransactions, f \in batch[t] : e.tx # f.tx
  BY <1>3 DEF BatchInv, AppliedOnce
<1>6. Cleared(t) = {e.tx : e \in mTransactions}
  BY <1>4, <1>5 DEF Cleared
<1>7. QED
  BY <1>1, <1>2, <1>6

LEMMA FinishSyncInv ==
  ASSUME BatchInv, NEW t \in Threads, FinishSync(t)
  PROVE  BatchInv'
<1> DEFINE p == IF request[t].tx \in applying' THEN "woken" ELSE "idle"
<1>1. /\ at[t] = "applied" /\ t \in Clients
      /\ applying' = Cleared(t)
      /\ batch' = [batch EXCEPT ![t] = {}]
      /\ at' = Notified([at EXCEPT ![t] = p])
      /\ UNCHANGED <<mTransactions, flags, openTxs, held, localTxs, result,
                     submits, stopping>>
  BY DEF FinishSync, effects
<1>2. /\ \A s \in Threads : s # t =>
           batch[s] = {} /\ at[s] \notin {"taken", "applied"}
      /\ applying' = {e.tx : e \in mTransactions}
  BY <1>1, ClearedFacts
<1>3. /\ request[t] \in Entry /\ t \notin Relays
  BY <1>1, BatchAssumption DEF BatchInv, ThreadInv
<1>4. /\ at' = [s \in Threads |-> IF s = t THEN p
                 ELSE IF at[s] = "waiting" THEN "woken" ELSE at[s]]
  BY <1>1 DEF Notified, BatchInv, TypeOK
<1>5. /\ request' \in [Threads -> Entry \cup {NoRequest}]
      /\ \A s \in Threads : s # t => request'[s] = request[s]
      /\ p = "woken" => request'[t] = request[t]
  BY DEF FinishSync, BatchInv, TypeOK
<1>6. p \in {"idle", "woken"}
  OBVIOUS
<1> HIDE DEF p
<1>7. /\ at' \in [Threads -> {"idle", "async", "sync", "waiting", "woken",
                              "taken", "applied"}]
      /\ \A s \in Threads : at'[s] \in {"async", "sync", "waiting", "woken"}
           => request'[s] \in Entry
  BY <1>3, <1>4, <1>5, <1>6 DEF BatchInv, TypeOK
<1>8. /\ mDispatchState' \in {"none", "scheduled", "running"}
      /\ batchJobs' \in Nat
  BY DEF FinishSync, AddBatchJob, BatchInv, TypeOK
<1>9. TypeOK'
  <2>1. applying' \subseteq Txs
    BY <1>1 DEF Cleared, BatchInv, TypeOK
  <2>2. batch' \in [Threads -> SUBSET Entry]
    BY <1>1 DEF BatchInv, TypeOK
  <2>3. QED
    BY <1>1, <1>5, <1>7, <1>8, <2>1, <2>2 DEF BatchInv, TypeOK
<1>10. \A s \in Threads : batch'[s] = {}
  BY <1>1, <1>2 DEF BatchInv, TypeOK
<1>11. ThreadInv'
  BY <1>1, <1>2, <1>3, <1>4, <1>5, <1>6, <1>10
     DEF BatchInv, ThreadInv, Threads
<1>12. Busy' = {}
  BY <1>2, <1>4, <1>6 DEF Busy
<1>13. QueueInv' /\ mDispatchState' # "running"
  BY DEF FinishSync, QueueInv
<1>14. NotStranded'
  BY DEF FinishSync, AddBatchJob, NotStranded, BatchInv, TypeOK
<1>15. OneBatch' /\ BatchNotEmpty'
  BY <1>12, <1>13 DEF OneBatch, BatchNotEmpty
<1>16. AppliedOnce'
  <2>1. InFlight' = mTransactions
    BY <1>1, <1>10 DEF InFlight
  <2>2. \A e, f \in mTransactions : e.tx = f.tx => e = f
    BY InFlightDef DEF BatchInv, AppliedOnce
  <2>3. QED
    BY <1>1, <1>2, <1>10, <2>1, <2>2 DEF AppliedOnce
<1>17. QED
  BY <1>9, <1>11, <1>13, <1>14, <1>15, <1>16 DEF BatchInv

LEMMA FinishBatchInv ==
  ASSUME BatchInv, NEW w \in Threads, FinishBatch(w)
  PROVE  BatchInv'
<1> DEFINE p == IF mTransactions = {} THEN "idle" ELSE "taken"
<1>1. /\ at[w] = "applied" /\ w \in Workers
      /\ applying' = Cleared(w)
      /\ batch' = [batch EXCEPT ![w] = mTransactions]
      /\ mTransactions' = {}
      /\ at' = Notified([at EXCEPT ![w] = p])
      /\ UNCHANGED <<batchJobs, request, flags, openTxs, held, localTxs, result,
                     submits, stopping>>
  BY DEF FinishBatch, effects
<1>2. /\ \A s \in Threads : s # w =>
           batch[s] = {} /\ at[s] \notin {"taken", "applied"}
      /\ applying' = {e.tx : e \in mTransactions}
  BY <1>1, ClearedFacts
<1>3. w \notin Relays /\ w \notin Clients
  BY <1>1, BatchAssumption
<1>4. at' = [s \in Threads |-> IF s = w THEN p
               ELSE IF at[s] = "waiting" THEN "woken" ELSE at[s]]
  BY <1>1 DEF Notified, BatchInv, TypeOK
<1>5. /\ at' \in [Threads -> {"idle", "async", "sync", "waiting", "woken",
                              "taken", "applied"}]
      /\ \A s \in Threads : at'[s] \in {"async", "sync", "waiting", "woken"}
           => request'[s] \in Entry
  BY <1>1, <1>4 DEF BatchInv, TypeOK
<1>6. /\ mDispatchState' \in {"none", "scheduled", "running"}
      /\ mDispatchState' # "scheduled"
      /\ mDispatchState' = "running" <=> mTransactions # {}
  BY DEF FinishBatch
<1>7. TypeOK'
  <2>1. applying' \subseteq Txs
    BY <1>1 DEF Cleared, BatchInv, TypeOK
  <2>2. /\ batch' \in [Threads -> SUBSET Entry]
        /\ mTransactions' \subseteq Entry
    BY <1>1 DEF BatchInv, TypeOK
  <2>3. QED
    BY <1>1, <1>5, <1>6, <2>1, <2>2 DEF BatchInv, TypeOK
<1>8. \A s \in Threads : batch'[s] = IF s = w THEN mTransactions ELSE {}
  BY <1>1, <1>2 DEF BatchInv, TypeOK
<1>9. ThreadInv'
  BY <1>1, <1>3, <1>4, <1>8 DEF BatchInv, ThreadInv, Threads
<1>10. Busy' = IF mTransactions = {} THEN {} ELSE {w}
  BY <1>2, <1>4 DEF Busy
<1>11. QueueInv' /\ NotStranded'
  BY <1>1, <1>6 DEF QueueInv, NotStranded
<1>12. OneBatch' /\ BatchNotEmpty'
  BY <1>6, <1>8, <1>10 DEF OneBatch, BatchNotEmpty
<1>13. AppliedOnce'
  <2>1. InFlight' = mTransactions
    BY <1>1, <1>8 DEF InFlight
  <2>2. \A e, f \in mTransactions : e.tx = f.tx => e = f
    BY InFlightDef DEF BatchInv, AppliedOnce
  <2>3. QED
    BY <1>1, <1>2, <1>8, <2>1, <2>2 DEF AppliedOnce
<1>14. QED
  BY <1>7, <1>9, <1>11, <1>12, <1>13 DEF BatchInv

LEMMA StopInv ==
  ASSUME BatchInv, Stop
  PROVE  BatchInv'
<1>1. stopping' \in BOOLEAN
  BY Zenon DEF Stop
<1>2. /\ UNCHANGED <<applying, mTransactions, mDispatchState, batchJobs, at,
                     request, batch, flags, openTxs, held, localTxs, result,
                     submits>>
      /\ stopping' = TRUE
  BY DEF Stop, effects
<1>3. TypeOK'
  BY <1>1, <1>2 DEF BatchInv, TypeOK
<1>4. (ThreadInv /\ QueueInv /\ OneBatch /\ AppliedOnce /\ BatchNotEmpty
         /\ NotStranded)'
  BY <1>2 DEF BatchInv, ThreadInv, QueueInv, OneBatch, AppliedOnce,
              BatchNotEmpty, NotStranded, Busy, InFlight
<1>5. QED
  BY <1>3, <1>4 DEF BatchInv

LEMMA SpuriousWakeInv ==
  ASSUME BatchInv, NEW t \in Threads, SpuriousWake(t)
  PROVE  BatchInv'
<1>1. t \in Clients
  BY DEF SpuriousWake, BatchInv, ThreadInv
<1>2. QED
  BY <1>1, MoveInv DEF SpuriousWake

(* Every step keeps the invariant. *)
LEMMA NextInv == BatchInv /\ [Next]_vars => BatchInv'
<1> SUFFICES ASSUME BatchInv, [Next]_vars PROVE BatchInv'
  OBVIOUS
<1>1. CASE \E t \in Threads, x \in Txs, failHard \in BOOLEAN :
             ProcessTransaction(t, x, failHard)
  BY <1>1, ProcessTransactionInv
<1>2. CASE \E t \in Threads : Step(t)
  BY <1>2, DoTransactionAsyncInv, DoTransactionSyncInv, LoopTestInv,
     ApplyBatchInv, FinishSyncInv, FinishBatchInv DEF Step
<1>3. CASE \E t \in Threads : SpuriousWake(t)
  BY <1>3, SpuriousWakeInv
<1>4. CASE \E w \in Workers : TransactionBatch(w)
  BY <1>4, TransactionBatchInv
<1>5. CASE Stop
  BY <1>5, StopInv
<1>6. CASE UNCHANGED vars
  BY <1>6 DEF vars, effects, BatchInv, TypeOK, ThreadInv, QueueInv, OneBatch,
     AppliedOnce, BatchNotEmpty, NotStranded, Busy, InFlight
<1>7. QED
  BY <1>1, <1>2, <1>3, <1>4, <1>5, <1>6 DEF Next

LEMMA BatchInvariant == Spec => []BatchInv
BY InitInv, NextInv, PTL DEF Spec

(* Both assertions of apply() hold: no batch is running when one starts,   *)
(* and a batch is never empty.                                             *)
THEOREM BatchesCorrect == Spec => [](OneBatch /\ BatchNotEmpty)
<1>1. BatchInv => OneBatch /\ BatchNotEmpty
  BY DEF BatchInv
<1>2. QED
  BY <1>1, BatchInvariant, PTL

(* mApplying says exactly which transactions are queued or being applied,  *)
(* and each of them is there once.                                         *)
THEOREM AppliedOnceCorrect == Spec => [](TypeOK /\ AppliedOnce)
<1>1. BatchInv => TypeOK /\ AppliedOnce
  BY DEF BatchInv
<1>2. QED
  BY <1>1, BatchInvariant, PTL

(* Until the server stops, what is queued is in the hands of a running     *)
(* batch or of a queued job.                                               *)
THEOREM QueueServed == Spec => []NotStranded
<1>1. BatchInv => NotStranded
  BY DEF BatchInv
<1>2. QED
  BY <1>1, BatchInvariant, PTL

-----------------------------------------------------------------------------
(* What a client waits for: once it has asked for a batch its transaction  *)
(* is being applied or has a result, and a batch that has been through     *)
(* apply() has given one to each of its entries.                           *)
AnswerInv ==
  /\ \A t \in Clients : at[t] \in {"waiting", "woken", "taken", "applied"} =>
       \/ request[t].tx \in applying
       \/ result[request[t].tx] # "uncertain"
  /\ \A t \in Threads : at[t] = "applied" =>
       \A e \in batch[t] : result[e.tx] # "uncertain"

(* ReturnsApplied for one step. *)
Answered ==
  \A t \in Clients :
    at[t] # "idle" /\ at'[t] = "idle" =>
      /\ result'[request[t].tx] # "uncertain"
      /\ request[t].tx \notin applying'

(* The steps that leave the results alone and clear no mApplying: a client *)
(* that asks for a batch has its transaction marked.                       *)
LEMMA MarkedAnswered ==
  ASSUME BatchInv, AnswerInv, UNCHANGED result, applying \subseteq applying',
         \A t \in Clients :
           \/ at'[t] = at[t] /\ request'[t] = request[t]
           \/ at'[t] \in {"idle", "async", "sync"} /\ at[t] = "idle"
           \/ /\ at[t] \in {"sync", "waiting", "woken"}
              /\ at'[t] \in {"waiting", "woken", "taken"}
              /\ request'[t] = request[t]
              /\ at[t] = "sync" => request[t].tx \in applying',
         \A t \in Threads : at'[t] = "applied" =>
           at[t] = "applied" /\ batch'[t] = batch[t]
  PROVE  AnswerInv' /\ Answered
<1>1. \A t \in Clients : t \in Threads
  BY DEF Threads
<1>2. AnswerInv'
  BY <1>1 DEF AnswerInv
<1>3. Answered
  BY <1>1 DEF Answered
<1>4. QED
  BY <1>2, <1>3

LEMMA ProcessTransactionAnswers ==
  ASSUME BatchInv, AnswerInv, NEW t \in Threads, NEW x \in Txs,
         NEW failHard \in BOOLEAN, ProcessTransaction(t, x, failHard)
  PROVE  AnswerInv' /\ Answered
<1>1. /\ at[t] = "idle" /\ UNCHANGED <<result, applying, batch>>
      /\ \/ UNCHANGED <<at, request>>
         \/ /\ at' = [at EXCEPT ![t] =
                        IF t \in Clients THEN "sync" ELSE "async"]
            /\ \A s \in Threads : s # t => request'[s] = request[s]
  BY DEF ProcessTransaction, BatchInv, TypeOK
<1>2. /\ \A s \in Threads : s # t => at'[s] = at[s] /\ request'[s] = request[s]
      /\ \/ at'[t] = at[t] /\ request'[t] = request[t]
         \/ at'[t] \in {"sync", "async"}
  BY <1>1 DEF BatchInv, TypeOK
<1>3. \A s \in Clients : s \in Threads
  BY DEF Threads
<1>4. QED
  BY <1>1, <1>2, <1>3, MarkedAnswered

LEMMA DoTransactionAsyncAnswers ==
  ASSUME BatchInv, AnswerInv, NEW t \in Threads, DoTransactionAsync(t)
  PROVE  AnswerInv' /\ Answered
<1>1. /\ at[t] = "async" /\ UNCHANGED <<result, batch>>
      /\ applying \subseteq applying'
      /\ at' = [at EXCEPT ![t] = "idle"]
      /\ request' = [request EXCEPT ![t] = NoRequest]
  BY DEF DoTransactionAsync, effects
<1>2. t \notin Clients
  BY <1>1, BatchAssumption DEF BatchInv, ThreadInv
<1>3. /\ \A s \in Threads : s # t => at'[s] = at[s] /\ request'[s] = request[s]
      /\ at'[t] = "idle"
  BY <1>1 DEF BatchInv, TypeOK
<1>4. \A s \in Clients : s \in Threads /\ s # t
  BY <1>2 DEF Threads
<1>5. QED
  BY <1>1, <1>3, <1>4, MarkedAnswered

(* The loop body of doTransactionSync, entered by a client whose           *)
(* transaction is marked.                                                  *)
LEMMA WaitOrTakeAnswers ==
  ASSUME BatchInv, AnswerInv, NEW t \in Clients, NEW queue,
         at[t] \in {"sync", "woken"}, WaitOrTake(t, queue),
         UNCHANGED <<result, request>>, applying \subseteq applying',
         at[t] = "sync" => request[t].tx \in applying'
  PROVE  AnswerInv' /\ Answered
<1>1. \A s \in Clients : s \in Threads
  BY DEF Threads
<1>2. /\ \A s \in Threads : s # t => at'[s] = at[s] /\ batch'[s] = batch[s]
      /\ at'[t] \in {"waiting", "taken"}
  BY <1>1 DEF WaitOrTake, Take, BatchInv, TypeOK
<1>3. QED
  BY <1>1, <1>2, MarkedAnswered

LEMMA DoTransactionSyncAnswers ==
  ASSUME BatchInv, AnswerInv, NEW t \in Threads, DoTransactionSync(t)
  PROVE  AnswerInv' /\ Answered
<1>1. t \in Clients
  BY DEF DoTransactionSync, BatchInv, ThreadInv
<1>2. QED
  BY <1>1, WaitOrTakeAnswers DEF DoTransactionSync, effects

(* A woken client returns only when its mApplying has been cleared, and    *)
(* that is after it got its result.                                        *)
LEMMA LoopTestAnswers ==
  ASSUME BatchInv, AnswerInv, NEW t \in Threads, LoopTest(t)
  PROVE  AnswerInv' /\ Answered
<1>1. t \in Clients /\ at[t] = "woken" /\ UNCHANGED <<result, applying>>
  BY DEF LoopTest, BatchInv, ThreadInv, effects
<1>2. CASE request[t].tx \in applying
  BY <1>1, <1>2, WaitOrTakeAnswers DEF LoopTest
<1>3. CASE request[t].tx \notin applying
  <2>1. /\ at' = [at EXCEPT ![t] = "idle"]
        /\ request' = [request EXCEPT ![t] = NoRequest]
        /\ UNCHANGED batch
    BY <1>3 DEF LoopTest
  <2>2. /\ \A s \in Threads : s # t =>
             at'[s] = at[s] /\ request'[s] = request[s]
        /\ at'[t] = "idle"
    BY <2>1 DEF BatchInv, TypeOK
  <2>3. \A s \in Clients : s \in Threads
    BY DEF Threads
  <2>4. result[request[t].tx] # "uncertain"
    BY <1>1, <1>3 DEF AnswerInv
  <2>5. AnswerInv'
    BY <1>1, <2>1, <2>2, <2>3 DEF AnswerInv
  <2>6. Answered
    BY <1>1, <1>3, <2>2, <2>3, <2>4 DEF Answered
  <2>7. QED
    BY <2>5, <2>6
<1>4. QED
  BY <1>2, <1>3

LEMMA SpuriousWakeAnswers ==
  ASSUME BatchInv, AnswerInv, NEW t \in Threads, SpuriousWake(t)
  PROVE  AnswerInv' /\ Answered
<1>1. /\ at[t] = "waiting" /\ at' = [at EXCEPT ![t] = "woken"]
      /\ UNCHANGED <<result, applying, batch, request>>
  BY DEF SpuriousWake, effects
<1>2. /\ \A s \in Threads : s # t => at'[s] = at[s]
      /\ at'[t] = "woken"
  BY <1>1 DEF BatchInv, TypeOK
<1>3. \A s \in Clients : s \in Threads
  BY DEF Threads
<1>4. QED
  BY <1>1, <1>2, <1>3, MarkedAnswered

LEMMA TransactionBatchAnswers ==
  ASSUME BatchInv, AnswerInv, NEW w \in Workers, TransactionBatch(w)
  PROVE  AnswerInv' /\ Answered
<1>1. /\ UNCHANGED <<result, applying, request>>
      /\ \/ UNCHANGED <<at, batch>>
         \/ /\ at' = [at EXCEPT ![w] = "taken"]
            /\ batch' = [batch EXCEPT ![w] = mTransactions]
  BY DEF TransactionBatch, Take, effects
<1>2. \A s \in Clients : s \in Threads /\ s # w
  BY BatchAssumption DEF Threads
<1>3. /\ \A s \in Threads : s # w => at'[s] = at[s] /\ batch'[s] = batch[s]
      /\ at'[w] = "applied" => at[w] = "applied" /\ batch'[w] = batch[w]
  BY <1>1 DEF BatchInv, TypeOK, Threads
<1>4. QED
  BY <1>1, <1>2, <1>3, MarkedAnswered

(* apply() gives every entry of the batch its result, and takes none away. *)
LEMMA ApplyBatchAnswers ==
  ASSUME BatchInv, AnswerInv, NEW t \in Threads, ApplyBatch(t)
  PROVE  AnswerInv' /\ Answered
<1>1. /\ at[t] = "taken" /\ at' = [at EXCEPT ![t] = "applied"]
      /\ UNCHANGED <<applying, request, batch>>
  BY DEF ApplyBatch
<1>2. /\ \A s \in Threads : s # t => at'[s] = at[s]
      /\ at'[t] = "applied"
  BY <1>1 DEF BatchInv, TypeOK
<1>3. "uncertain" \notin Results
  BY BatchAssumption DEF AllResults
<1>4. PICK res \in [{e.tx : e \in batch[t]} -> Results] :
        result' = [x \in Txs |-> IF x \in {e.tx : e \in batch[t]}
                                   THEN res[x] ELSE result[x]]
  BY DEF ApplyBatch
<1>5. \A e \in batch[t] : e.tx \in Txs /\ result'[e.tx] # "uncertain"
  <2>1. \A e \in batch[t] : e.tx \in Txs
    BY DEF BatchInv, TypeOK, Entry
  <2>2. QED
    BY <1>3, <1>4, <2>1
<1>6. \A x \in Txs : result[x] # "uncertain" => result'[x] # "uncertain"
  BY <1>3, <1>4
<1>7. \A s \in Clients : s \in Threads
                        /\ (at[s] # "idle" => request[s].tx \in Txs)
  BY DEF Threads, BatchInv, ThreadInv, Entry
<1>8. \A s \in Threads : s # t => at[s] # "applied"
  BY <1>1 DEF BatchInv, OneBatch, Busy
<1>9. AnswerInv'
  BY <1>1, <1>2, <1>5, <1>6, <1>7, <1>8 DEF AnswerInv
<1>10. Answered
  BY <1>2, <1>7 DEF Answered
<1>11. QED
  BY <1>9, <1>10

(* The end of apply(): whose mApplying is cleared has a result.            *)
LEMMA ClearedAnswered ==
  ASSUME BatchInv, AnswerInv, NEW t \in Threads, at[t] = "applied"
  PROVE  \A x \in applying : x \in Cleared(t) \/ result[x] # "uncertain"
BY DEF AnswerInv, Cleared

LEMMA FinishSyncAnswers ==
  ASSUME BatchInv, AnswerInv, NEW t \in Threads, FinishSync(t)
  PROVE  AnswerInv' /\ Answered
<1> DEFINE p == IF request[t].tx \in applying' THEN "woken" ELSE "idle"
<1>1. /\ at[t] = "applied" /\ t \in Clients
      /\ applying' = Cleared(t)
      /\ at' = Notified([at EXCEPT ![t] = p])
      /\ UNCHANGED result
      /\ request' = IF request[t].tx \in applying' THEN request
                    ELSE [request EXCEPT ![t] = NoRequest]
  BY DEF FinishSync, effects
<1>2. at' = [s \in Threads |-> IF s = t THEN p
               ELSE IF at[s] = "waiting" THEN "woken" ELSE at[s]]
  BY <1>1 DEF Notified, BatchInv, TypeOK
<1>3. /\ \A s \in Threads : s # t => request'[s] = request[s]
      /\ request[t].tx \in applying' => request'[t] = request[t]
  BY <1>1 DEF BatchInv, TypeOK
<1>4. \A s \in Threads : s # t => at[s] \notin {"taken", "applied"}
  BY <1>1, ClearedFacts
<1>5. \A x \in applying : x \in applying' \/ result'[x] # "uncertain"
  BY <1>1, ClearedAnswered
<1>6. \A s \in Clients : s \in Threads
  BY DEF Threads
<1>7. AnswerInv'
  BY <1>1, <1>2, <1>3, <1>4, <1>5, <1>6 DEF AnswerInv
<1>8. Answered
  BY <1>1, <1>2, <1>5, <1>6 DEF Answered, AnswerInv
<1>9. QED
  BY <1>7, <1>8

LEMMA FinishBatchAnswers ==
  ASSUME BatchInv, AnswerInv, NEW w \in Threads, FinishBatch(w)
  PROVE  AnswerInv' /\ Answered
<1>1. /\ at[w] = "applied" /\ w \in Workers
      /\ applying' = Cleared(w)
      /\ UNCHANGED <<result, request>>
      /\ \E p \in {"idle", "taken"} : at' = Notified([at EXCEPT ![w] = p])
  BY DEF FinishBatch, effects
<1>2. PICK p \in {"idle", "taken"} :
        at' = [s \in Threads |-> IF s = w THEN p
                 ELSE IF at[s] = "waiting" THEN "woken" ELSE at[s]]
  BY <1>1 DEF Notified, BatchInv, TypeOK
<1>3. \A s \in Threads : s # w => at[s] \notin {"taken", "applied"}
  BY <1>1, ClearedFacts
<1>4. \A x \in applying : x \in applying' \/ result'[x] # "uncertain"
  BY <1>1, ClearedAnswered
<1>5. \A s \in Clients : s \in Threads /\ s # w
  BY <1>1, BatchAssumption DEF Threads
<1>6. AnswerInv'
  BY <1>1, <1>2, <1>3, <1>4, <1>5 DEF AnswerInv
<1>7. Answered
  BY <1>2, <1>5 DEF Answered
<1>8. QED
  BY <1>6, <1>7

LEMMA NextAnswers ==
  BatchInv /\ AnswerInv /\ [Next]_vars => AnswerInv' /\ [Answered]_vars
<1> SUFFICES ASSUME BatchInv, AnswerInv, [Next]_vars
             PROVE  AnswerInv' /\ [Answered]_vars
  OBVIOUS
<1>1. CASE \E t \in Threads, x \in Txs, failHard \in BOOLEAN :
             ProcessTransaction(t, x, failHard)
  BY <1>1, ProcessTransactionAnswers
<1>2. CASE \E t \in Threads : Step(t)
  BY <1>2, DoTransactionAsyncAnswers, DoTransactionSyncAnswers,
     LoopTestAnswers, ApplyBatchAnswers, FinishSyncAnswers,
     FinishBatchAnswers DEF Step
<1>3. CASE \E t \in Threads : SpuriousWake(t)
  BY <1>3, SpuriousWakeAnswers
<1>4. CASE \E w \in Workers : TransactionBatch(w)
  BY <1>4, TransactionBatchAnswers
<1>5. CASE Stop
  <2>1. UNCHANGED <<result, applying, at, request, batch>>
    BY <1>5 DEF Stop, effects
  <2>2. QED
    BY <2>1 DEF AnswerInv, Answered
<1>6. CASE UNCHANGED vars
  BY <1>6 DEF vars, effects, AnswerInv
<1>7. QED
  BY <1>1, <1>2, <1>3, <1>4, <1>5, <1>6 DEF Next

(* doTransactionSync returns when its transaction has been applied and not *)
(* before: whatever wakes the thread, whoever ran the batch.               *)
THEOREM ReturnsCorrect == Spec => ReturnsApplied
<1>1. Init => AnswerInv
  BY DEF Init, AnswerInv, Threads
<1>2. BatchInv /\ AnswerInv /\ [Next]_vars => AnswerInv'
  BY NextAnswers
<1>3. BatchInv /\ AnswerInv /\ [Next]_vars => [Answered]_vars
  BY NextAnswers
<1>4. QED
  BY <1>1, <1>2, <1>3, BatchInvariant, PTL DEF Spec, ReturnsApplied, Answered
===============================================================================
