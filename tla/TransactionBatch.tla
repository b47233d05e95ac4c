--------------------------- MODULE TransactionBatch ---------------------------
(***************************************************************************)
(* How transactions reach the open ledger: NetworkOPs::processTransaction  *)
(* and the batches it feeds (app/misc/NetworkOPs.cpp).  Clients submit and *)
(* wait for the result (doTransactionSync), relayed transactions are left  *)
(* to a job (doTransactionAsync, transactionBatch).  Whoever finds no      *)
(* batch running takes all queued transactions and applies them.           *)
(*                                                                         *)
(* Every section under mMutex is one action, and so is the part of apply() *)
(* under the master lock.  The transaction cache returns one object for    *)
(* one transaction, so mApplying is a set of transactions.                 *)
(***************************************************************************)
EXTENDS Naturals, FiniteSets

CONSTANTS
  Txs,        \* transactions
  BadSig,     \* those whose signature does not verify
  Clients,    \* threads that submit for a local client
  Relays,     \* threads that submit what peers send
  Workers,    \* job queue threads for jtBATCH
  Results,    \* bound: the answers of ripple::apply that occur
  MaxSubmits  \* bound: number of submissions

(* What ripple::apply answers: success; a claimed fee (applied as well);   *)
(* an old sequence number; a transaction to retry; a malformed one.        *)
AllResults == {"tes", "tec", "past", "ter", "tem"}
Applied == {"tes", "tec"}

ASSUME BatchAssumption ==
  /\ BadSig \subseteq Txs /\ MaxSubmits \in Nat
  /\ IsFiniteSet(Txs) /\ Results \subseteq AllResults
  /\ Clients \cap Relays = {} /\ Clients \cap Workers = {}
  /\ Relays \cap Workers = {}

VARIABLES
  flags,          \* HashRouter: per transaction
  applying,       \* Transaction::mApplying
  mTransactions,  \* entries to be applied
  mDispatchState,
  batchJobs,      \* jtBATCH jobs in the job queue
  at,             \* per thread: where it is,
  request,        \*   its submission,
  batch,          \*   the entries it has taken
  openTxs,        \* the transactions of the open ledger
  held,           \* LedgerMaster::mHeldTransactions
  localTxs,       \* LocalTxs
  result,         \* per transaction: Transaction::mResult
  submits,        \* number of submissions
  stopping        \* the job queue is stopping; jtBATCH is skipOnStop

effects == <<flags, openTxs, held, localTxs, result>>
vars == <<applying, mTransactions, mDispatchState, batchJobs, at, request,
          batch, effects, submits, stopping>>

Threads == Clients \cup Relays \cup Workers

(* TransactionStatus; id tells submissions apart. *)
Entry == [tx: Txs, local: BOOLEAN, failHard: BOOLEAN, id: 1 .. MaxSubmits]
NoRequest == [id |-> 0]

TypeOK ==
  /\ flags \in [Txs -> SUBSET {"bad", "siggood", "relayed"}]
  /\ applying \subseteq Txs
  /\ mTransactions \subseteq Entry
  /\ mDispatchState \in {"none", "scheduled", "running"}
  /\ batchJobs \in Nat
  /\ at \in [Threads -> {"idle", "async", "sync", "waiting", "woken",
                         "taken", "applied"}]
  /\ \A t \in Threads : at[t] \in {"async", "sync", "waiting", "woken"} =>
       request[t] \in Entry
  /\ request \in [Threads -> Entry \cup {NoRequest}]
  /\ batch \in [Threads -> SUBSET Entry]
  /\ openTxs \subseteq Txs /\ held \subseteq Txs /\ localTxs \subseteq Txs
  /\ result \in [Txs -> Results \cup {"uncertain"}]
  /\ submits \in 0 .. MaxSubmits
  /\ stopping \in BOOLEAN

Init ==
  /\ flags = [x \in Txs |-> {}]
  /\ applying = {}
  /\ mTransactions = {}
  /\ mDispatchState = "none"
  /\ batchJobs = 0
  /\ at = [t \in Threads |-> "idle"]
  /\ request = [t \in Threads |-> NoRequest]
  /\ batch = [t \in Threads |-> {}]
  /\ openTxs = {} /\ held = {} /\ localTxs = {}
  /\ result = [x \in Txs |-> "uncertain"]
  /\ submits = 0
  /\ stopping = FALSE

-----------------------------------------------------------------------------
(* processTransaction up to the batch: known to be bad, found to be bad,   *)
(* or good.  Only clients ask to fail hard.                                *)
IsBad(x) == "bad" \in flags[x] \/ ("siggood" \notin flags[x] /\ x \in BadSig)

ProcessTransaction(t, x, failHard) ==
  /\ at[t] = "idle"
  /\ t \in Clients \/ (t \in Relays /\ ~failHard)
  /\ submits < MaxSubmits
  /\ submits' = submits + 1
  /\ IF IsBad(x)
       THEN /\ flags' = [flags EXCEPT ![x] = @ \cup {"bad"}]
            /\ UNCHANGED <<at, request>>
       ELSE /\ flags' = [flags EXCEPT ![x] = @ \cup {"siggood"}]
            /\ at' = [at EXCEPT ![t] =
                        IF t \in Clients THEN "sync" ELSE "async"]
            /\ request' = [request EXCEPT ![t] =
                 [tx |-> x, local |-> t \in Clients, failHard |-> failHard,
                  id |-> submits + 1]]
  /\ UNCHANGED <<applying, mTransactions, mDispatchState, batchJobs, batch,
                 openTxs, held, localTxs, result, stopping>>

(* addJob refuses a jtBATCH job when stopping. *)
AddBatchJob == batchJobs' = IF stopping THEN batchJobs ELSE batchJobs + 1

(* Mutant: a transaction that is already in a batch is queued again. *)
DoTransactionAsyncAgain(t) ==
  /\ at[t] = "async"
  /\ mTransactions' = mTransactions \cup {request[t]}
  /\ applying' = applying \cup {request[t].tx}
  /\ IF mDispatchState = "none"
       THEN mDispatchState' = "scheduled" /\ AddBatchJob
       ELSE UNCHANGED <<mDispatchState, batchJobs>>
  /\ at' = [at EXCEPT ![t] = "idle"]
  /\ request' = [request EXCEPT ![t] = NoRequest]
  /\ UNCHANGED <<batch, effects, submits, stopping>>

DoTransactionAsync(t) ==
  /\ at[t] = "async"
  /\ IF request[t].tx \in applying
       THEN UNCHANGED <<applying, mTransactions, mDispatchState, batchJobs>>
       ELSE /\ mTransactions' = mTransactions \cup {request[t]}
            /\ applying' = applying \cup {request[t].tx}
            /\ IF mDispatchState = "none"
                 THEN mDispatchState' = "scheduled" /\ AddBatchJob
                 ELSE UNCHANGED <<mDispatchState, batchJobs>>
  /\ at' = [at EXCEPT ![t] = "idle"]
  /\ request' = [request EXCEPT ![t] = NoRequest]
  /\ UNCHANGED <<batch, effects, submits, stopping>>

(* The start of apply(): take everything that is queued. *)
Take(t, queue) ==
  /\ batch' = [batch EXCEPT ![t] = queue]
  /\ mTransactions' = {}
  /\ mDispatchState' = "running"
  /\ at' = [at EXCEPT ![t] = "taken"]

(* Mutant: a client takes the queue although a batch is running. *)
WaitOrTakeNow(t, queue) == Take(t, queue)

(* The body of the loop of doTransactionSync. *)
WaitOrTake(t, queue) ==
  IF mDispatchState = "running"
    THEN /\ at' = [at EXCEPT ![t] = "waiting"]
         /\ mTransactions' = queue
         /\ UNCHANGED <<batch, mDispatchState>>
    ELSE Take(t, queue)

DoTransactionSync(t) ==
  LET x == request[t].tx IN
  /\ at[t] = "sync"
  /\ applying' = applying \cup {x}
  /\ WaitOrTake(t, IF x \in applying THEN mTransactions
                                     ELSE mTransactions \cup {request[t]})
  /\ UNCHANGED <<batchJobs, request, effects, submits, stopping>>

(* Mutant: a thread that is woken does not look whether its transaction is *)
(* done.                                                                   *)
LoopOnce(t) ==
  /\ at[t] = "woken"
  /\ at' = [at EXCEPT ![t] = "idle"]
  /\ request' = [request EXCEPT ![t] = NoRequest]
  /\ UNCHANGED <<applying, mTransactions, mDispatchState, batchJobs, batch,
                 effects, submits, stopping>>

(* A woken thread tests the loop condition. *)
LoopTest(t) ==
  /\ at[t] = "woken"
  /\ IF request[t].tx \in applying
       THEN WaitOrTake(t, mTransactions) /\ UNCHANGED request
       ELSE /\ at' = [at EXCEPT ![t] = "idle"]
            /\ request' = [request EXCEPT ![t] = NoRequest]
            /\ UNCHANGED <<mTransactions, mDispatchState, batch>>
  /\ UNCHANGED <<applying, batchJobs, effects, submits, stopping>>

(* A condition variable may wake a thread for no reason. *)
SpuriousWake(t) ==
  /\ at[t] = "waiting"
  /\ at' = [at EXCEPT ![t] = "woken"]
  /\ UNCHANGED <<applying, mTransactions, mDispatchState, batchJobs, request,
                 batch, effects, submits, stopping>>

(* The jtBATCH job; it is skipped when stopping. *)
TransactionBatch(w) ==
  /\ at[w] = "idle" /\ batchJobs > 0
  /\ batchJobs' = batchJobs - 1
  /\ IF stopping \/ mDispatchState = "running" \/ mTransactions = {}
       THEN UNCHANGED <<mTransactions, mDispatchState, at, batch>>
       ELSE Take(w, mTransactions)
  /\ UNCHANGED <<applying, request, effects, submits, stopping>>

-----------------------------------------------------------------------------
(* apply(), under the master lock: the results res of the entries and what *)
(* follows from them.  full: we are in omFULL.                             *)
Holds(e, r) == r = "ter" /\ ~e.failHard
AddsLocal(e, r) == e.local /\ ~(r = "ter" /\ e.failHard)
Relayed(e, r, full) == r \in Applied \/ (~full /\ ~e.failHard /\ e.local)

ApplyBatch(t) ==
  LET b == batch[t]
      txs(S) == {e.tx : e \in S} IN
  /\ at[t] = "taken"
  /\ \E res \in [txs(b) -> Results], full \in BOOLEAN :
       /\ \A x \in txs(b) \cap openTxs : res[x] \notin Applied
       /\ openTxs' = openTxs \cup {x \in txs(b) : res[x] \in Applied}
       /\ result' = [x \in Txs |-> IF x \in txs(b) THEN res[x] ELSE result[x]]
       /\ held' = held \cup txs({e \in b : Holds(e, res[e.tx])})
       /\ localTxs' = localTxs \cup txs({e \in b : AddsLocal(e, res[e.tx])})
       /\ flags' = [x \in Txs |-> flags[x]
            \cup (IF x \in txs(b) /\ res[x] = "tem" THEN {"bad"} ELSE {})
            \cup (IF x \in txs({e \in b : Relayed(e, res[e.tx], full)})
                    THEN {"relayed"} ELSE {})]
  /\ at' = [at EXCEPT ![t] = "applied"]
  /\ UNCHANGED <<applying, mTransactions, mDispatchState, batchJobs, request,
                 batch, submits, stopping>>

(* Mutant: nobody is notified. *)
NotifiedNone(where) == where

(* notify_all. *)
Notified(where) ==
  [t \in Threads |-> IF where[t] = "waiting" THEN "woken" ELSE where[t]]

Cleared(t) == applying \ {e.tx : e \in batch[t]}

(* Mutant: a client leaves what was queued in the meantime. *)
FinishSyncLeaves(t) ==
  /\ at[t] = "applied" /\ t \in Clients
  /\ applying' = Cleared(t)
  /\ batch' = [batch EXCEPT ![t] = {}]
  /\ mDispatchState' = "none"
  /\ at' = Notified([at EXCEPT ![t] =
             IF request[t].tx \in applying' THEN "woken" ELSE "idle"])
  /\ request' = IF request[t].tx \in applying' THEN request
                ELSE [request EXCEPT ![t] = NoRequest]
  /\ UNCHANGED <<batchJobs, mTransactions, effects, submits, stopping>>

(* The end of apply() called from doTransactionSync: what was queued in    *)
(* the meantime is left to a job; then the loop condition.                 *)
FinishSync(t) ==
  /\ at[t] = "applied" /\ t \in Clients
  /\ applying' = Cleared(t)
  /\ batch' = [batch EXCEPT ![t] = {}]
  /\ IF mTransactions = {}
       THEN mDispatchState' = "none" /\ UNCHANGED batchJobs
       ELSE mDispatchState' = "scheduled" /\ AddBatchJob
  /\ at' = Notified([at EXCEPT ![t] =
             IF request[t].tx \in applying' THEN "woken" ELSE "idle"])
  /\ request' = IF request[t].tx \in applying' THEN request
                ELSE [request EXCEPT ![t] = NoRequest]
  /\ UNCHANGED <<mTransactions, effects, submits, stopping>>

(* The end of apply() called from transactionBatch, and its loop. *)
FinishBatch(w) ==
  /\ at[w] = "applied" /\ w \in Workers
  /\ applying' = Cleared(w)
  /\ batch' = [batch EXCEPT ![w] = mTransactions]
  /\ mTransactions' = {}
  /\ IF mTransactions = {}
       THEN /\ mDispatchState' = "none"
            /\ at' = Notified([at EXCEPT ![w] = "idle"])
       ELSE /\ mDispatchState' = "running"
            /\ at' = Notified([at EXCEPT ![w] = "taken"])
  /\ UNCHANGED <<batchJobs, request, effects, submits, stopping>>

Stop ==
  /\ ~stopping
  /\ stopping' = TRUE
  /\ UNCHANGED <<applying, mTransactions, mDispatchState, batchJobs, at,
                 request, batch, effects, submits>>

-----------------------------------------------------------------------------
Step(t) ==
  \/ DoTransactionAsync(t)
  \/ DoTransactionSync(t)
  \/ LoopTest(t)
  \/ ApplyBatch(t)
  \/ FinishSync(t)
  \/ FinishBatch(t)

Next ==
  \/ \E t \in Threads, x \in Txs, failHard \in BOOLEAN :
       ProcessTransaction(t, x, failHard)
  \/ \E t \in Threads : Step(t) \/ SpuriousWake(t)
  \/ \E w \in Workers : TransactionBatch(w)
  \/ Stop

(* Threads are scheduled and the job queue runs its jobs. *)
Fairness ==
  /\ \A t \in Threads : WF_vars(Step(t))
  /\ WF_vars(\E w \in Workers : TransactionBatch(w))

Spec == Init /\ [][Next]_vars /\ Fairness

-----------------------------------------------------------------------------
Busy == {t \in Threads : at[t] \in {"taken", "applied"}}

(* One batch is applied at a time, and mDispatchState says so: apply()     *)
(* asserts that no other batch is running when it starts.                  *)
OneBatch ==
  /\ \A s, t \in Busy : s = t
  /\ mDispatchState = "running" <=> Busy # {}

(* mApplying is true of a transaction as long as it is in the queue or in  *)
(* a batch, and it is there once: two submissions of one transaction at    *)
(* the same time are applied once.                                         *)
InFlight == mTransactions \cup UNION {batch[t] : t \in Threads}
AppliedOnce ==
  /\ applying = {e.tx : e \in InFlight}
  /\ \A e, f \in InFlight : e.tx = f.tx => e = f
  /\ \A s, t \in Threads : s # t => batch[s] \cap batch[t] = {}
  /\ \A t \in Threads : batch[t] \cap mTransactions = {}

(* apply() always finds something to apply, which it asserts. *)
BatchNotEmpty == \A t \in Busy : batch[t] # {}

(* Unless the server is stopping, a queued transaction has someone to      *)
(* apply it: the thread that runs the batch now or a job.                  *)
NotStranded ==
  mTransactions # {} /\ ~stopping =>
    \/ mDispatchState = "running"
    \/ mDispatchState = "scheduled" /\ batchJobs > 0

(* doTransactionSync returns when the transaction has been applied, and    *)
(* not before, however the condition variable wakes the thread.            *)
ReturnsApplied ==
  [][\A t \in Clients :
       at[t] # "idle" /\ at'[t] = "idle" =>
         /\ result'[request[t].tx] # "uncertain"
         /\ request[t].tx \notin applying']_vars

(* "Track transactions issued by local clients": a transaction that a      *)
(* client has submitted, not to fail hard, is among the local transactions *)
(* when the call returns.  The code does not keep this: see the README.    *)
LocalTracked ==
  [][\A t \in Clients :
       at[t] # "idle" /\ at'[t] = "idle" /\ ~request[t].failHard =>
         request[t].tx \in localTxs']_vars

(* Every client gets its answer, also when the server is stopping and the  *)
(* batch jobs are skipped.                                                 *)
ClientsAnswered == \A t \in Clients : at[t] # "idle" ~> at[t] = "idle"
===============================================================================
