----------------------------- MODULE Validations -----------------------------
(***************************************************************************)
(* The validation store, ValidationsImp (src/ripple/app/misc/              *)
(* Validations.cpp).  Threads deliver signed validations; the newest       *)
(* current validation of every trusted validator is kept in                *)
(* mCurrentValidations; one that is displaced or has expired is queued in  *)
(* mStaleValidations and written to the database by a doWrite job, of      *)
(* which mWriting promises that there is at most one.                      *)
(*                                                                         *)
(* Every section of code that runs under mLock is one action.  A received  *)
(* STValidation object is a record whose id is its arrival number, so that *)
(* two deliveries of one validation are two objects, as in the code.       *)
(* Times are uint32_t in the code: arithmetic on them wraps at TimeMod.    *)
(***************************************************************************)
EXTENDS Naturals, Sequences, FiniteSets, SequencesExt

CONSTANTS
  Nodes,          \* validators, by node id
  UNL,            \* the validators this server trusts
  Ledgers,        \* ledger hashes
  Threads,        \* threads that deliver validations (jtVALIDATION_t jobs)
  Workers,        \* job queue threads that can run doWrite
  SignTimes,      \* the sign times a received validation may carry
  NoVal,          \* the null STValidation pointer
  NoHash,         \* the zero hash
  TimeMod,        \* 2^32 in the code
  EarlyInterval,  \* LEDGER_EARLY_INTERVAL
  ValInterval,    \* LEDGER_VAL_INTERVAL
  CloseOffsets,   \* close time minus network time, modulo TimeMod
  StartTime,      \* network time at start
  MaxTime,        \* bound: the last network time
  MaxArrivals     \* bound: number of validations delivered

ASSUME TimesAssumption ==
  /\ TimeMod \in Nat \ {0}
  /\ EarlyInterval \in Nat /\ ValInterval \in Nat
  /\ StartTime \in Nat /\ MaxTime \in Nat /\ StartTime =< MaxTime
  /\ MaxTime < TimeMod
  /\ SignTimes \subseteq 0 .. (TimeMod - 1)
  /\ CloseOffsets \subseteq 0 .. (TimeMod - 1)
  /\ MaxArrivals \in Nat
ASSUME NodesAssumption == IsFiniteSet(Nodes) /\ UNL \subseteq Nodes

VARIABLES
  now,                  \* network time, getNetworkTimeNC
  arrivals,             \* number of STValidation objects received so far
  adding,               \* per thread: the addValidation call in progress
  mValidations,         \* ledger hash -> the validations held for it
  mCurrentValidations,  \* node -> its current validation and previous hash
  mStaleValidations,    \* vector of validations waiting to be written
  mWriting,             \* a doWrite job is queued or running
  queuedWrites,         \* doWrite jobs in the job queue
  writer,               \* per worker: the doWrite call in progress
  db,                   \* rows of the Validations table, in insertion order
  flusher,              \* the thread that runs Application::onStop
  accepted,             \* history: objects that became current
  toFlush               \* history: rows due when flush() returns

vars == <<now, arrivals, adding, mValidations, mCurrentValidations,
          mStaleValidations, mWriting, queuedWrites, writer, db, flusher,
          accepted, toFlush>>

Validation == [id: 1 .. MaxArrivals, node: Nodes, hash: Ledgers,
               signTime: SignTimes]
Current == [val: Validation, prev: Ledgers \cup {NoHash}]

ASSUME NullAssumption == NoVal \notin Current

Idle == [at |-> "idle"]
AddCall == {Idle} \cup
           [at: {"locking"}, val: Validation]
WriteCall == {Idle} \cup [at: {"writing", "written"}, batch: Seq(Validation)]

TypeOK ==
  /\ now \in StartTime .. MaxTime
  /\ arrivals \in 0 .. MaxArrivals
  /\ adding \in [Threads -> AddCall]
  /\ mValidations \in [Ledgers -> SUBSET Validation]
  /\ mCurrentValidations \in [Nodes -> Current \cup {NoVal}]
  /\ mStaleValidations \in Seq(Validation)
  /\ mWriting \in BOOLEAN
  /\ queuedWrites \in Nat
  /\ writer \in [Workers -> WriteCall]
  /\ db \in Seq(Validation)
  /\ flusher \in {"running", "flushing", "flushed"}
  /\ accepted \subseteq Validation
  /\ toFlush \in Nat

Init ==
  /\ now = StartTime
  /\ arrivals = 0
  /\ adding = [t \in Threads |-> Idle]
  /\ mValidations = [h \in Ledgers |-> {}]
  /\ mCurrentValidations = [n \in Nodes |-> NoVal]
  /\ mStaleValidations = <<>>
  /\ mWriting = FALSE
  /\ queuedWrites = 0
  /\ writer = [w \in Workers |-> Idle]
  /\ db = <<>>
  /\ flusher = "running"
  /\ accepted = {}
  /\ toFlush = 0

-----------------------------------------------------------------------------
(* uint32_t arithmetic on times. *)
Plus(a, b) == (a + b) % TimeMod
Minus(a, b) == (a + TimeMod - b) % TimeMod

(* The window addValidation tests a sign time against. *)
IsCurrent(closeTime, signTime) ==
  /\ closeTime > Minus(signTime, EarlyInterval)
  /\ closeTime < Plus(signTime, ValInterval)

(* Mutant: the test of mWriting is forgotten. *)
CondWriteUntested ==
  /\ mWriting' = TRUE
  /\ queuedWrites' = queuedWrites + 1

(* condWrite: queue a doWrite job unless one is already promised. *)
CondWrite ==
  /\ mWriting' = TRUE
  /\ queuedWrites' = IF mWriting THEN queuedWrites ELSE queuedWrites + 1

-----------------------------------------------------------------------------
(* addValidation up to the lock: trust and freshness are decided here. *)
Receive(t, n, h, st, offset) ==
  /\ adding[t].at = "idle"
  /\ arrivals < MaxArrivals
  /\ arrivals' = arrivals + 1
  /\ adding' = [adding EXCEPT ![t] =
                  IF n \in UNL /\ IsCurrent(Plus(now, offset), st)
                    THEN [at |-> "locking",
                          val |-> [id |-> arrivals + 1, node |-> n,
                                   hash |-> h, signTime |-> st]]
                    ELSE Idle]
  /\ UNCHANGED <<now, mValidations, mCurrentValidations, mStaleValidations,
                 mWriting, queuedWrites, writer, db, flusher, accepted, toFlush>>

(* Mutant: the previous hash is set after the entry was replaced. *)
SupersedeSelf(val, old) == [val |-> val, prev |-> val.hash]

(* The section of addValidation under mLock. *)
IsNewer(val, old) == val.signTime > old.val.signTime
Supersede(val, old) == [val |-> val, prev |-> old.val.hash]
HasFrom(h, n) == \E v \in mValidations[h] : v.node = n

AddDuplicate(t, val) ==
  /\ HasFrom(val.hash, val.node)
  /\ UNCHANGED <<mValidations, mCurrentValidations, mStaleValidations,
                 mWriting, queuedWrites, accepted>>

AddFirst(t, val) ==
  /\ ~HasFrom(val.hash, val.node)
  /\ mCurrentValidations[val.node] = NoVal
  /\ mValidations' = [mValidations EXCEPT ![val.hash] = @ \cup {val}]
  /\ mCurrentValidations' =
       [mCurrentValidations EXCEPT ![val.node] = [val |-> val, prev |-> NoHash]]
  /\ accepted' = accepted \cup {val}
  /\ UNCHANGED <<mStaleValidations, mWriting, queuedWrites>>

AddNewer(t, val) ==
  LET old == mCurrentValidations[val.node] IN
  /\ ~HasFrom(val.hash, val.node)
  /\ old # NoVal
  /\ IsNewer(val, old)
  /\ mValidations' = [mValidations EXCEPT ![val.hash] = @ \cup {val}]
  /\ mStaleValidations' = Append(mStaleValidations, old.val)
  /\ mCurrentValidations' =
       [mCurrentValidations EXCEPT ![val.node] = Supersede(val, old)]
  /\ CondWrite
  /\ accepted' = accepted \cup {val}

AddOlder(t, val) ==
  LET old == mCurrentValidations[val.node] IN
  /\ ~HasFrom(val.hash, val.node)
  /\ old # NoVal
  /\ ~IsNewer(val, old)
  /\ mValidations' = [mValidations EXCEPT ![val.hash] = @ \cup {val}]
  /\ UNCHANGED <<mCurrentValidations, mStaleValidations, mWriting,
                 queuedWrites, accepted>>

AddValidation(t) ==
  /\ adding[t].at = "locking"
  /\ LET val == adding[t].val IN
       \/ AddDuplicate(t, val)
       \/ AddFirst(t, val)
       \/ AddNewer(t, val)
       \/ AddOlder(t, val)
  /\ adding' = [adding EXCEPT ![t] = Idle]
  /\ UNCHANGED <<now, arrivals, writer, db, flusher, toFlush>>

-----------------------------------------------------------------------------
(* getCurrentTrustedValidations and getCurrentValidations: both erase the  *)
(* current validations whose sign time is before the cutoff and queue them *)
(* for writing.                                                            *)
Expired(n) ==
  /\ mCurrentValidations[n] # NoVal
  /\ mCurrentValidations[n].val.signTime < Minus(now, ValInterval)

ValuesOf(S) == {mCurrentValidations[n].val : n \in S}

GetCurrentValidations ==
  LET gone == {n \in Nodes : Expired(n)} IN
  /\ gone # {}
  /\ \E order \in SetToSeqs(ValuesOf(gone)) :
       mStaleValidations' = mStaleValidations \o order
  /\ mCurrentValidations' =
       [n \in Nodes |-> IF n \in gone THEN NoVal ELSE mCurrentValidations[n]]
  /\ CondWrite
  /\ UNCHANGED <<now, arrivals, adding, mValidations, writer, db, flusher,
                 accepted, toFlush>>

(* sweep: the tagged cache drops sets that were not used recently. *)
Sweep ==
  /\ \E H \in SUBSET {h \in Ledgers : mValidations[h] # {}} :
       /\ H # {}
       /\ mValidations' = [h \in Ledgers |-> IF h \in H THEN {}
                                             ELSE mValidations[h]]
  /\ UNCHANGED <<now, arrivals, adding, mCurrentValidations, mStaleValidations,
                 mWriting, queuedWrites, writer, db, flusher, accepted, toFlush>>

-----------------------------------------------------------------------------
(* Mutant of doWrite: mWriting is left set. *)
TakeBatchStuck(w) ==
  /\ writer' = [writer EXCEPT ![w] =
                  IF mStaleValidations = <<>> THEN Idle
                  ELSE [at |-> "writing", batch |-> mStaleValidations]]
  /\ mStaleValidations' = <<>>
  /\ UNCHANGED mWriting

(* doWrite.  One turn of its loop under mLock: take the whole vector and   *)
(* release the lock, or find it empty, clear mWriting and return.          *)
TakeBatch(w) ==
  \/ /\ mStaleValidations # <<>>
     /\ writer' = [writer EXCEPT ![w] =
                     [at |-> "writing", batch |-> mStaleValidations]]
     /\ mStaleValidations' = <<>>
     /\ UNCHANGED mWriting
  \/ /\ mStaleValidations = <<>>
     /\ writer' = [writer EXCEPT ![w] = Idle]
     /\ mWriting' = FALSE
     /\ UNCHANGED mStaleValidations

DoWriteStart(w) ==
  /\ writer[w].at = "idle"
  /\ queuedWrites > 0
  /\ queuedWrites' = queuedWrites - 1
  /\ TakeBatch(w)
  /\ UNCHANGED <<now, arrivals, adding, mValidations, mCurrentValidations, db,
                 flusher, accepted, toFlush>>

(* The transaction that inserts the batch, run without mLock. *)
DoWriteCommit(w) ==
  /\ writer[w].at = "writing"
  /\ db' = db \o writer[w].batch
  /\ writer' = [writer EXCEPT ![w].at = "written"]
  /\ UNCHANGED <<now, arrivals, adding, mValidations, mCurrentValidations,
                 mStaleValidations, mWriting, queuedWrites, flusher, accepted,
                 toFlush>>

DoWriteLoop(w) ==
  /\ writer[w].at = "written"
  /\ TakeBatch(w)
  /\ UNCHANGED <<now, arrivals, adding, mValidations, mCurrentValidations,
                 queuedWrites, db, flusher, accepted, toFlush>>

-----------------------------------------------------------------------------
Held == {n \in Nodes : mCurrentValidations[n] # NoVal}

(* The batch doWrite is inserting. *)
Batch ==
  IF \E w \in Workers : writer[w].at = "writing"
    THEN writer[CHOOSE w \in Workers : writer[w].at = "writing"].batch
    ELSE <<>>

(* Mutant: flush does not wait. *)
FlushNoWait ==
  /\ flusher = "flushing"
  /\ flusher' = "flushed"
  /\ UNCHANGED <<now, arrivals, adding, mValidations, mCurrentValidations,
                 mStaleValidations, mWriting, queuedWrites, writer, db,
                 accepted, toFlush>>

(* flush, called once by Application::onStop: everything current becomes   *)
(* stale, then the thread polls mWriting, releasing mLock between polls.   *)
FlushStart ==
  /\ flusher = "running"
  /\ flusher' = "flushing"
  /\ \E order \in SetToSeqs(ValuesOf(Held)) :
       mStaleValidations' = mStaleValidations \o order
  /\ mCurrentValidations' = [n \in Nodes |-> NoVal]
  /\ IF Held # {} THEN CondWrite ELSE UNCHANGED <<mWriting, queuedWrites>>
  /\ toFlush' = Len(db) + Len(Batch) + Len(mStaleValidations')
  /\ UNCHANGED <<now, arrivals, adding, mValidations, writer, db, accepted>>

FlushDone ==
  /\ flusher = "flushing"
  /\ ~mWriting
  /\ flusher' = "flushed"
  /\ UNCHANGED <<now, arrivals, adding, mValidations, mCurrentValidations,
                 mStaleValidations, mWriting, queuedWrites, writer, db,
                 accepted, toFlush>>

Tick ==
  /\ now < MaxTime
  /\ now' = now + 1
  /\ UNCHANGED <<arrivals, adding, mValidations, mCurrentValidations,
                 mStaleValidations, mWriting, queuedWrites, writer, db,
                 flusher, accepted, toFlush>>

Next ==
  \/ \E t \in Threads, n \in Nodes, h \in Ledgers, st \in SignTimes,
         offset \in CloseOffsets : Receive(t, n, h, st, offset)
  \/ \E t \in Threads : AddValidation(t)
  \/ GetCurrentValidations
  \/ Sweep
  \/ \E w \in Workers : DoWriteStart(w) \/ DoWriteCommit(w) \/ DoWriteLoop(w)
  \/ FlushStart
  \/ FlushDone
  \/ Tick

(* The job queue runs every queued job, the worker that runs doWrite makes *)
(* progress, and the flushing thread keeps polling.                        *)
Fairness ==
  /\ WF_vars(\E w \in Workers : DoWriteStart(w))
  /\ \A w \in Workers : WF_vars(DoWriteCommit(w)) /\ WF_vars(DoWriteLoop(w))
  /\ WF_vars(FlushDone)

Spec == Init /\ [][Next]_vars /\ Fairness

-----------------------------------------------------------------------------
(* One writer: mWriting is true exactly while a doWrite job is queued or   *)
(* running, and there is never a second one, although the flag is tested   *)
(* and set by threads that hold mLock while doWrite itself runs without it.*)
Running(w) == writer[w].at # "idle"
OneWriter ==
  /\ queuedWrites \in {0, 1}
  /\ \A w, x \in Workers : Running(w) /\ Running(x) => w = x
  /\ \A w \in Workers : ~(Running(w) /\ queuedWrites = 1)
  /\ mWriting <=> (queuedWrites = 1 \/ \E w \in Workers : Running(w))

(* No validation waits in mStaleValidations without a job to write it: the *)
(* loop of doWrite cannot clear mWriting past a late push_back.            *)
NoStranded == mStaleValidations # <<>> => mWriting

(* The waiter of the abstract queue is the flushing thread. *)
Waiter == CASE flusher = "running" -> "away"
            [] flusher = "flushing" -> "waiting"
            [] flusher = "flushed" -> "returned"
WB == INSTANCE WriteBehind WITH
        Items <- Validation, MaxItems <- MaxArrivals,
        pending <- Batch \o mStaleValidations, written <- db,
        waiter <- Waiter, mark <- toFlush

(* The store keeps the promises of a write-behind queue: validations that  *)
(* were displaced or expired reach the database in that order, each once,  *)
(* and flush() returns only when everything it found unwritten has its row.*)
ImplementsQueue == WB!SafeSpec

(* Every stale validation gets its row, and flush() returns: the doWrite   *)
(* job it waits for empties the vector and clears mWriting even while      *)
(* other threads keep adding validations.                                  *)
Drains == WB!Live

(* The previous hash of a current validation, which getNodesAfter counts   *)
(* as "this node has moved past that ledger", is the hash of an older      *)
(* validation of the same node that was accepted before it.                *)
PreviousIsOlder ==
  \A n \in Nodes :
    LET c == mCurrentValidations[n] IN
    c # NoVal /\ c.prev # NoHash =>
      \E v \in accepted : /\ v.node = n /\ v.hash = c.prev
                          /\ v.signTime < c.val.signTime
=============================================================================
