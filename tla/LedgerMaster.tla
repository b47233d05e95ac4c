---------------------------- MODULE LedgerMaster -----------------------------
(***************************************************************************)
(* How LedgerMaster (src/ripple/app/ledger/impl/LedgerMaster.cpp) follows  *)
(* the validated chain: trusted validations make a ledger the last valid   *)
(* one, the advance job publishes the ledgers up to it in order and then   *)
(* acquires missing history, tryFill marks ledgers found in the database,  *)
(* and ledgers that are not held are fetched by InboundLedgers, whose      *)
(* result comes back in a job of its own (LADispatch).                     *)
(*                                                                         *)
(* The ledgers are those of one chain, named by their sequence numbers;    *)
(* two valid ledgers with one number (fixMismatch) are outside the model.  *)
(* The advance job holds m_mutex at pc "top" and nowhere else between its  *)
(* actions: every action that needs the lock is guarded by MutexFree.      *)
(***************************************************************************)
EXTENDS Naturals, Sequences, FiniteSets, RangeSet

CONSTANTS
  First,                 \* first ledger the network validates while we run
  MaxSeq,                \* bound: last ledger
  InDatabase,            \* ledgers an earlier run left in the database
  Validators,            \* number of trusted validators, per ledger
  Built,                 \* bound: ledgers consensus builds
  mMinValidations,       \* the quorum
  MIN_VALIDATION_RATIO,  \* in 256ths (150)
  MAX_LEDGER_GAP,        \* 100
  AcquireLimit,          \* fetches per scan stay below this (4)
  ledger_history,        \* how much history to acquire
  ledger_fetch_size,     \* ledgers prefetched at once
  canDelete,             \* SHAMapStore::getCanDelete
  FillWindow,            \* hashes read from the database at once (500)
  Faulty,                \* bound: ledgers that meet exceptions or failures
  MaxFaults              \* bound: number of exceptions and failures

Seqs == 1 .. MaxSeq

ASSUME ChainAssumption ==
  /\ MaxSeq \in Nat /\ First \in Seqs
  /\ InDatabase \subseteq 1 .. (First - 1)
  /\ Validators \in [Seqs -> Nat]

ASSUME SettingsAssumption ==
  {mMinValidations, MIN_VALIDATION_RATIO, MAX_LEDGER_GAP, AcquireLimit,
   ledger_history, ledger_fetch_size, canDelete, FillWindow, MaxFaults}
    \subseteq Nat

VARIABLES
  mValidLedgerSeq,    \* last fully validated ledger, 0 for none
  mPubLedgerSeq,      \* last published ledger, 0 for none
  mAdvanceWork,
  mAdvanceThread,
  jobs,               \* advanceThread jobs waiting in the job queue
  adv,                \* the advanceThread job that runs: where, and its locals
  mFillInProgress,
  fill,               \* the tryFill job: where, and its locals
  mCompleteLedgers,   \* RangeSet
  mBuildingLedgerSeq,
  lastBuilt,          \* last ledger consensus built
  have,               \* ledgers getLedgerByHash returns
  inbound,            \* InboundLedgers::mLedgers
  mRecentFailures,
  dispatch,           \* LADispatch jobs of complete acquisitions
  sql,                \* ledgers in the Ledgers table
  saving,             \* pendSaveValidated jobs
  lost,               \* history: ledgers whose save failed
  vals,               \* trusted validations received, per ledger
  stream,             \* history: ledger last sent to subscribers
  stalled,            \* history: what stopped the pursuit of a ledger: an
                      \* exception in the job or the scan, a fetch given up
  faults

valid == <<mValidLedgerSeq, vals>>
work == <<mAdvanceWork, mAdvanceThread, jobs, stalled>>
filling == <<mFillInProgress, fill>>
building == <<mBuildingLedgerSeq, lastBuilt>>
fetching == <<have, inbound, mRecentFailures, dispatch>>
saves == <<sql, saving, lost>>
vars == <<valid, mPubLedgerSeq, work, adv, filling, mCompleteLedgers,
          building, fetching, saves, stream, faults>>

Resting == [pc |-> "idle", list |-> <<>>, seq |-> 0, next |-> 0, hi |-> 0,
            acqs |-> 0, missing |-> 0]
Stops == {"job", "scan", "fetch"}
NotFilling == [at |-> "idle", seq |-> 0, min |-> 0, max |-> 0, hashes |-> {}]

AdvanceJob ==
  [pc : {"idle", "top", "scan", "publish", "announce", "history"},
   list : Seq(Seqs), seq : Nat, next : Nat, hi : 0 .. MaxSeq, acqs : Nat,
   missing : 0 .. MaxSeq]
FillJob ==
  [at : {"idle", "step", "hashes", "end"}, seq : 0 .. MaxSeq,
   min : 0 .. MaxSeq, max : 0 .. MaxSeq, hashes : SUBSET Seqs]

TypeOK ==
  /\ mValidLedgerSeq \in 0 .. MaxSeq /\ mPubLedgerSeq \in 0 .. MaxSeq
  /\ mAdvanceWork \in BOOLEAN /\ mAdvanceThread \in BOOLEAN /\ jobs \in Nat
  /\ adv \in AdvanceJob
  /\ mFillInProgress \in 0 .. MaxSeq /\ fill \in FillJob
  /\ mCompleteLedgers \subseteq Seqs \X Seqs
  /\ mBuildingLedgerSeq \in 0 .. MaxSeq /\ lastBuilt \in 0 .. MaxSeq
  /\ have \subseteq Seqs
  /\ inbound \in [Seqs -> {"none", "fetching", "failed"}]
  /\ mRecentFailures \subseteq Seqs /\ dispatch \subseteq Seqs
  /\ sql \subseteq Seqs /\ saving \subseteq Seqs /\ lost \subseteq Seqs
  /\ vals \in [Seqs -> Nat] /\ \A s \in Seqs : vals[s] <= Validators[s]
  /\ stream \in 0 .. MaxSeq /\ faults \in 0 .. MaxFaults
  /\ stalled \subseteq Stops

Init ==
  /\ mValidLedgerSeq = 0 /\ mPubLedgerSeq = 0
  /\ mAdvanceWork = FALSE /\ mAdvanceThread = FALSE /\ jobs = 0
  /\ adv = Resting
  /\ mFillInProgress = 0 /\ fill = NotFilling
  /\ mCompleteLedgers = {}
  /\ mBuildingLedgerSeq = 0 /\ lastBuilt = First - 1
  /\ have = InDatabase
  /\ inbound = [s \in Seqs |-> "none"]
  /\ mRecentFailures = {} /\ dispatch = {}
  /\ sql = InDatabase /\ saving = {} /\ lost = {}
  /\ vals = [s \in Seqs |-> 0]
  /\ stream = 0 /\ stalled = {} /\ faults = 0

MutexFree == adv.pc # "top"

(* Work on ledger s fails. *)
Fault(s) == s \in Faulty /\ faults < MaxFaults /\ faults' = faults + 1

-----------------------------------------------------------------------------
(* History: a tryAdvance resumes the pursuit, unless a failed acquisition  *)
(* is in the way.                                                          *)
Resumed ==
  stalled' = IF \E s \in Seqs : inbound[s] = "failed"
               THEN stalled \intersect {"fetch"} ELSE {}

(* Mutant: a job that runs already is not told of more work. *)
tryAdvanceIdle ==
  /\ IF ~ mAdvanceThread /\ mValidLedgerSeq' # 0
       THEN mAdvanceWork' = TRUE /\ mAdvanceThread' = TRUE /\ jobs' = jobs + 1
       ELSE UNCHANGED <<mAdvanceWork, mAdvanceThread, jobs>>
  /\ Resumed

(* tryAdvance: ask for work and start the job unless it runs. *)
tryAdvance ==
  /\ mAdvanceWork' = TRUE
  /\ IF ~ mAdvanceThread /\ mValidLedgerSeq' # 0
       THEN mAdvanceThread' = TRUE /\ jobs' = jobs + 1
       ELSE UNCHANGED <<mAdvanceThread, jobs>>
  /\ Resumed

(* InboundLedgers::acquire for the ledgers in S: one that is known, being  *)
(* fetched or failed is left as it is.                                     *)
Acquire(S) ==
  inbound' = [s \in Seqs |-> IF s \in S \ have /\ inbound[s] = "none"
                               THEN "fetching" ELSE inbound[s]]

(* pendSaveValidated (synchronous): a ledger is saved once.  When nodes of *)
(* it are missing, failedSave fetches it again; it is not in               *)
(* mCompleteLedgers, from which failedSave would take it, at that time.    *)
SaveNow(s) ==
  \/ /\ s \in sql \union saving \union lost
     /\ UNCHANGED <<saves, inbound, faults>>
  \/ /\ s \notin sql \union saving \union lost
     /\ sql' = sql \union {s}
     /\ UNCHANGED <<saving, lost, inbound, faults>>
  \/ /\ s \notin sql \union saving \union lost
     /\ Fault(s)
     /\ lost' = lost \union {s}
     /\ inbound' = [inbound EXCEPT ![s] = "fetching"]
     /\ UNCHANGED <<sql, saving>>

(* saveValidatedLedgerAsync: the job that saves a ledger of the history. *)
SaveJob(s) ==
  /\ s \in saving
  /\ saving' = saving \ {s}
  /\ \/ /\ sql' = sql \union {s}
        /\ UNCHANGED <<lost, inbound, mCompleteLedgers, faults>>
     \/ /\ Fault(s)
        /\ lost' = lost \union {s}
        /\ mCompleteLedgers' = clearValue(mCompleteLedgers, s)
        /\ inbound' = [inbound EXCEPT ![s] = "fetching"]
        /\ UNCHANGED sql
  /\ UNCHANGED <<valid, mPubLedgerSeq, work, adv, filling, building, have,
                 mRecentFailures, dispatch, stream>>

-----------------------------------------------------------------------------
getNeededValidations ==
  LET val == IF mValidLedgerSeq = 0 THEN 0
             ELSE (vals[mValidLedgerSeq] * MIN_VALIDATION_RATIO) \div 256
  IN IF val > mMinValidations THEN val ELSE mMinValidations

(* checkAccept(ledger): the ledger becomes the last valid one when it is   *)
(* newer and has the validations.  The first valid ledger is taken as      *)
(* published too, and saved, but not announced.                            *)
AcceptLedger(s) ==
  IF s > mValidLedgerSeq /\ vals'[s] >= getNeededValidations
    THEN /\ mValidLedgerSeq' = s
         /\ IF mPubLedgerSeq = 0
              THEN mPubLedgerSeq' = s /\ SaveNow(s)
              ELSE UNCHANGED <<mPubLedgerSeq, saves, inbound, faults>>
         /\ tryAdvance
    ELSE UNCHANGED <<mValidLedgerSeq, mPubLedgerSeq, work, saves, inbound,
                     faults>>

(* checkAccept(hash, seq): a ledger that is not held is acquired. *)
AcceptHash(s) ==
  IF s <= mValidLedgerSeq \/ s = mBuildingLedgerSeq'
    THEN UNCHANGED <<mValidLedgerSeq, mPubLedgerSeq, work, saves, inbound,
                     faults>>
    ELSE IF s \in have
           THEN AcceptLedger(s)
           ELSE /\ Acquire({s})
                /\ UNCHANGED <<mValidLedgerSeq, mPubLedgerSeq, work, saves,
                               faults>>

(* ValidationsImp::addValidation for a trusted validation, which ends in   *)
(* checkAccept.                                                            *)
AddValidation(s) ==
  /\ MutexFree
  /\ s >= First
  /\ vals[s] < Validators[s]
  /\ vals' = [vals EXCEPT ![s] = @ + 1]
  /\ UNCHANGED building
  /\ AcceptHash(s)
  /\ UNCHANGED <<adv, filling, mCompleteLedgers, have,
                 mRecentFailures, dispatch, stream>>

(* setBuildingLedger: consensus begins to build a later ledger. *)
StartBuilding(s) ==
  /\ mBuildingLedgerSeq = 0
  /\ s \in Built /\ s > lastBuilt
  /\ mBuildingLedgerSeq' = s
  /\ lastBuilt' = s
  /\ UNCHANGED <<valid, mPubLedgerSeq, work, adv, filling, mCompleteLedgers,
                 fetching, saves, stream, faults>>

(* The ledger consensusBuilt looks for: the newest one with more than the  *)
(* needed validations.                                                     *)
Saved == {t \in Seqs : t > mValidLedgerSeq /\ vals[t] > getNeededValidations}

(* consensusBuilt: the ledger may be the one of the chain, which           *)
(* storeLedger has put into the history, or one the network does not       *)
(* validate.                                                               *)
consensusBuilt(onChain) ==
  LET s == mBuildingLedgerSeq
  IN /\ MutexFree
     /\ s # 0
     /\ mBuildingLedgerSeq' = 0
     /\ have' = IF onChain THEN have \union {s} ELSE have
     /\ UNCHANGED vals
     /\ CASE s <= mValidLedgerSeq ->
               UNCHANGED <<mValidLedgerSeq, mPubLedgerSeq, work, saves,
                           inbound, faults>>
          [] s > mValidLedgerSeq /\ onChain
               /\ vals[s] >= getNeededValidations -> AcceptLedger(s)
          [] OTHER ->
               IF Saved = {}
                 THEN UNCHANGED <<mValidLedgerSeq, mPubLedgerSeq, work, saves,
                                  inbound, faults>>
                 ELSE \E t \in Saved :
                        (\A u \in Saved : u <= t) /\ AcceptHash(t)
     /\ UNCHANGED <<lastBuilt, adv, filling, mCompleteLedgers,
                    mRecentFailures, dispatch, stream>>

-----------------------------------------------------------------------------
(* An acquisition completes; its LADispatch job is queued. *)
AcquireDone(s) ==
  /\ inbound[s] = "fetching"
  /\ inbound' = [inbound EXCEPT ![s] = "none"]
  /\ have' = have \union {s}
  /\ dispatch' = dispatch \union {s}
  /\ UNCHANGED <<valid, mPubLedgerSeq, work, adv, filling, mCompleteLedgers,
                 building, mRecentFailures, saves, stream, faults>>

(* LADispatch of a complete ledger. *)
LADispatch(s) ==
  /\ MutexFree
  /\ s \in dispatch
  /\ dispatch' = dispatch \ {s}
  /\ UNCHANGED vals
  /\ IF s > mValidLedgerSeq /\ vals[s] >= getNeededValidations
       THEN AcceptLedger(s)
       ELSE /\ UNCHANGED <<mValidLedgerSeq, mPubLedgerSeq, saves, inbound,
                           faults>>
            /\ tryAdvance
  /\ UNCHANGED <<adv, filling, mCompleteLedgers, building, have,
                 mRecentFailures, stream>>

(* An acquisition fails.  LADispatch logs the failure and calls nobody;    *)
(* the failed object stays in mLedgers until it is swept.                  *)
AcquireFail(s) ==
  /\ inbound[s] = "fetching"
  /\ Fault(s)
  /\ inbound' = [inbound EXCEPT ![s] = "failed"]
  /\ mRecentFailures' = mRecentFailures \union {s}
  /\ stalled' = stalled \union {"fetch"}
  /\ UNCHANGED <<valid, mPubLedgerSeq, mAdvanceWork, mAdvanceThread, jobs,
                 adv, filling, mCompleteLedgers, building, have, dispatch,
                 saves, stream>>

(* InboundLedgers::sweep drops an acquisition a minute after it began or   *)
(* ended: a failed one, and one in progress alike, which then neither      *)
(* completes nor fails (a thread that still holds it may finish it: that   *)
(* is AcquireDone before this step).  Nobody is told.                      *)
Sweep(s) ==
  /\ inbound[s] # "none"
  /\ inbound' = [inbound EXCEPT ![s] = "none"]
  /\ stalled' = IF inbound[s] = "fetching" THEN stalled \union {"fetch"}
                                           ELSE stalled
  /\ UNCHANGED <<valid, mPubLedgerSeq, mAdvanceWork, mAdvanceThread, jobs,
                 adv, filling, mCompleteLedgers, building, have,
                 mRecentFailures, dispatch, saves, stream, faults>>

(* The end of sweep: a logged failure expires after five minutes. *)
ExpireFailure(s) ==
  /\ s \in mRecentFailures /\ inbound[s] # "failed"
  /\ mRecentFailures' = mRecentFailures \ {s}
  /\ UNCHANGED <<valid, mPubLedgerSeq, work, adv, filling, mCompleteLedgers,
                 building, have, inbound, dispatch, saves, stream, faults>>

-----------------------------------------------------------------------------
(* The job ends: the advanceThread function returns. *)
Leave == adv' = Resting /\ mAdvanceThread' = FALSE

(* Mutant: mAdvanceWork is not looked at again. *)
LoopEndOnce(progress) ==
  IF progress
    THEN /\ adv' = [Resting EXCEPT !.pc = "top"]
         /\ mAdvanceWork' = TRUE
         /\ UNCHANGED mAdvanceThread
    ELSE Leave /\ UNCHANGED mAdvanceWork

(* The end of the loop of doAdvance, with progress or without. *)
LoopEnd(progress) ==
  IF progress \/ mAdvanceWork
    THEN /\ adv' = [Resting EXCEPT !.pc = "top"]
         /\ mAdvanceWork' = TRUE
         /\ UNCHANGED mAdvanceThread
    ELSE Leave /\ UNCHANGED mAdvanceWork

advanceThread ==
  /\ jobs > 0
  /\ adv.pc = "idle"
  /\ jobs' = jobs - 1
  /\ adv' = [Resting EXCEPT !.pc = "top"]
  /\ UNCHANGED <<valid, mPubLedgerSeq, mAdvanceWork, mAdvanceThread, stalled,
                 filling, mCompleteLedgers, building, fetching, saves, stream,
                 faults>>

(* shouldAcquire and the rest of the test before history is fetched. *)
shouldAcquire(missing) ==
  /\ missing > 0
  /\ \/ missing >= mValidLedgerSeq
     \/ missing > canDelete
     \/ mValidLedgerSeq - missing <= ledger_history
  /\ mFillInProgress = 0 \/ missing > mFillInProgress

(* The head of the loop, under m_mutex: clear mAdvanceWork, and in         *)
(* findNewLedgersToPublish take the newest ledger across a gap, or begin   *)
(* to scan from the last published ledger to the last valid one.           *)
TopPublish ==
  /\ adv.pc = "top"
  /\ mAdvanceWork' = FALSE
  /\ mValidLedgerSeq > mPubLedgerSeq
  /\ IF mValidLedgerSeq > mPubLedgerSeq + MAX_LEDGER_GAP
       THEN /\ adv' = [Resting EXCEPT !.pc = "publish",
                                      !.list = <<mValidLedgerSeq>>]
            /\ mPubLedgerSeq' = mValidLedgerSeq
       ELSE /\ adv' = [Resting EXCEPT !.pc = "scan",
                                      !.seq = mPubLedgerSeq + 1,
                                      !.next = mPubLedgerSeq + 1,
                                      !.hi = mValidLedgerSeq]
            /\ UNCHANGED mPubLedgerSeq
  /\ UNCHANGED <<valid, mAdvanceThread, jobs, stalled, filling,
                 mCompleteLedgers, building, fetching, saves, stream, faults>>

(* Nothing to publish: fetch the newest missing ledger of the history      *)
(* unless the server is loaded, or the valid ledger old (busy).            *)
TopHistory(busy) ==
  LET missing == prevMissing(mCompleteLedgers, mPubLedgerSeq)
  IN /\ adv.pc = "top"
     /\ mValidLedgerSeq <= mPubLedgerSeq
     /\ IF ~ busy /\ mValidLedgerSeq = mPubLedgerSeq /\ shouldAcquire(missing)
          THEN /\ adv' = [Resting EXCEPT !.pc = "history",
                                         !.missing = missing]
               /\ UNCHANGED mAdvanceThread
          ELSE Leave
     /\ mAdvanceWork' = FALSE
     /\ UNCHANGED <<valid, mPubLedgerSeq, jobs, stalled, filling,
                    mCompleteLedgers, building, fetching, saves, stream,
                    faults>>

(* Mutant: any ledger at hand is published. *)
ScanLedgerAny ==
  /\ adv.pc = "scan"
  /\ adv.seq <= adv.hi
  /\ adv' = [adv EXCEPT
       !.seq = @ + 1,
       !.list = IF adv.seq \in have \union {adv.hi} THEN Append(@, adv.seq)
                                                   ELSE @]
  /\ Acquire({adv.seq} \ {adv.hi})
  /\ UNCHANGED <<valid, mPubLedgerSeq, work, filling, mCompleteLedgers,
                 building, have, mRecentFailures, dispatch, saves, stream,
                 faults>>

(* findNewLedgersToPublish, without the lock: one ledger of the scan. *)
ScanLedger ==
  LET s == adv.seq
      held == s \in have \/ s = adv.hi
      fetch == ~ held /\ adv.acqs + 1 < AcquireLimit
  IN /\ adv.pc = "scan"
     /\ s <= adv.hi
     /\ adv' = [adv EXCEPT
          !.seq = s + 1,
          !.acqs = IF held THEN @ ELSE @ + 1,
          !.list = IF held /\ s = adv.next THEN Append(@, s) ELSE @,
          !.next = IF held /\ s = @ THEN @ + 1 ELSE @]
     /\ Acquire(IF fetch THEN {s} ELSE {})
     /\ UNCHANGED <<valid, mPubLedgerSeq, work, filling, mCompleteLedgers,
                    building, have, mRecentFailures, dispatch, saves, stream,
                    faults>>

(* A node of the ledger that names the others is missing: the scan catches *)
(* the exception and keeps what it found.                                  *)
ScanThrows ==
  /\ adv.pc = "scan"
  /\ adv.seq <= adv.hi
  /\ Fault(adv.seq)
  /\ adv' = [adv EXCEPT !.seq = adv.hi + 1]
  /\ stalled' = stalled \union {"scan"}
  /\ UNCHANGED <<valid, mPubLedgerSeq, mAdvanceWork, mAdvanceThread, jobs,
                 filling, mCompleteLedgers, building, fetching, saves, stream>>

(* The scan takes the lock again. *)
ScanDone ==
  /\ adv.pc = "scan"
  /\ adv.seq > adv.hi
  /\ IF adv.list # <<>>
       THEN /\ adv' = [Resting EXCEPT !.pc = "publish", !.list = adv.list]
            /\ UNCHANGED <<mAdvanceWork, mAdvanceThread>>
       ELSE LoopEnd(FALSE)
  /\ UNCHANGED <<valid, mPubLedgerSeq, jobs, stalled, filling,
                 mCompleteLedgers, building, fetching, saves, stream, faults>>

(* setFullLedger(ledger, true, true) for the next ledger of the list. *)
Publish ==
  LET s == Head(adv.list)
  IN /\ adv.pc = "publish"
     /\ SaveNow(s)
     /\ have' = have \union {s}
     /\ mCompleteLedgers' = setValue(mCompleteLedgers, s)
     /\ adv' = [adv EXCEPT !.pc = "announce"]
     /\ UNCHANGED <<valid, mPubLedgerSeq, work, filling, building,
                    mRecentFailures, dispatch, stream>>

(* pubLedger sends the ledger to subscribers; setPubLedger under the lock. *)
Announce ==
  LET s == Head(adv.list)
  IN /\ adv.pc = "announce"
     /\ stream' = s
     /\ mPubLedgerSeq' = s
     /\ IF Tail(adv.list) # <<>>
          THEN /\ adv' = [Resting EXCEPT !.pc = "publish",
                                         !.list = Tail(adv.list)]
               /\ UNCHANGED <<mAdvanceWork, mAdvanceThread>>
          ELSE LoopEnd(TRUE)
     /\ UNCHANGED <<valid, jobs, stalled, filling, mCompleteLedgers, building,
                    fetching, saves, faults>>

(* An exception ends doAdvance; advanceThread catches it. *)
AdvanceThrows ==
  /\ adv.pc \in {"publish", "announce", "history"}
  /\ Fault(IF adv.pc = "history" THEN adv.missing ELSE Head(adv.list))
  /\ Leave
  /\ stalled' = stalled \union {"job"}
  /\ UNCHANGED <<valid, mPubLedgerSeq, mAdvanceWork, jobs, filling,
                 mCompleteLedgers, building, fetching, saves, stream>>

(* Back under the lock after the history step: the valid ledger may have   *)
(* moved on.                                                               *)
HistoryEnd(progress) ==
  LoopEnd(progress \/ mValidLedgerSeq # mPubLedgerSeq)

(* The missing ledger is held: setFullLedger(ledger, false, false), and a  *)
(* tryFill job when the ledger before it is in the database.               *)
HistoryFound ==
  LET s == adv.missing
  IN /\ adv.pc = "history"
     /\ s \in have
     /\ saving' = saving \union ({s} \ (sql \union lost))
     /\ mCompleteLedgers' = setValue(mCompleteLedgers, s)
     /\ IF mFillInProgress = 0 /\ s - 1 \in sql
          THEN /\ mFillInProgress' = s
               /\ fill' = [NotFilling EXCEPT !.at = "step", !.seq = s,
                                             !.min = s, !.max = s]
          ELSE UNCHANGED filling
     /\ HistoryEnd(TRUE)
     /\ UNCHANGED <<valid, mPubLedgerSeq, jobs, stalled, building, fetching,
                    sql, lost, stream, faults>>

(* It is not held: acquire it, unless that failed recently, and prefetch   *)
(* the ledgers before it.                                                  *)
HistoryFetch ==
  LET s == adv.missing
  IN /\ adv.pc = "history"
     /\ s \notin have
     /\ Acquire({t \in Seqs : t <= s /\ s < t + ledger_fetch_size}
                  \union ({s} \ mRecentFailures))
     /\ HistoryEnd(FALSE)
     /\ UNCHANGED <<valid, mPubLedgerSeq, jobs, stalled, filling, building,
                    mCompleteLedgers, have, mRecentFailures, dispatch, saves,
                    stream, faults>>

(* The hash of the missing ledger cannot be found: the ledger that should  *)
(* name it is given up.                                                    *)
HistoryNoHash ==
  /\ adv.pc = "history"
  /\ Fault(adv.missing)
  /\ mCompleteLedgers' = clearValue(mCompleteLedgers, adv.missing + 1)
  /\ HistoryEnd(TRUE)
  /\ UNCHANGED <<valid, mPubLedgerSeq, jobs, stalled, filling, building,
                 fetching, saves, stream>>

-----------------------------------------------------------------------------
(* Mutant: the ledger before is counted before it is known. *)
FillStepEarly ==
  /\ MutexFree
  /\ fill.at = "step"
  /\ fill' = [fill EXCEPT !.min = fill.seq - 1, !.seq = @ - 1,
       !.at = IF hasValue(mCompleteLedgers, fill.seq - 1) THEN "end"
              ELSE IF fill.seq - 1 \in fill.hashes
                     THEN IF fill.seq - 1 > 0 THEN "step" ELSE "end"
                     ELSE "hashes"]
  /\ UNCHANGED <<valid, mPubLedgerSeq, work, adv, mFillInProgress,
                 mCompleteLedgers, building, fetching, saves, stream, faults>>

(* tryFill, one turn of its loop: under m_mutex step down to the ledger    *)
(* before, and stop at one that is complete.                               *)
FillStep ==
  /\ MutexFree
  /\ fill.at = "step"
  /\ fill' = [fill EXCEPT !.min = fill.seq, !.seq = @ - 1,
       !.at = IF hasValue(mCompleteLedgers, fill.seq - 1) THEN "end"
              ELSE IF fill.seq - 1 \in fill.hashes
                     THEN IF fill.seq - 1 > 0 THEN "step" ELSE "end"
                     ELSE "hashes"]
  /\ UNCHANGED <<valid, mPubLedgerSeq, work, adv, mFillInProgress,
                 mCompleteLedgers, building, fetching, saves, stream, faults>>

(* The hashes read so far are used up: what is known is marked complete,   *)
(* and the next ones are read; it ends where the database has none.        *)
FillHashes ==
  LET hashes == {t \in sql : t <= fill.seq /\ fill.seq < t + FillWindow}
  IN /\ fill.at = "hashes"
     /\ mCompleteLedgers' = setRange(mCompleteLedgers, fill.min, fill.max)
     /\ fill' = [fill EXCEPT !.max = fill.min, !.hashes = hashes,
          !.at = IF fill.seq \in hashes /\ fill.seq > 0 THEN "step" ELSE "end"]
     /\ UNCHANGED <<valid, mPubLedgerSeq, work, adv, mFillInProgress, building,
                    fetching, saves, stream, faults>>

FillEnd ==
  /\ MutexFree
  /\ fill.at = "end"
  /\ mCompleteLedgers' = setRange(mCompleteLedgers, fill.min, fill.max)
  /\ mFillInProgress' = 0
  /\ fill' = NotFilling
  /\ UNCHANGED valid
  /\ tryAdvance
  /\ UNCHANGED <<mPubLedgerSeq, adv, building, fetching, saves, stream,
                 faults>>

-----------------------------------------------------------------------------
AdvanceStep ==
  \/ advanceThread \/ TopPublish \/ \E busy \in BOOLEAN : TopHistory(busy)
  \/ ScanLedger \/ ScanDone
  \/ Publish \/ Announce
  \/ HistoryFound \/ HistoryFetch

FillRuns == FillStep \/ FillHashes \/ FillEnd

Next ==
  \/ \E s \in Seqs :
       \/ AddValidation(s) \/ StartBuilding(s)
       \/ AcquireDone(s) \/ LADispatch(s) \/ AcquireFail(s) \/ Sweep(s)
       \/ ExpireFailure(s) \/ SaveJob(s)
  \/ \E onChain \in BOOLEAN : consensusBuilt(onChain)
  \/ AdvanceStep \/ ScanThrows \/ AdvanceThrows \/ HistoryNoHash
  \/ FillRuns

(* The acquisition of ledger s ends. *)
AcquireEnds(s) ==
  inbound[s] = "fetching" /\ (AcquireDone(s) \/ AcquireFail(s) \/ Sweep(s))

(* The job queue runs the jobs, and an acquisition completes, fails or is  *)
(* swept after a minute.                                                   *)
Fairness ==
  /\ WF_vars(AdvanceStep)
  /\ WF_vars(FillRuns)
  /\ WF_vars(\E s \in Seqs : AcquireEnds(s))
  /\ WF_vars(\E s \in Seqs : LADispatch(s))
  /\ WF_vars(\E s \in Seqs : SaveJob(s))

Spec == Init /\ [][Next]_vars /\ Fairness

-----------------------------------------------------------------------------
(* mAdvanceThread says exactly whether an advance job is queued or runs,   *)
(* there is never a second one, and work that was asked for while a ledger *)
(* is valid has such a job: tryAdvance and the end of the loop of          *)
(* doAdvance, which releases the lock in the middle, do not lose it.  Only *)
(* an exception in doAdvance leaves work behind.                           *)
AdvanceNotLost ==
  /\ jobs + (IF adv.pc = "idle" THEN 0 ELSE 1) = IF mAdvanceThread THEN 1 ELSE 0
  /\ mAdvanceWork /\ mValidLedgerSeq # 0 => mAdvanceThread \/ "job" \in stalled
  /\ mFillInProgress # 0 <=> fill.at # "idle"

(* Subscribers see the validated ledgers in order and without omission; a  *)
(* ledger is skipped only across more than MAX_LEDGER_GAP of them, and     *)
(* nothing is announced before it is validated and complete.               *)
PublishedInOrder ==
  [][stream' # stream =>
       /\ stream' <= mValidLedgerSeq
       /\ stream' \in Values(mCompleteLedgers) \union lost
       /\ IF stream = 0 THEN stream' > First
          ELSE stream' = stream + 1 \/ stream' > stream + MAX_LEDGER_GAP]_vars

(* A ledger announced as complete is in the database, or its save is       *)
(* pending, or failed: tryFill marks no ledger it did not find, although   *)
(* it marks ranges it walked without a lock.  The ranges stay canonical.   *)
CompleteSaved ==
  /\ Values(mCompleteLedgers) \subseteq sql \union saving \union lost
  /\ simplify(mCompleteLedgers) = mCompleteLedgers

(* A validated ledger is published, across missing ledgers that must be    *)
(* fetched first, unless the pursuit of it was stopped, by an exception or *)
(* by a fetch that failed or was swept: it is then left to the next        *)
(* tryAdvance, from which on this holds again.                             *)
Publishes ==
  mValidLedgerSeq > mPubLedgerSeq ~>
    mPubLedgerSeq = mValidLedgerSeq \/ stalled # {}
==============================================================================
