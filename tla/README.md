# Verification of the concurrent core of sand

`sand` is a fork of rippled: a C++ peer-to-peer ledger server. Servers exchange transactions,
agree once every few seconds on a set of them (a consensus round), apply the set to the last closed ledger
and sign the result (a validation). This directory holds TLA+ models of the concurrent core of one server, TLC
configurations that check them on small instances, and TLAPS proofs for any instance.

All source paths below are under `src/src/ripple/`. `PROJECT.json` maps every definition to the lines it stands for.

## 1. Inventory

### Parts that are modelled

| Part (code) | State | Operations | Why it is hard |
|---|---|---|---|
| Consensus round (`app/ledger/impl/LedgerConsensusImp.cpp`, `LedgerProposal.cpp`, `ConsensusImp.cpp`) | phase, last closed ledger, own position, peers' positions, dead peers, acquired sets, compared sets, disputes, close-time agreement | heartbeat (`timerEntry`), proposal (`peerPosition`), set arrives (`mapComplete`), accept job | messages reordered, repeated, late; sets arrive before or after the proposals that name them; the ledger under the round changes in mid-round |
| Disputed transactions (`DisputedTx.cpp`) | votes per peer, two counters, own vote | `setVote`, `unVote`, `updateVote` | counters adjusted incrementally |
| Ledger timing (`LedgerTiming.cpp`, the close-time part of `updateOurPositions`) | close resolution, votes per time | `getNextLedgerTimeResolution`, `roundCloseTime`, the threshold loop | order of iteration, rounding done twice, resolution that changes |
| Validation store (`app/misc/Validations.cpp`) | validations per ledger, current validation per node, stale queue, `mWriting` | `addValidation`, expiring queries, `sweep`, `doWrite`, `flush` | writer drops the lock while it writes; shutdown polls it; 32-bit time windows |
| Job queue (`core/impl/JobQueue.cpp`, `beast/threads/impl/Workers.cpp`, `Stoppable.cpp`) | job set, per-type counters, semaphore, stop state | `addJob`, `getNextJob`, `finishJob`, `checkStopped`, stop tree | limits with deferred signals; stop races with adding jobs |
| Transaction batches (`NetworkOPsImp::processTransaction` … `apply` in `app/misc/NetworkOPs.cpp`) | `mTransactions`, `mDispatchState`, `mApplying` of a transaction, local transactions | submit from client or peer, batch job, apply, wait on a condition variable | clients run each other's batches; wake-ups; jobs skipped when stopping |
| LedgerMaster (`app/ledger/impl/LedgerMaster.cpp`, the saves of `Ledger.cpp`, `basics/impl/RangeSet.cpp`) | validated and published ledger, `mAdvanceThread`, `mAdvanceWork`, ranges of complete ledgers, history fill | `checkAccept`, `consensusBuilt`, `tryAdvance`, the advance job (publish, fetch history), `tryFill`, save jobs | the job gives up its lock in many places; requests arrive meanwhile; fetches and saves fail |
| Ledger acquisition (`InboundLedger.cpp`, `InboundLedgers.cpp`, `overlay/impl/PeerSet.cpp`) | flags of the acquisition, received packets, timer, what the node store holds | `init`, timer, `gotData`, `runData`, `trigger`, `done`, fetch packs, `sweep` | timer against late data; lock released in mid-search; answers lost, repeated, unsolicited |
| Node store writes (`nodestore/impl/BatchWriter.cpp`) | pending vector, `mWritePending`, `mWriteLoad` | `store`, the write task, the destructor | store and task meet at the end of the task's loop |
| Online deletion (`app/misc/SHAMapStoreImp.cpp`, `nodestore/impl/DatabaseRotatingImp.cpp`, `DatabaseImp.h`) | directories on disk, saved state, SQL rows, two backends, rotation thread | start, every stage of a rotation, health checks, store, fetch, stop | a rotation has ten stages, each of which a crash, a stop or a failed health check may follow; stores and fetches cross the swap |
| InboundTransactions (`app/tx/impl/InboundTransactions.cpp`) | sets it holds | `getSet`, `giveSet` (as the round sees them) | publishes a set before the round hears of it |

How they interact. Overlay threads hand proposals, validations, sets and transactions to jobs of the **job queue**.
The heartbeat runs `timerEntry` of the **round** under the master lock; proposals and complete sets reach the round under the same
lock. The round reads **validations** to find the ledger the network prefers and ends in an accept job, which builds the
ledger and re-applies losing transactions to the open ledger. **Transaction batches** fill that open ledger, under the
master and ledger locks, from clients' threads and from batch jobs. Trusted validations, the accept job and finished **acquisitions** drive **LedgerMaster**, whose advance job saves and publishes ledgers and
asks for missing ones; the answer of an acquisition comes back as a job that calls `checkAccept` and `tryAdvance`. Each validated ledger wakes the thread of **online deletion**, which
takes ledgers out of LedgerMaster's complete ranges and rotates the backends under the node store; nodes reach a backend through the **batch writer**. Shutdown walks the tree of stoppables; the job queue is quiet when its
children have stopped and its jobs are done, and `Validations::flush` runs in it.

### Parts that are not modelled

| Part | Reason |
|---|---|
| Operating mode and heartbeat (rest of `NetworkOPs.cpp`) | the choice of mode and of the last closed ledger is arithmetic on counts of validations and proposals; its result, the network's view, is an input of the round and chosen freely, so every sequence of results is covered. The races of mode changes with the round are not |
| `TransactionAcquire` | the same `PeerSet` timer and packets as `InboundLedger`, which is modelled, over one tree instead of two; the round sees a set that arrives at some moment or never |
| `HashRouter` | a map with ageing behind one lock; only the flags that the batches use appear |
| `OpenLedger`, `LocalTxs` | what is re-applied to the next open ledger depends on the transaction engine |
| `DividendMaster`, `AmendmentTable`, `FeeVote` | computed in one pass on a flag ledger from what that ledger and its validations say; no step interleaves with another thread |
| `LoadFeeTrack` | arithmetic on three counters |
| SHAMap, transactors, ledger objects, path finding | data structures and computations without concurrency of their own; a transaction is a value with a class of result |
| Overlay, PeerFinder, resource manager, RPC, server, websocket | I/O and formats; messages enter the models behind this layer |
| Unique node list | the trusted set is a constant |

The hazards of the code, each with its line and the properties aimed at it, are listed in `PROJECT.json`.

## 2. Modules

| Module | Contents | Extended or used by |
|---|---|---|
| `Validations` | the store, its writer job, `flush` | `MCValidations`, `Validations_proofs` |
| `ConsensusRules` | constants and pure rules: when to close, when consensus is reached, resolutions, the close-time loop | `DisputedTx`, `CloseTime` |
| `DisputedTx` | operators on a dispute record | `LedgerConsensus` |
| `LedgerConsensus` | one server's round, composed with the sets of `InboundTransactions`, stored proposals and the accept job | `MCLedgerConsensus`, `LedgerConsensus_proofs` |
| `CloseTime` | a chain of ledgers whose close times are voted on by several servers (its specification is `ChainSpec`) | `MCCloseTime`, `LedgerConsensus_proofs` |
| `JobQueue` | queue, workers, semaphore and stop protocol | `MCJobQueue`, `JobQueue_proofs` |
| `TransactionBatch` | submission and batches | `MCTransactionBatch`, `TransactionBatch_proofs` |
| `WriteBehind` | abstract: what a write-behind queue promises | instantiated by `Validations` and `BatchWriter` |
| `BatchWriter` | the node store's write queue | `MCBatchWriter`, `BatchWriter_proofs` |
| `SHAMapStore` | online deletion over the rotating node store, with crashes and restarts | `MCSHAMapStore`, `SHAMapStore_proofs` |
| `RangeSet` | operators on a set of ranges | `LedgerMaster` |
| `LedgerMaster` | validated chain, advance job, history, saves | `MCLedgerMaster`, `LedgerMaster_proofs` |
| `InboundLedger` | one acquisition with its timer and jobs | `MCInboundLedger`, `InboundLedger_proofs` |

One critical section of a lock is one action. Code between two sections is a step of its own whenever another thread could see
the difference. Inputs the model does not compute (what peers say, when data arrives, what a transaction returns) are chosen with `\E`.

### Validations
Variables carry the names of the members (`mValidations`, `mCurrentValidations`, `mStaleValidations`, `mWriting`); `db` is the database table,
`queuedWrites` the `doWrite` jobs not yet begun, and a worker that runs `doWrite` holds its batch. `accepted` and `toFlush` are history variables for the properties. `Receive` is the part of `addValidation` in front of the lock: it
decides freshness and trust with the clock of that moment, so a thread can be overtaken before `AddValidation` (the locked part)
runs. Times are modulo `TimeMod`, standing for 2^32, with the two intervals scaled, so that the windows wrap at both ends.
`doWrite` is three actions: take the batch, commit it to the database without the lock, take the lock again and loop or end. `FlushStart`
and `FlushDone` are the two locked parts of `flush`; the sleep and poll between them is the time between the two actions.

### LedgerConsensus
`round` is the `LedgerConsensusImp` object as a record. `TimerEntry` is `timerEntry` with all it calls (`checkLCL`, `handleLCL`,
`statePreClose`, `stateEstablish`, `updateOurPositions`, `haveConsensus`), written as operators from round to round applied in the order
of the code. `TrustedProposal` is `processTrustedProposal` with `peerPosition`; `GiveSet` and `GotSet` are the two halves of a set's arrival (publication,
then `mapComplete` under the master lock); `AcquireLedger` makes a missing ledger available; `AcceptStart`, `AcceptBuild` and
`EndConsensus` are the accept job (a section under the master lock, then the work without it) and the heartbeat that drops the finished round.
A transaction set is a set of transactions and stands for its hash. `PlaybackProposals` gives the outcome of the calls of `peerPosition` that `playbackProposals` makes in one formula
instead of a recursion over the stored proposals; `PlaybackAgrees`, an assumption of `MCLedgerConsensus` that TLC evaluates, compares its result with a one-by-one replay over every store of up to three proposals of one peer and one of another.

Left out: the clock-offset statistic, pseudo-transactions on flag ledgers, `checkOurValidation`, `simulate`, status messages, the exception path
from a missing SHAMap node to `leaveConsensus`, the operating mode, and what applying the accepted set does (its transactions are taken to
apply). `Info` says what a ledger's header holds of its sequence number, close time and resolution; the round computes its own resolution from it when it starts and again when it switches to another ledger (`CloseResolutionOn`). The evolution along a chain is in `CloseTime`. The concurrent reads of `accept` without the master lock
are a listed hazard without a property.

### CloseTime
`Report` gives each participant a close time at some stage of the avalanche, `Retry` throws away reports that did not converge, `Accept` stamps the ledger and computes the next resolution.
The threshold loop is `closeTimeVote` of `ConsensusRules`, a fold over the times that puts the latest one outermost, so that the times are walked in ascending order as the `std::map` of the code is. It is compared with an independent definition (the most frequent time that passes the threshold).
`ChainLength` bounds the ledgers closed; the names begin with `Chain` because `LedgerConsensus_proofs` extends this module and the round's, which share the vote.

### JobQueue
`addJob` is `AddJob` (the first critical section and the skip-on-stop test) and `InsertJob` (the second critical section, with `queueJob`'s choice
between a semaphore signal and deferral). A worker is `Wake` (past the semaphore), `GetNextJob`, `StartJob` (skip or run) and
`FinishTask` (with `finishJob` and `checkStopped`). `StopAsync`, `ChildStops`, `ChildrenStopped`, `OnChildrenStopped` and `Stopped` are the stop tree as the queue
meets it. Callers are running jobs and `Others`: timers, `io_service` threads and threads of the children, which call at any time, also when everything has stopped, and a child stops without waiting for a call in flight. The rule that `addJob` asserts is therefore not a guard (release builds
do not test it); `legal` records the jobs that went in while not all children were stopped, or were added by such a job, and `StopRunsJobs` is about those. Pausing and
resizing the pool, load events and reports are left out.

### TransactionBatch
`ProcessTransaction` chooses between the two paths after the signature check; `DoTransactionAsync` and `DoTransactionSync` are the locked beginnings;
`Take` swaps out the queue; `ApplyBatch` is the unlocked middle of `apply`; `FinishSync`, `FinishBatch` are its end under the lock, with
the notification and, for a client, the hand-over of what has been queued meanwhile to a new job. `SpuriousWake` is what `std::condition_variable` allows. `Stop` makes batch jobs
be dropped. The result classes are `tes`, `tec`, `past` (sequence already used), `ter` (retry) and `tem` (malformed).
Left out: replacement of the open ledger by a round, the sweep of local transactions, re-application of held ones, status strings and exceptions (the last a listed hazard). All
submitters of a transaction share one `Transaction` object, which is what the master transaction cache gives them.

### WriteBehind, and its two implementations
The abstract queue has `pending` and `written` items and one waiter. `Put` appends, `Write` moves a prefix, `Wait` records how much had been put, `Return` is allowed when
that much is written. `Validations` and `BatchWriter` instantiate it and are checked against `SafeSpec` (`ImplementsQueue`) and the liveness formula `Live` (`Drains`). In `Validations` the pending
items are the batch of the writer followed by `mStaleValidations`, and the waiter is `flush`, which puts the current validations as it starts to wait; in `BatchWriter` they are the batch followed by `mWriteSet`, and the waiter is the destructor.

### BatchWriter
One action per section under `mWriteMutex`. `Store` appends and schedules the task unless `mWritePending`; `TaskStart` and `TaskLoop` are one turn of the loop of `writeBatch` (`TakeBatch`: swap the vector, or find it empty, clear
`mWritePending` and notify); `TaskWrite` is the write without the lock; `Destroy` and `WaitForWriting` are the destructor. `mark` is a history variable. The scheduler is the job queue, so a task is a job. Left out: the
maximum batch size reserved for the vector (capacity only) and the timing statistics.

### SHAMapStore
`disk`, `state_db` and `sql` survive a crash, the rest does not. `pc` is the place of `run()`, with one action per stage: `Top` and `TakeLedger` (wait, decide), `ClearPrior` and `ClearSql`, `CopyNode` (one node of
the state map at a time), `FreshenCaches`, `NewBackend`, `Save`, `Rotate` (the two assignments of `rotateBackends` are separate steps) and `DeleteOld`. `Health` follows each stage: it may stop the
thread or abandon the rotation and remembers the bad result as the code does. `StoreBegin`/`StoreEnd` are a store that takes a reference to the writable backend and uses it later;
`FetchWritable`/`FetchArchive`/`FetchStore` a fetch, which reads the members again at each use. `Crash` may come between any two steps; `Exit` is an orderly end, after which the pending batch of a backend is written or lost, since `~RocksDBBackend` closes
the database before the member that holds the batch waits for it. `DbPaths`, `MakeDatabase` and `StartRun` are the next start. `Configs` chooses between a backend that batches (RocksDB) and one that writes through (RocksDBQuick), and between advisory deletion and not.
A validated ledger wakes the thread (`OnLedgerClosed`, from `setValidLedger`); the advance thread marks it complete later with its save pending (`SetFullLedger`), and the save writes the rows later still, or fails (`SaveLedger`). `saved` and `late` are history variables: the rows ever written, and those of a save that took longer than a whole rotation.
Ledgers are sets of nodes, validated in sequence. A cache may hold or have lost anything: a fetch it answers is not an action, and the keys it offers to `freshenCaches` are none or all. Left out: asynchronous reads, import, the sleeps between batches of SQL, and `tryFill`, which marks older ledgers complete (it is in `LedgerMaster`).

### LedgerMaster
Ledgers of one chain are named by sequence number; the chain the network validates, the ledgers an earlier run left in the database and the ledgers our own consensus builds are constants. `AddValidation` is the end of `addValidation` with `checkAccept`;
`consensusBuilt` the call at the end of a round; `AcquireDone`, `LADispatch`, `AcquireFail` and `Sweep` are the acquisition as seen from here: `Sweep` drops a failed one or one in progress, which then neither completes nor fails, and tells nobody; `ExpireFailure` forgets a logged failure. `stalled` is a history variable: what stopped the pursuit of a ledger (an exception in the job or in the scan, a fetch that failed or was swept), until the next `tryAdvance` resumes it. `adv` is the advance job: it holds `m_mutex` at `top` only, and every step elsewhere
(scan for ledgers to publish, publish one, announce, fetch history) is open to the others. `ScanThrows` and `AdvanceThrows` are the exceptions the code catches. `FillStep`, `FillHashes`, `FillEnd` are `tryFill`, with its window of hashes. `SaveNow` and `SaveJob`
are the synchronous and the queued save, either of which may fail (`failedSave`). `RangeSet` follows the code's ranges, `simplify` included: `setRange` of 1-2 on the set {1} leaves 2 out, as the code does.
Left out: two ledgers with one number (`fixMismatch`), fetch packs, path finding, the cleaner.

### InboundLedger
`la` holds the flags of one acquisition. The timer job holds the lock throughout and is one action (`TimerJob`, with `onTimer` and `trigger`); `runData` is several: take the packets (`TakeData`), process one (`ProcessData`), then `trigger`, which gives
the lock up while it searches the state map (`TriggerBegins`, `SearchState`, `TriggerEnds`) and calls `done` without it (`DoneTests`, `DoneSignals`: the test and the setting of `mSignaled` are two steps).
`kind` says what is behind the hash: a ledger, one whose account hash is zero, one with a node that is out of bounds in its map, or an object that is no ledger; `tryLocal` fails on the second and the last, and `mapState` follows the state of the two SHAMaps, which a node out of bounds makes invalid. `GotData` delivers any packet at any time, any number of times,
and nothing obliges a peer to answer; requests are therefore left out, but for their effect on `trigger`, which ends with a request unless `filterNodes` dropped it. A packet is taken, refused, or refused after some of its nodes were stored (`TakeNodesThenRefuse`). `TriggerByHash` is the by-hash part of the last retries, which may find that nothing is missing; the flag `mByHash` is left out. `Stash` and `CheckLocal` are stale data and fetch packs, `Sweep` drops the acquisition.
Left out: peers as objects and their scores, the object a new request makes after a sweep.

## 3. Runs that pass

| Run | Shows | Bounds, and why they are enough |
|---|---|---|
| `validations` | `OneWriter`, `PreviousIsOlder`, `ImplementsQueue`, `Drains` | two trusted validators and an untrusted one, two ledgers, two workers, three arrivals in any order of signing time, over enough time for one to expire (a close time two behind the network's lets an old one in): duplicates, an older one after a newer one, an addition while the writer writes, and one while `flush` waits; signing times include 0 and 15 of a clock modulo 16, where both ends of the window wrap. One delivering thread, which may be delayed between its test of freshness and the lock; more are covered by the proofs of `OneWriter`, `PreviousIsOlder` and `ImplementsQueue` |
| `consensus_round` | `VotesCounted`, `VoteMatchesPosition`, `VotersTracked`, `ProposingInSync`, `DisputesCoverDifferences`, `LosersRetried` | two ledgers with different resolutions, between which the view switches in every phase; two peers, two transactions, the two sets of one transaction, two proposals with sequence numbers 0, 1 and the bow-out value; sets published and reported in separate steps; instants 0, 2.5 and 28 s lie before and after closing, minimum consensus time and proposal freshness (20 s), so that peers go stale and rounds end after a bow-out. Symmetry of peers and transactions |
| `consensus_live` | `CloseTimeSupported`, `RoundEnds` | peers with two close times and two sets say anything until 12 s, then are silent; the instants reach every stage of the avalanche (at 12 s neither of two close times has the share asked for) and past the time after which silent peers are dropped and an idle ledger closes |
| `close_times` | `StagesAgree`, `VoteIsPlurality`, `StampNearReports` | four participants (so few that the separate rule for a close time of zero never decides: that takes six; the theorems `VoteCorrect` and `StagesCorrect` cover it), reports on and between multiples of the resolution, one that rounds to the special value 0, ten ledgers from sequence number 6: both changes of the resolution (coarser at every ledger, finer at every eighth) are met |
| `jobqueue` | `RunnableExists`, `StopRunsJobs`, `JobsRun`, `StopCompletes` | two types with limits 1 and 2, three workers, one other thread, one child, four jobs: deferral needs limit + 1 jobs of a type; the other thread calls before, during and after the stop |
| `batches` | `OneBatch`, `AppliedOnce`, `NotStranded`, `ReturnsApplied`, `ClientsAnswered` | three transactions (one badly signed), two clients, a relay and one worker, three submissions: two clients in one batch, a client handing over to a job, a repeat in flight. Results are success or malformed, the two that change what a later submission does |
| `node_writes` | `ImplementsQueue`, `Drains` | two objects stored six times in all, two workers: a store before, during and after a batch, twice over; the proof covers the rest |
| `online_delete` | `StartSucceeds`, `NodesKept`, `FetchFinds`, `RowsFollow`, `StopCompletes` | four ledgers with an interval of one, so up to three rotations, the third of which deletes a backend that a rotation created; one node in every ledger, one that only ledger 3 has; one reader; for the backend that writes through one crash or restart at any point, for the one that batches none (`MaxCrashes`; the proofs have any number for both); one ledger validated and not yet saved (`MaxUnsaved`), and the save of ledger 4 may fail with the first (`SaveFails`); advisory deletion with the first too, raised by `can_delete` to 4 at any time (`CanDeletes`); four directory names: two backends, the one being made and one that an abandoned rotation left (with two left behind the bound ends rotations) |
| `ledger_advance` | `AdvanceNotLost`, `CompleteSaved`, `PublishedInOrder`, `Publishes` | ledgers 1 to 6, of which the network validates 2, 5 and 6: from 2 to 5 two ledgers must be fetched, one per scan; from 2 to 6 the gap is larger than `MAX_LEDGER_GAP` (3 for 100). Ledger 1 is in the database for `tryFill`; one fault on ledger 3 or 5; any fetch may be swept |
| `acquisition` | `CompleteHasAll`, `DataHasJob`, `AnswerFinal`, `AcquisitionEnds` | header, one state node, one transaction node, found in the store or not, of each of the four kinds, the state node being the one out of bounds; two workers, so that two `runData` calls overlap; one timeout without progress is tolerated (10 in the code) and by-hash begins with it; any number of packets, of which one waits at a time (`MaxQueue`) while others are processed |

Each run takes between a second and three minutes with two workers. Symmetry is used only in runs without liveness properties. `CHECK_DEADLOCK FALSE` is set
throughout because every model stops: its numbers of inputs are bounded and the server shuts down or the round ends; that things do not stop
too early is what the liveness properties, `NotStranded`, `AdvanceNotLost`, `DataHasJob` and `RunnableExists` say. Each module's `TypeOK` holds in the same instances; it is kept out of the configurations, which check what could really go wrong.

The properties, in words:

* `OneWriter`: `mWriting` is true exactly when one `doWrite` job exists. `PreviousIsOlder`: a validator's previous-ledger hash names the ledger of an older validation. `ImplementsQueue` and `Drains` (also of `BatchWriter`): items are written in order, exactly once; `flush` and the destructor return, and only when everything put before is written.
* `VotesCounted`: `mYays` and `mNays` equal the recorded votes. `VotersTracked`: only tracked peers vote. `VoteMatchesPosition`: our vote agrees with our set while we propose, and the accept job gets the set we hold. `DisputesCoverDifferences`: while we propose, our set and the compared sets of the peers differ only in disputed transactions. `LosersRetried`: unless we bowed out, a disputed transaction outside the accepted set reaches the next open ledger.
* `ProposingInSync`: a server proposes only on the ledger it takes for the network's, and its broadcast sequence numbers grow. `CloseTimeSupported`: a round finishes only with a close time that half of the present participants hold.
* `StagesAgree`: servers that run the loop at different thresholds never settle on different times. `StampNearReports`: an agreed ledger's time is within half a resolution of what half of the participants reported. `VoteIsPlurality`: the loop over the votes equals a plurality vote with a threshold.
* `RunnableExists` (with `WithinLimit` in the proof): a worker past the semaphore finds a job. `StopRunsJobs`: the queue says it has stopped only when every job is done that went in before all children had stopped or was added by such a job.
* `OneBatch`: one batch at a time. `AppliedOnce`: `mApplying` marks exactly the transactions in flight, each there once. `NotStranded`: a queued transaction has a batch or a job coming until the server stops. `ReturnsApplied`: a client returns only after its transaction has been through a batch.
* `StartSucceeds`: wherever a crash came, the next start finds the directories that the saved state names. `NodesKept`: a node of a ledger since the last rotation is in one of the two backends (for a backend that batches its writes: until a crash). `FetchFinds`: a fetch that crosses a rotation does not miss a node that was kept throughout. `RowsFollow`: rows once written stay while their ledger is not before the last rotation, and a rotation copies and exchanges the backends only after the rows before the previous one are gone. `StopCompletes`: the rotation thread ends after a stop.
* `AdvanceNotLost`: `mAdvanceThread` is exact, and work asked for has an advance job. `PublishedInOrder`: subscribers see the ledgers in order, each validated and complete, without omission below the gap limit. `CompleteSaved`: a ledger in the complete ranges is saved, being saved, or its save failed. `Publishes`: a validated ledger is published in the end, or its pursuit is stopped by an exception or a fetch that failed or was swept.
* `CompleteHasAll`: an acquisition that calls itself complete has every node, unless the ledger is malformed. `DataHasJob`: received packets have exactly one job. `AnswerFinal`: the outcome the server was told does not change. `AcquisitionEnds`: when packets cease to count as progress, each acquisition is answered or swept, but for a failure that the code tells nobody (section 4).

## 4. What the code does not keep

`online_delete_history` is expected to fail (`CompleteHasNodes`). `getFullValidatedRange` promises "Ledgers we have all the nodes for". A rotation clears the ledgers
before the *previous* rotation's sequence number, copies the newest state and drops the archive. The ledger the previous rotation copied, and those whose nodes were stored between that copy and its swap, have nodes
in that archive only: they stay in the complete ranges, without those nodes, until the next rotation. `RowsFollow` and `NodesKept` say what does hold.

`set_race` is expected to fail (`PeerVotesCurrent`: a tracked peer whose set we hold, and whose `mapComplete` has run, is counted as that set says). `giveSet` publishes a set before `mapComplete` gets the master lock. A proposal handled in between puts the set into `mAcquired`, so `mapCompleteInternal` (429-434) returns before the loop that is to
"Adjust tracking for each peer that takes this position", and the peers that took the set before are not counted until they propose again. The run has one ledger, two peers and three sets; the trace has seven states. `PeerVotesCurrentUnlessRace` (section 6) shows that this is the only way.

More disagreements, without a configuration of their own; the constants that differ from a listed one are given.

* Disputes are not complete once we have stopped proposing: `handleLCL` clears the disputes but not `mCompares`, so sets compared before the switch are not compared again, although `haveConsensus` is to "Make sure we have generated disputes". `DisputesCoverDifferences` without `round.proposing` fails in `consensus_round`.
* Losing transactions are not kept after a bow-out: our vote still flips but our position does not; `accept` looks at the vote (1098), and a transaction can be in neither ledger, against "Apply disputed transactions that didn't get in". (It is still in other servers' and the submitter's hands.) `LosersRetried` without `InConsensus(round)` fails in `consensus_round`.
* A job can enter a stopped queue. The comment in `addJob` (136-146) says that "A job may only be added if ... The JobQueue has NOT stopped". The assertion and the insertion are in different critical sections, `Stoppable::onStop` of a child waits for nothing by default, and timers and `io_service` threads are not children: with `Others` as callers `jobSet` is not empty in stopped states.
* A malformed ledger is taken for complete. A node that is out of bounds makes its SHAMap invalid; `takeAsNode` and `takeTxNode` then look only whether the map `isSynching` and, as it is not, set `mHaveState` or `mHaveTransactions`. The tests of `isValid` in `trigger` (523-526, 557-558, 607-610, 634-635), which would set `mFailed`, are in the model and are not reached, because those flags are set first.
* A failure can go untold: when `tryLocal` fails in `init` (122-140) or in a `trigger` that `runData` calls (422-428), neither `done` nor the timer follows, and the acquisition stays in the list until it is swept. `AcquisitionEnds` excepts it.
* Any packet, a repeated one too, counts as progress (1087, 1145), so an acquisition that gets one per interval never times out. `AcquisitionEnds` supposes that this ceases.
* `CorrectLCLMeansIt` fails with `Ledgers = {L0, L1, L2}`, one peer and no proposals: view A (missing), B (present), A again: `mAcquiringLedger` is still A, and `mHaveCorrectLCL` stays true on B.
* `LocalTracked` (a property, not an invariant) fails in `batches` with one client, one relay, one transaction and two submissions: a client's transaction that is already in a batch as a relayed one is not tracked as local, although `LocalTxs.h` is to "Track transactions issued by local clients".

Smaller things met while modelling, which the models have and no property forbids: `consensusBuilt` asks for more than the needed validations where `checkAccept` asks for at least as many; `setFullLedger` marks a ledger complete while its save is pending, and after a synchronous save that failed; a fetch that failed or was swept, or an
exception in the advance job, waits for the next `tryAdvance` (`Publishes` excepts these states, `AdvanceNotLost` those after the exception); a rotation abandoned after `makeBackendRotating` leaves a directory until the next start; a fetch that finds nothing can enter a node that was stored meanwhile into the negative cache.

## 5. Fairness

* `JobQueue`: weak fairness of each worker step, of a caller between the two parts of `addJob`, of each child's stopping and of the stop thread: these are running threads that hold no lock for ever. Nothing obliges anyone to add jobs or to begin a stop.
* `TransactionBatch`: each client, relay and worker that is inside the code goes on, and the job queue runs batch jobs (`JobsRun` of `JobQueue`). Submission, spurious wake-ups and `Stop` are not fair: a client must not depend on them.
* `Validations`: the worker and the polling `flush` go on. Arrival of validations is not fair.
* `LedgerConsensus`: the heartbeat fires again after each instant, time goes on, and the accept job is run. Peers, sets and acquisitions are not fair: `RoundEnds` is about a server everyone may have left. `Punctual` says that time does not jump over a heartbeat, which is the one-second timer against instants seconds apart. The fairness of the heartbeat and of the clock is written out with explicit conditions, which TLC evaluates faster than `ENABLED` of the large action. For the clock it is weak fairness; for the heartbeat it is less: a call is only demanded while one would change the round whatever its inputs are (`TimerActs`), which makes `RoundEnds` stronger.
* `BatchWriter`: the job queue runs the task, the write returns, and a notified thread runs. Stores and the destruction are not fair.
* `SHAMapStore`: the rotation thread and the write tasks run. Nothing obliges ledgers to be validated, nodes to be fetched or the server to restart, and the health checks may fail for ever: `StopCompletes` holds all the same.
* `LedgerMaster`: the advance, fill, save and dispatch jobs run, and an acquisition completes, fails or is swept (`AcquireEnds`): the sweep takes one that was not touched for a minute, whatever became of it. Validations are not fair.
* `InboundLedger`: the timer fires and its job runs (a timer under load re-arms itself, and load passes), and so do the data jobs. Peers are not fair.

## 6. Proofs

TLAPS checks the following, for every value of the constants that satisfies the named assumptions.

**`Validations_proofs`** (from the assumptions on times, nodes and the null values). `TypeCorrect`: `TypeOK` is inductive alone. `WriterCorrect`:
`OneWriter` and `NoStranded`. Their conjunction with `TypeOK` is inductive: that at most one worker is in `doWrite` needs that `mWriting`
is true whenever one is or a job is waiting, and that the stale queue can only be non-empty while it is, since each path that adds to the queue ends in `condWrite`. `PreviousCorrect`: `PreviousIsOlder` with the fact that each current validation is an accepted one of its node; `EntryStep` lists what any step
may do to one node's entry. `QueueRefines` is the refinement `Spec => ImplementsQueue`, from `QueueInv`: `WriterInv` makes the writer's batch unique, a batch being written is not empty (`BatchHeld`), and the mark of `flush` is at most
what has been put (`MarkInv`), so that a `flush` that sees `mWriting` clear returns after everything it waited for is in the table.

**`JobQueue_proofs`** (types are naturals, limits positive, threads finitely many). `JobInv` joins types, the agreement of waiting and running counters with the job set
and the workers, and the accounting of the semaphore: signals plus workers past the semaphore and before `getNextJob` equal the waiting jobs of all types that are
not deferred, and a type has deferred jobs only when its running and signalled jobs exhaust its limit. `RunnableExists` alone is not inductive: a worker takes whatever job comes first, so one must know the total
for all types, and that a finish releases exactly one deferred job. Lemmas `SlotAdded`, `SlotRemoved` and
`SlotsKept` say how each operation changes the set of free slots. `CountersCorrect` and `DispatchCorrect` follow. For `StopCorrect`,
`StopInv` says that once the stop event is set all children have stopped and no job of `legal` waits or runs: `checkStopped` found the set empty and nothing running, and from then on only a job that is itself in `legal` and running could put another one there. What other threads insert does not count, and the queue need not be empty.

**`TransactionBatch_proofs`** (the three kinds of thread are disjoint). `BatchInv` joins `TypeOK`, `OneBatch`, `AppliedOnce`, `BatchNotEmpty`, `NotStranded` with
`ThreadInv` (only a thread in the unlocked middle of `apply` holds a batch, and each kind of thread is only at its own places) and `QueueInv` (something is queued only if a batch is scheduled or running, and scheduled only if something is queued). `BatchNotEmpty`, the
assertion in `apply`, needs `QueueInv`: a batch job that finds the state scheduled finds a queue that is not empty, as a client that empties it first changes
the state. Theorems `BatchesCorrect`, `AppliedOnceCorrect`, `QueueServed`. There is one lemma per action.
`ReturnsCorrect` proves the action property `ReturnsApplied` from `AnswerInv`, inductive relative to `BatchInv`: a client that waits has its transaction in flight or a result for it, and a batch that has been through `apply` has given each of its entries a result. `mApplying` is cleared only with the batch that set it, and by `AppliedOnce` no other batch holds the transaction, so that the loop of `doTransactionSync`, which looks at `mApplying` alone, cannot end early.

**`BatchWriter_proofs`** (no assumption but that the number of stores is a natural; any objects, any workers). `QueueInv` joins `TypeOK`, `OneTask` (tasks and workers in the loop are one at most, `mWritePending` says so, and a
vector that is not empty has one), `BatchesHeld` (a worker holds a batch exactly while it writes it), `LoadIsBatch` (`mWriteLoad` is its size) and `MarkExact` (nothing is stored once the destructor runs, so its mark is the number of objects stored). `TaskCorrect` and `LoadCorrect` follow.
`QueueRefines` is the refinement `Spec => ImplementsQueue`: the pending items are the batch followed by the vector, so `Store` is a `Put` (`PutStep`, from `AppendKeeps`), `TaskWrite` a `Write` of the prefix that is the batch (`WriteStep`), taking a batch a stutter (`TakeStutters`), `Destroy` a `Wait`, and a
destructor that finds `mWritePending` clear a `Return` (`ReturnStep`). The last needs `OneTask` and `MarkExact`: without a task there is no batch and the vector is empty, so the backend holds everything the mark counts.

**`LedgerConsensus_proofs`** (`RoundAssumption`: finitely many peers, positions are sets of transactions, times and sequence numbers naturals; no bound on peers, ledgers, transactions, proposals or instants is used). The handlers are compositions of operators from a
round to a round, and the proof follows them: one lemma per operator says what it keeps for any round (`SetVoteCounted` to `TimerOK`), one lemma per action puts them together. `ConsensusInv` joins, about the round, `VotesOK` (counters exact, voters tracked), `OurVotes` and `OursHeld` (our votes are those of our set, which we hold; we
have a position exactly when the ledger is closed), `InSync` (a proposing server never left its first ledger) and `StillCovered`, and beside it `SentOK` (the i-th broadcast has number i - 1 unless it is the bow-out), `JobOK` (while the accept job waits the round is finished, so the heartbeat leaves it alone) and
`TrackOK`. Exact counters need the votes as a function of the peers and cardinalities of their disjoint parts (`HoldingSplit`, `HoldingRecorded`). `VotersTracked` is inductive only together with them. `OurVotes` survives `updateOurPositions` because the transactions whose vote flips are exactly those put into or taken out of the position.
Theorems: `VotesCountedCorrect`, `VotersTrackedCorrect`, `VoteMatchesPositionCorrect`, `DisputesCoverCorrect` (`StillCovered` is about a server that proposes; it survives `handleLCL` because the switch ends proposing) and `LosersRetriedCorrect`, all without conditions. The code does not keep `PeerVotesCurrent`;
`PeerVotesCurrentUnlessRace` proves it for every behaviour in which no set is acquired between its `giveSet` and its `mapComplete` (`MapCompleteFirst`), from `TrackOK`: a set that a tracked peer takes and that has been reported is in `mAcquired`, so that `peerPosition` is never the one to acquire it for somebody else.
`ProposingInSyncCorrect` has the condition that fewer than `seqLeave` (2^32 - 1 in the code) broadcasts preceded the last: a position that counted up to that number would look like a bow-out and be followed by a real one with the same number.
`RoundTypeCorrect`: `TypeOK` of the round is not inductive alone, since `playbackProposals` enters a stored proposal under the peer it is filed for while the type of a position names the peer that made it. `TypeInv` adds `Filed` (a stored proposal is filed under its own peer); there is one `...Typed` lemma per operator.

*The close time vote* is in the same module, because the round and the chain share it. The loop is a fold, and induction over data is out of reach of the prover in its general form; what is used instead is a smallest counterexample. `Walked` gives the accumulator in closed form for each set of times (best count, latest time with it, whether the share for consensus was met), the lemmas on it show that it satisfies the recursion by which the
fold is defined, and `SmallestSet` (every non-empty collection of finite sets has a smallest member, from the well-foundedness of strict inclusion) excludes a set on which the two differ. `VoteOutcome` is the result: what the vote yields for any participants, votes and weight. From it, for `ChainSpec` with `ReportsAssumption` alone: `VoteCorrect`; `StagesCorrect` (the leading time does not
depend on the stage, and a zero that settles has a majority, so it leads; the share for consensus itself, 75 % rounded by `participantsNeeded`, is only half of two participants and would not exclude a second time); `StampCorrect` (rounding a rounded time changes nothing, and rounding moves a time by at most half a resolution); `ChainTypeCorrect` (the resolution stays in the table). For the round, `CloseTimeSupportedCorrect`: `stateEstablish` finishes only with `mHaveCloseTimeConsensus` set, which is the outcome of the vote of the same timer call;
the resolution is that of the ledger worked from (an invariant: `handleLCL` recomputes it with each switch, before the vote); the time it settled on has the share for consensus, which is never less than half (`SettledShare`), or zero has more than that; our position, if it moved, moved to that time, and the peers that count as behind it are those whose votes were added up.

**`InboundLedger_proofs`** (header, state and transaction nodes are disjoint, the store starts with any of them; finitely many threads). `AcquireInv` joins `TypeOK`, `Honest` (each flag says only what the node store confirms, unless the ledger is malformed, a map is full only when its nodes are there, and never both complete and failed), `SearchesHold` (the
outcome of a search without the lock is still true when the lock is back, since nodes only arrive), `LoopHasData`, `EndIsReal` (the end is dispatched and told only of an acquisition that ended) and `Fresh` (nothing happens before `acquire`). `CompleteCorrect` and the action property of `AnswerCorrect` follow: no path changes the flags of an acquisition
that is done. `DataCorrect` is inductive relative to it: a packet is received, taken and found missing under one lock, so the threads in the loop and the queued jobs are together one exactly when `mReceiveDispatched` is set.

**`LedgerMaster_proofs`** (`ChainAssumption`, `SettingsAssumption`: sequence numbers and settings are naturals, what an earlier run left lies below the first ledger of this one). First `RangeSet`: what `setValue`, `setRange`, `clearValue` and `simplify` do to the members of a canonical set of ranges, with the value that `setRange` leaves out. `MasterInv` joins `TypeOK`, `JobInv` (`mAdvanceThread`
says whether the one job is queued or runs, work has a job), `FillInv` (`tryFill` walks down through ledgers that are saved), `CompleteInv` (the ranges are canonical and their members saved, being saved or lost to a failed save), `ChainInv` (published, validated and built numbers are in order) and `StreamInv` (the list of the advance job follows the last published ledger, or was taken across a gap).
Theorems `AdvanceCorrect`, `CompleteCorrect`, `PublishCorrect` (an action property).

**`SHAMapStore_proofs`** (`StoreAssumption`; any number of ledgers, rotations, crashes, readers and directories). `StoreInv` joins `TypeOK`, `NamesInv` (the saved names are two directories that exist, at each place of `run()`, and which of them the open backends are while they are exchanged), `SqlInv` (rows once written stay while their ledger is not before the saved rotation, and what is left to delete at each place of `run()`), `BuilderInv` (a store under way aims at one of the
two), `LedgersInv` (every node of a kept ledger is in one of the two named databases, also while the server is down), `CopyInv` (how much of the newest ledgers the writable backend holds at each stage of a rotation: all, when the exchange begins) and `FetchInv` (a node that is kept is where the fetch looks next). `NodesKept` needs `CopyInv` because the exchange
drops the archive: everything kept from then on must have been copied or stored into the backend that survives. Theorems `StartCorrect`, `SqlCorrect`, `NodesCorrect`, `FetchCorrect`.

Only model-checked: all liveness (`Drains`, `RoundEnds`, `JobsRun`, `StopCompletes`, `ClientsAnswered`, `Publishes`, `AcquisitionEnds`: fairness and `ENABLED` are beyond the prover). Every other property of a passing run is a theorem.

## 7. Plan

Done, in this order: `Validations`, the round with its rules and disputes, `CloseTime`, `JobQueue`, `TransactionBatch`, `WriteBehind` with `BatchWriter`, `SHAMapStore`, `LedgerMaster` with `RangeSet`, `InboundLedger`, and the proofs above. Next, in order of importance:

1. LedgerMaster and online deletion over one set of complete ledgers: `tryFill` against `clearPriorLedgers`.
2. Operating mode, heartbeat and choice of the last closed ledger (`NetworkOPs.cpp` 540-589, 1172-1661), composed with the round's life cycle.
3. Several servers composed from `LedgerConsensus`, with validations between them.
