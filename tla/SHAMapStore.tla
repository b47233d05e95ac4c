----------------------------- MODULE SHAMapStore -----------------------------
(***************************************************************************)
(* Online deletion (src/ripple/app/misc/SHAMapStoreImp.cpp) over the       *)
(* rotating node store (src/ripple/nodestore/impl/DatabaseRotatingImp.cpp  *)
(* and DatabaseImp.h).                                                     *)
(*                                                                         *)
(* The actors are the rotation thread (run), a thread that builds ledgers  *)
(* and stores their new nodes, threads that fetch nodes, the task that     *)
(* writes out a backend's batch, and the operator, who may stop the server *)
(* or crash it between any two steps.  A ledger is its state map, a set of *)
(* nodes; ledgers are validated in sequence.                               *)
(*                                                                         *)
(* A health check is part of the step before it: it reads state that the   *)
(* step does not change; what it finds (operating mode, age of the         *)
(* validated ledger) is arbitrary.  A fetch from one backend is one step.  *)
(* The entries of the node store's caches age with time, so what a cache   *)
(* holds when it is looked at is arbitrary too; a fetch that a cache       *)
(* answers touches no backend and is not an action here.                   *)
(***************************************************************************)
EXTENDS Naturals, FiniteSets

CONSTANTS
  Nodes,                \* hashes of nodes
  StateMap,             \* ledger sequence -> nodes of its state map
  Readers,              \* threads that fetch
  Dirs,                 \* names that unique_path can return
  deleteInterval,       \* setup_.deleteInterval
  deleteBatch,          \* setup_.deleteBatch
  Configs,              \* pairs <<batched, advisoryDelete>>
  CanDeletes,           \* arguments of the RPC command can_delete
  SaveFails,            \* bound: ledgers whose save may fail, and
  MaxCrashes,           \*   crashes and restarts, without and with batches
  MaxUnsaved            \* bound: ledgers validated and not yet saved

LastSeq == Cardinality(DOMAIN StateMap)
None == 0

ASSUME StoreAssumption ==
  /\ LastSeq \in Nat /\ StateMap \in [1 .. LastSeq -> SUBSET Nodes]
  /\ Dirs \subseteq Nat \ {None}
  /\ deleteInterval \in Nat \ {0} /\ deleteBatch \in Nat \ {0}
  /\ MaxCrashes \in [BOOLEAN -> Nat] /\ MaxUnsaved \in Nat
  /\ Configs \subseteq BOOLEAN \X BOOLEAN /\ CanDeletes \subseteq 0 .. LastSeq

VARIABLES
  \* configuration
  batched,          \* RocksDB collects stores in a BatchWriter, RocksDBQuick
                    \* writes at once
  advisoryDelete,   \* setup_.advisoryDelete
  \* on disk
  disk,             \* directories "rippledb.*" and the nodes they hold
  state_db,         \* SavedStateDB: the rows of DbState and CanDelete
  sql,              \* ledgers in the SQLite tables
  \* the node store
  writableBackend,  \* names of the open backends
  archiveBackend,
  pending,          \* per directory: stored and not yet written
  \* SHAMapStoreImp
  pc,               \* where run() is
  lastRotated,      \* local of run()
  canDelete,        \* canDelete_
  newLedger,        \* newLedger_
  validatedLedger,  \* validatedLedger_
  healthy,          \* healthy_
  stop,             \* stop_
  toCopy,           \* nodes visitNodes or freshenCache has still to visit
  backends,         \* newBackend and oldBackend, locals of run()
  \* the rest of the server
  complete,         \* LedgerMaster::mCompleteLedgers
  validated,        \* sequence of the last validated ledger
  published,        \* the last ledger setFullLedger was called for
  saving,           \* ledgers whose save is pending
  saved,            \* history: ledgers that were saved,
  late,             \*   and those saved when a rotation was past them
  builder,          \* the ledger builder: nodes left to store, and the store
                    \* that is in progress
  reader,           \* per reader: its fetch
  crashes           \* history: number of crashes

config == <<batched, advisoryDelete>>
nodeStore == <<writableBackend, archiveBackend, pending>>
thread == <<pc, lastRotated, validatedLedger, healthy, toCopy,
            backends>>
saves == <<published, saving, saved, late>>
server == <<complete, validated, saves, builder, reader, crashes>>
vars == <<config, disk, state_db, sql, nodeStore, thread, canDelete,
          newLedger, stop, server>>

NoFetch == [at |-> "idle", node |-> None, held |-> FALSE]
NoBackends == [new |-> None, old |-> None]
Locked == pc \in {"rotating", "swapping"}   \* run() holds rotateMutex_
Rotating == {"clearPrior", "clearSql", "cleared", "copy", "copied", "freshen",
             "fresh", "newBackend", "save", "rotating", "swapping"}
Running == pc \notin {"down", "make", "setState", "error"}

TypeOK ==
  /\ config \in Configs
  /\ DOMAIN disk \subseteq Dirs
  /\ {disk, pending} \subseteq [DOMAIN disk -> SUBSET Nodes]
  /\ state_db \in [writableDb : Dirs \cup {None}, archiveDb : Dirs \cup {None},
                   lastRotated : 0 .. LastSeq, canDelete : 0 .. LastSeq]
  /\ UNION {sql, complete, saving, saved, late} \subseteq 1 .. LastSeq
  /\ {writableBackend, archiveBackend} \subseteq Dirs \cup {None}
  /\ pc \in {"down", "make", "setState", "error", "top", "waiting", "woken",
             "stopped"} \cup Rotating \cup {"delete"}
  /\ toCopy \subseteq Nodes
  /\ {lastRotated, canDelete, newLedger, validatedLedger, validated,
      published} \subseteq 0 .. LastSeq
  /\ {healthy, stop} \subseteq BOOLEAN
  /\ backends \in [new : Dirs \cup {None}, old : Dirs \cup {None}]
  /\ builder \in [unsaved : SUBSET Nodes, target : Dirs \cup {None}]
  /\ reader \in [Readers -> {NoFetch} \cup
                   [at : {"writable", "archive", "store", "recheck"},
                    node : Nodes, held : BOOLEAN]]
  /\ crashes \in 0 .. MaxCrashes[batched]

-----------------------------------------------------------------------------
(* Backends.  A node that waits in a BatchWriter is not seen by fetch.     *)

Holds(d, n) == n \in disk[d] \cup pending[d]

(* store of a backend *)
BackendStore(d, n) ==
  IF batched
    THEN /\ pending' = [pending EXCEPT ![d] = @ \cup {n}]
         /\ UNCHANGED disk
    ELSE /\ disk' = [disk EXCEPT ![d] = @ \cup {n}]
         /\ UNCHANGED pending

(* The task of a BatchWriter. *)
WriteBatch(d) ==
  /\ pending[d] # {}
  /\ disk' = [disk EXCEPT ![d] = @ \cup pending[d]]
  /\ pending' = [pending EXCEPT ![d] = {}]
  /\ UNCHANGED <<config, state_db, sql, writableBackend, archiveBackend,
                 thread, canDelete, newLedger, stop,
                 server>>

(* A directory that does not exist; which one makes no difference. *)
Fresh == Dirs \ DOMAIN disk
FreshDir == CHOOSE d \in Fresh : TRUE

(* Directories added and removed. *)
WithDirs(f, ds) == [d \in DOMAIN f \cup ds |-> IF d \in ds THEN {} ELSE f[d]]
WithoutDirs(f, ds) == [d \in DOMAIN f \ ds |-> f[d]]

(* fetchNode: only the rotation thread itself exchanges the backends, so   *)
(* for this caller the whole fetch is one step.                            *)
FetchNode(n) ==
  IF n \notin disk[writableBackend] /\ n \in disk[archiveBackend]
    THEN BackendStore(writableBackend, n)
    ELSE UNCHANGED <<disk, pending>>

-----------------------------------------------------------------------------
(* The rotation thread. *)

(* Mutant: a later check forgets that an earlier one failed. *)
HealthForgetful(ok, bad) ==
  \E fine \in BOOLEAN :
    /\ healthy' = fine
    /\ pc' = IF ~stop /\ fine THEN ok ELSE bad

(* health(), with the place to go on from and the place to go when the     *)
(* server is not healthy.                                                  *)
Health(ok, bad) ==
  \E fine \in BOOLEAN :
    /\ healthy' = (healthy /\ (fine \/ stop))
    /\ pc' = IF ~stop /\ healthy /\ fine THEN ok ELSE bad

(* The switch on health() between the parts of run(). *)
HealthSwitch(ok) == Health(ok, IF stop THEN "stopped" ELSE "top")

(* Mutant: stop_ is not looked at before waiting. *)
TopNoStop ==
  /\ pc = "top"
  /\ pc' = "waiting"
  /\ healthy' = TRUE
  /\ validatedLedger' = None

(* The top of the loop, up to the wait on the condition variable. *)
TopStep ==
  /\ pc = "top"
  /\ pc' = IF stop THEN "stopped" ELSE "waiting"
  /\ healthy' = TRUE
  /\ validatedLedger' = None

Top ==
  /\ TopStep
  /\ UNCHANGED <<config, disk, state_db, sql, nodeStore, lastRotated, toCopy,
                 backends, canDelete, newLedger, stop, server>>

(* The condition to rotate. *)
ShouldRotate(seq, last) ==
  seq >= last + deleteInterval /\ canDelete >= last - 1

(* After the wait: take the ledger, remember the first one that is seen,   *)
(* and decide whether to rotate.  An interval between rotations is at      *)
(* least 256 ledgers: the batch of a backend is written long before the    *)
(* next one.  The bound on directories ends rotations when each aborted    *)
(* one left a directory.                                                   *)
TakeLedger ==
  /\ pc = "woken"
  /\ pending[archiveBackend] = {}
  /\ newLedger # None
  /\ validatedLedger' = newLedger
  /\ newLedger' = None
  /\ lastRotated' = IF lastRotated = 0 THEN newLedger ELSE lastRotated
  /\ state_db' = [state_db EXCEPT !.lastRotated =
                    IF lastRotated = 0 THEN newLedger ELSE @]
  /\ IF ShouldRotate(newLedger, lastRotated') /\ Fresh # {}
       THEN HealthSwitch("clearPrior")
       ELSE pc' = "top" /\ UNCHANGED healthy
  /\ UNCHANGED <<config, disk, sql, nodeStore, toCopy, backends,
                 canDelete, stop, server>>

WakeWithoutLedger ==
  /\ pc = "woken"
  /\ newLedger = None
  /\ pc' = "top"
  /\ UNCHANGED <<config, disk, state_db, sql, nodeStore, lastRotated,
                 validatedLedger, healthy, toCopy, backends,
                 canDelete, newLedger, stop, server>>

(* clearPrior: LedgerMaster::clearPriorLedgers on the range of complete    *)
(* ledgers, then the tables.                                               *)
ClearPrior ==
  /\ pc = "clearPrior"
  /\ complete' = {s \in complete : s >= lastRotated}
  /\ Health("clearSql", "cleared")
  /\ UNCHANGED <<config, disk, state_db, sql, nodeStore, lastRotated,
                 validatedLedger, toCopy, backends, canDelete,
                 newLedger, stop, validated, saves, builder, reader, crashes>>

(* Mutant: everything before the ledger that is copied goes. *)
RowsAfterCopied ==
  {s \in sql : \/ s >= validatedLedger
               \/ \E t \in sql : s >= t + deleteBatch}

(* What one DELETE leaves. *)
RowsAfter ==
  {s \in sql : \/ s >= lastRotated
               \/ \E t \in sql : s >= t + deleteBatch}

(* clearSql: one DELETE of at most deleteBatch ledgers. *)
ClearSql ==
  /\ pc = "clearSql"
  /\ sql' = RowsAfter
  /\ Health(IF \E s \in sql' : s < lastRotated THEN "clearSql" ELSE "cleared",
            "cleared")
  /\ UNCHANGED <<config, disk, state_db, nodeStore, lastRotated,
                 validatedLedger, toCopy, backends, canDelete,
                 newLedger, stop, server>>

Cleared ==
  /\ pc = "cleared"
  /\ HealthSwitch("copy")
  /\ toCopy' = StateMap[validatedLedger]
  /\ UNCHANGED <<config, disk, state_db, sql, nodeStore, lastRotated,
                 validatedLedger, backends, canDelete, newLedger, stop,
                 server>>

(* copyNode on one node of the state map, freshenCache on one key of a     *)
(* cache: every checkHealthInterval_-th visit asks for the health, and     *)
(* leaves the loop when it is not good.  Which visits those are is         *)
(* arbitrary.                                                              *)
Visit(here, done) ==
  /\ pc = here
  /\ toCopy # {}
  /\ \E n \in {CHOOSE x \in toCopy : TRUE} :
       /\ FetchNode(n)
       /\ toCopy' = toCopy \ {n}
  /\ \/ Health(IF toCopy' = {} THEN done ELSE here, done)
     \/ /\ pc' = IF toCopy' = {} THEN done ELSE here
        /\ UNCHANGED healthy
  /\ UNCHANGED <<config, state_db, sql, writableBackend, archiveBackend,
                 lastRotated, validatedLedger, backends, canDelete,
                 newLedger, stop, server>>

NothingToVisit ==
  /\ pc = "freshen"
  /\ toCopy = {}
  /\ pc' = "fresh"
  /\ UNCHANGED <<config, disk, state_db, sql, nodeStore, lastRotated,
                 validatedLedger, healthy, toCopy, backends,
                 canDelete, newLedger, stop, server>>

CopyNode == Visit("copy", "copied")
FreshenCaches == Visit("freshen", "fresh") \/ NothingToVisit

(* The keys of the three caches: none, or all. *)
Copied ==
  /\ pc = "copied"
  /\ HealthSwitch("freshen")
  /\ \E keys \in {{}, Nodes} : toCopy' = keys
  /\ UNCHANGED <<config, disk, state_db, sql, nodeStore, lastRotated,
                 validatedLedger, backends, canDelete, newLedger, stop,
                 server>>

Freshened ==
  /\ pc = "fresh"
  /\ HealthSwitch("newBackend")
  /\ UNCHANGED <<config, disk, state_db, sql, nodeStore, lastRotated,
                 validatedLedger, toCopy, backends, canDelete,
                 newLedger, stop, server>>

(* makeBackendRotating and the first clearCaches.  When the check fails    *)
(* the backend is closed and its directory stays on disk.                  *)
NewBackend ==
  /\ pc = "newBackend"
  /\ disk' = WithDirs(disk, {FreshDir})
  /\ pending' = WithDirs(pending, {FreshDir})
  /\ HealthSwitch("save")
  /\ backends' = IF pc' = "save" THEN [new |-> FreshDir, old |-> None]
                                 ELSE NoBackends
  /\ UNCHANGED <<config, state_db, sql, writableBackend, archiveBackend,
                 lastRotated, validatedLedger, toCopy,
                 canDelete, newLedger, stop, server>>

(* The nodes of the ledgers that a rotation at ledger last keeps. *)
Kept(last) == UNION {StateMap[s] : s \in {q \in 1 .. validated : q >= last}}

(* Mutant: only the sequence is saved. *)
SavedNamesKept ==
  [state_db EXCEPT !.lastRotated = validatedLedger]

(* setState with the names after the rotation. *)
SavedAfterRotation ==
  [state_db EXCEPT !.writableDb = backends.new,
                   !.archiveDb = writableBackend,
                   !.lastRotated = validatedLedger]

(* Under rotateMutex_: save the new state, then rotateBackends, which      *)
(* assigns one member after the other.  clearCaches touches no state here. *)
Save ==
  /\ pc = "save"
  /\ lastRotated' = validatedLedger
  /\ state_db' = SavedAfterRotation
  /\ pc' = "rotating"
  /\ reader' = [r \in Readers |->
                  [reader[r] EXCEPT !.held =
                     @ /\ reader[r].node \in Kept(validatedLedger)]]
  /\ UNCHANGED <<config, disk, sql, nodeStore, validatedLedger, healthy,
                 toCopy, backends, canDelete, newLedger, stop, complete,
                 validated, saves, builder, crashes>>

(* rotateBackends *)
RotateBackends ==
  \/ /\ pc = "rotating"
     /\ pc' = "swapping"
     /\ archiveBackend' = writableBackend
     /\ backends' = [backends EXCEPT !.old = archiveBackend]
     /\ UNCHANGED writableBackend
  \/ /\ pc = "swapping"
     /\ pc' = "delete"
     /\ writableBackend' = backends.new
     /\ UNCHANGED <<archiveBackend, backends>>

Rotate ==
  /\ RotateBackends
  /\ UNCHANGED <<config, disk, state_db, sql, pending, lastRotated,
                 validatedLedger, healthy, toCopy, canDelete, newLedger, stop,
                 server>>

(* setDeletePath, and the last reference to the old backend goes away. *)
DeleteOld ==
  /\ pc = "delete"
  /\ disk' = WithoutDirs(disk, {backends.old})
  /\ pending' = WithoutDirs(pending, {backends.old})
  /\ backends' = NoBackends
  /\ pc' = "top"
  /\ UNCHANGED <<config, state_db, sql, writableBackend, archiveBackend,
                 lastRotated, validatedLedger, healthy,
                 toCopy, canDelete, newLedger, stop, server>>

RotationThread ==
  \/ Top \/ TakeLedger \/ WakeWithoutLedger \/ ClearPrior \/ ClearSql
  \/ Cleared \/ CopyNode \/ Copied \/ FreshenCaches \/ Freshened
  \/ NewBackend \/ Save \/ Rotate \/ DeleteOld

-----------------------------------------------------------------------------
(* The rest of the server. *)

NewNodes(s) ==
  IF s > LastSeq THEN {}
  ELSE IF s = 1 THEN StateMap[1] ELSE StateMap[s] \ StateMap[s - 1]

(* DatabaseImp::store: the reference to the writable backend is taken      *)
(* under the lock and used without it.                                     *)
StoreBegin ==
  /\ Running /\ ~Locked
  /\ builder.target = None /\ builder.unsaved # {}
  /\ builder' = [builder EXCEPT !.target = writableBackend]
  /\ UNCHANGED <<config, disk, state_db, sql, writableBackend, archiveBackend,
                 pending, thread, canDelete, newLedger, stop,
                 complete, validated, saves, reader, crashes>>

StoreEnd ==
  /\ builder.target # None
  /\ \E n \in {CHOOSE x \in builder.unsaved : TRUE} :
       /\ BackendStore(builder.target, n)
       /\ builder' = [unsaved |-> builder.unsaved \ {n}, target |-> None]
  /\ UNCHANGED <<config, state_db, sql, writableBackend, archiveBackend,
                 thread, canDelete, newLedger, stop,
                 complete, validated, saves, reader, crashes>>

(* A ledger whose nodes are stored is validated: setValidLedger calls      *)
(* onLedgerClosed, before the ledger is published and saved.               *)
OnLedgerClosed ==
  /\ Running /\ ~stop
  /\ builder.unsaved = {} /\ validated < LastSeq
  /\ (validated - published) + Cardinality(saving) < MaxUnsaved
  /\ validated' = validated + 1
  /\ builder' = [builder EXCEPT !.unsaved = NewNodes(validated' + 1)]
  /\ newLedger' = validated'
  /\ pc' = IF pc = "waiting" THEN "woken" ELSE pc
  /\ UNCHANGED <<config, disk, state_db, sql, nodeStore, lastRotated,
                 validatedLedger, healthy, toCopy, backends, canDelete, stop,
                 complete, saves, reader, crashes>>

(* setFullLedger, on the advance thread: pendSaveValidated begins the save *)
(* and the ledger is marked complete, whether the save is pending, done or *)
(* failed by then.                                                         *)
SetFullLedger ==
  /\ Running
  /\ published < validated
  /\ published' = published + 1
  /\ saving' = saving \cup {published'}
  /\ complete' = complete \cup {published'}
  /\ UNCHANGED <<config, disk, state_db, sql, nodeStore, thread, canDelete,
                 newLedger, stop, validated, saved, late, builder, reader,
                 crashes>>

(* saveValidatedLedger: the rows are written; or failedSave takes the      *)
(* ledger from the complete ones, unless it is marked only afterwards.     *)
SaveLedger(s) ==
  /\ s \in saving
  /\ saving' = saving \ {s}
  /\ \/ /\ sql' = sql \cup {s}
        /\ saved' = saved \cup {s}
        /\ late' = IF s < state_db.lastRotated THEN late \cup {s} ELSE late
        /\ UNCHANGED complete
     \/ /\ s \in SaveFails[batched]
        /\ complete' \in {complete, complete \ {s}}
        /\ UNCHANGED <<sql, saved, late>>
  /\ UNCHANGED <<config, disk, state_db, nodeStore, thread, canDelete,
                 newLedger, stop, validated, published, builder, reader,
                 crashes>>

(* doFetch and fetchFrom of the rotating database.  Each use of a backend  *)
(* reads the member again: getBackends returns references.  held records   *)
(* that the node has belonged to a ledger the store keeps ever since the   *)
(* fetch began.                                                            *)
FetchBegin(r, n) ==
  /\ Running /\ ~Locked
  /\ reader[r].at = "idle"
  /\ reader' = [reader EXCEPT ![r] = [at |-> "writable", node |-> n,
                                      held |-> n \in Kept(state_db.lastRotated)]]
  /\ UNCHANGED <<config, disk, state_db, sql, nodeStore, thread, canDelete,
                 newLedger, stop, complete, validated, saves, builder,
                 crashes>>

Goto(r, at) == reader' = [reader EXCEPT ![r].at = at]
Return(r) == reader' = [reader EXCEPT ![r] = NoFetch]

(* Mutant: the archive is read first. *)
BackendAtSwapped(at) ==
  IF at = "writable" THEN archiveBackend ELSE writableBackend

(* The backend a fetch reads: the writable one first. *)
BackendAt(at) == IF at = "writable" THEN writableBackend ELSE archiveBackend

FetchWritable(r) ==
  /\ reader[r].at = "writable"
  /\ IF reader[r].node \in disk[BackendAt("writable")]
       THEN Return(r) ELSE Goto(r, "archive")
  /\ UNCHANGED <<config, disk, state_db, sql, writableBackend, archiveBackend,
                 pending, thread, canDelete, newLedger, stop,
                 complete, validated, saves, builder, crashes>>

FetchArchive(r) ==
  /\ reader[r].at = "archive"
  /\ Goto(r, IF reader[r].node \in disk[BackendAt("archive")] THEN "store"
                                                              ELSE "recheck")
  /\ UNCHANGED <<config, disk, state_db, sql, nodeStore, thread, canDelete,
                 newLedger, stop, complete, validated, saves, builder,
                 crashes>>

FetchStore(r) ==
  /\ reader[r].at = "store" /\ ~Locked
  /\ BackendStore(writableBackend, reader[r].node)
  /\ Return(r)
  /\ UNCHANGED <<config, state_db, sql, writableBackend, archiveBackend,
                 thread, canDelete, newLedger, stop,
                 complete, validated, saves, builder, crashes>>

(* The positive cache once more, and the entry in the negative cache. *)
FetchGiveUp(r) ==
  /\ reader[r].at = "recheck"
  /\ Return(r)
  /\ UNCHANGED <<config, disk, state_db, sql, nodeStore, thread, canDelete,
                 newLedger, stop, complete, validated, saves, builder, crashes>>

(* setCanDelete, from the RPC command can_delete. *)
SetCanDelete(seq) ==
  /\ Running /\ advisoryDelete
  /\ canDelete' = seq
  /\ state_db' = [state_db EXCEPT !.canDelete = seq]
  /\ UNCHANGED <<config, disk, sql, nodeStore, thread, newLedger, stop,
                 server>>

(* onStop *)
OnStop ==
  /\ Running /\ ~stop
  /\ stop' = TRUE
  /\ pc' = IF pc = "waiting" THEN "woken" ELSE pc
  /\ UNCHANGED <<config, disk, state_db, sql, nodeStore, lastRotated,
                 validatedLedger, healthy, toCopy, backends,
                 canDelete, newLedger, server>>

-----------------------------------------------------------------------------
(* End of the process, and the next start. *)

MemoryLost ==
  /\ pc' = "down"
  /\ writableBackend' = None /\ archiveBackend' = None
  /\ pending' = [d \in DOMAIN disk |-> {}]
  /\ lastRotated' = 0 /\ canDelete' = 0 /\ newLedger' = None
  /\ validatedLedger' = None /\ healthy' = TRUE /\ stop' = FALSE
  /\ toCopy' = {} /\ backends' = NoBackends
  /\ complete' = {} /\ saving' = {}
  /\ builder' = [unsaved |-> NewNodes(validated + 1), target |-> None]
  /\ reader' = [r \in Readers |-> NoFetch]
  /\ UNCHANGED <<config, state_db, sql, validated, published, saved, late>>

Crash ==
  /\ pc \notin {"down", "error"} /\ crashes < MaxCrashes[batched]
  /\ crashes' = crashes + 1
  /\ UNCHANGED disk
  /\ MemoryLost

(* The destructor of a backend closes the database before the member that  *)
(* holds its batch waits for the batch: a batch still pending is written   *)
(* in time or lost.                                                        *)
Exit ==
  /\ pc = "stopped" /\ crashes < MaxCrashes[batched]
  /\ crashes' = crashes + 1
  /\ \E inTime \in BOOLEAN :
       disk' = [d \in DOMAIN disk |->
                  disk[d] \cup (IF inTime THEN pending[d] ELSE {})]
  /\ MemoryLost

(* The constructor: dbPaths removes the directories that the saved state   *)
(* does not name, and throws when one that it names is missing.            *)
Named == {state_db.writableDb, state_db.archiveDb} \ {None}
DbPaths ==
  /\ pc = "down"
  /\ disk' = WithoutDirs(disk, DOMAIN disk \ Named)
  /\ pending' = WithoutDirs(pending, DOMAIN disk \ Named)
  /\ pc' = IF Named \subseteq DOMAIN disk
                /\ (state_db.writableDb = None <=> state_db.archiveDb = None)
             THEN "make" ELSE "error"
  /\ UNCHANGED <<config, state_db, sql, writableBackend, archiveBackend,
                 lastRotated, validatedLedger, healthy,
                 toCopy, backends, canDelete, newLedger, stop,
                 server>>

(* makeDatabase: open the two backends, or create two on the first start. *)
OpenBackends ==
  /\ pc = "make" /\ Named # {}
  /\ writableBackend' = state_db.writableDb
  /\ archiveBackend' = state_db.archiveDb
  /\ pc' = "setState"
  /\ UNCHANGED <<disk, pending>>

CreateBackends ==
  /\ pc = "make" /\ Named = {}
  /\ \E d, e \in Fresh :
       /\ d < e /\ \A x \in Fresh : x = d \/ x >= e
       /\ writableBackend' = d
       /\ archiveBackend' = e
       /\ disk' = WithDirs(disk, {d, e})
       /\ pending' = WithDirs(pending, {d, e})
  /\ pc' = "setState"

MakeDatabase ==
  /\ OpenBackends \/ CreateBackends
  /\ UNCHANGED <<config, state_db, sql, lastRotated,
                 validatedLedger, healthy, toCopy, backends,
                 canDelete, newLedger, stop, server>>

(* The end of makeDatabase, and the start of run(). *)
StartRun ==
  /\ pc = "setState"
  /\ state_db' = IF state_db.writableDb # None THEN state_db
                 ELSE [state_db EXCEPT !.writableDb = writableBackend,
                                       !.archiveDb = archiveBackend]
  /\ lastRotated' = state_db.lastRotated
  /\ canDelete' = IF advisoryDelete THEN state_db.canDelete ELSE LastSeq
  /\ pc' = "top"
  /\ UNCHANGED <<config, disk, sql, nodeStore, validatedLedger, healthy,
                 toCopy, backends, newLedger, stop, server>>

-----------------------------------------------------------------------------
Init ==
  /\ \E c \in Configs : batched = c[1] /\ advisoryDelete = c[2]
  /\ disk = [d \in {} |-> {}]
  /\ pending = [d \in {} |-> {}]
  /\ state_db = [writableDb |-> None, archiveDb |-> None, lastRotated |-> 0,
                 canDelete |-> 0]
  /\ sql = {} /\ complete = {} /\ validated = 0
  /\ published = 0 /\ saving = {} /\ saved = {} /\ late = {}
  /\ writableBackend = None /\ archiveBackend = None
  /\ pc = "down" /\ lastRotated = 0 /\ canDelete = 0 /\ newLedger = None
  /\ validatedLedger = None /\ healthy = TRUE /\ stop = FALSE
  /\ toCopy = {} /\ backends = NoBackends
  /\ builder = [unsaved |-> NewNodes(1), target |-> None]
  /\ reader = [r \in Readers |-> NoFetch]
  /\ crashes = 0

Startup == DbPaths \/ MakeDatabase \/ StartRun

Fetching(r) ==
  \/ FetchWritable(r) \/ FetchArchive(r) \/ FetchStore(r)
  \/ FetchGiveUp(r)

Next ==
  \/ RotationThread
  \/ StoreBegin \/ StoreEnd \/ OnLedgerClosed
  \/ SetFullLedger \/ \E s \in saving : SaveLedger(s)
  \/ \E r \in Readers : Fetching(r) \/ \E n \in Nodes : FetchBegin(r, n)
  \/ \E d \in DOMAIN disk : WriteBatch(d)
  \/ \E seq \in CanDeletes : SetCanDelete(seq)
  \/ OnStop \/ Exit \/ Crash \/ Startup

(* The rotation thread and the tasks that write batches are scheduled. *)
Spec ==
  /\ Init /\ [][Next]_vars
  /\ WF_vars(RotationThread)
  /\ WF_vars(\E d \in DOMAIN disk : WriteBatch(d))

-----------------------------------------------------------------------------
(* Every crash leaves a state from which the server starts: the directories*)
(* the saved state names exist, at whatever step of a rotation or of a     *)
(* start the process ended ("state db error" is never thrown).             *)
StartSucceeds == pc # "error"

(* No node of a ledger since the last rotation is lost: it is in one of    *)
(* the two backends, whatever checks aborted a copy, whatever was stored   *)
(* through a reference taken before a rotation, and, unless the backend    *)
(* batches its writes, whenever the server crashed.                        *)
NodesKept ==
  Running /\ (batched => crashes = 0) =>
    \A n \in Kept(state_db.lastRotated) :
      Holds(writableBackend, n) \/ Holds(archiveBackend, n)

(* A fetch that goes to the backends finds a node that the store kept      *)
(* before, during and after the fetch, although it reads the writable      *)
(* backend before and the archive after a rotation.                        *)
FetchFinds ==
  ~batched => \A r \in Readers :
    reader[r].at = "recheck" => ~reader[r].held

(* The tables follow the rotations: the rows of a ledger, once written,    *)
(* stay while it is not before the last rotation, whatever stage a         *)
(* rotation was aborted or crashed in; and a rotation goes on to copy and  *)
(* to exchange the backends only when the rows before the one before it,   *)
(* whose nodes go with the old archive, are deleted (but for a save that   *)
(* took longer than a whole rotation), although a failed health check      *)
(* leaves the deletion half done.                                          *)
RowsFollow ==
  /\ \A s \in saved : s >= state_db.lastRotated => s \in sql
  /\ pc \in {"copy", "copied", "freshen", "fresh", "newBackend", "save"} =>
       \A s \in sql \ late : s >= lastRotated

(* stop() ends the rotation thread: no notification is lost, and no part   *)
(* of a rotation goes on for ever.                                         *)
StopCompletes == stop ~> pc \in {"stopped", "down"}

(* What LedgerMaster says of mCompleteLedgers: "Ledgers we have all the    *)
(* nodes for".                                                             *)
CompleteHasNodes ==
  Running /\ crashes = 0 =>
    \A s \in complete : \A n \in StateMap[s] :
      Holds(writableBackend, n) \/ Holds(archiveBackend, n)
==============================================================================
