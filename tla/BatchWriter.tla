----------------------------- MODULE BatchWriter -----------------------------
(***************************************************************************)
(* NodeStore::BatchWriter (src/ripple/nodestore/impl/BatchWriter.cpp), the *)
(* queue between the server's threads, which store node objects, and the   *)
(* task on the job queue that writes them to a backend in batches, with    *)
(* the scheduler that runs the task (NodeStoreScheduler).                  *)
(*                                                                         *)
(* Every section under mWriteMutex is one action; the write itself         *)
(* (Callback::writeBatch) runs without the lock.  The destructor waits on  *)
(* a condition variable until nothing is pending; no thread stores into an *)
(* object that is being destroyed.                                         *)
(***************************************************************************)
EXTENDS Naturals, Sequences, FiniteSets

CONSTANTS
  Objects,     \* node objects
  Workers,     \* job queue threads that can run the task
  MaxStores    \* bound: number of calls of store

ASSUME StoresAssumption == MaxStores \in Nat

VARIABLES
  mWriteSet,      \* vector of objects waiting for the next batch
  mWritePending,  \* a task is scheduled or running
  mWriteLoad,     \* size of the batch taken last
  tasks,          \* tasks in the job queue
  writer,         \* per worker: the writeBatch call in progress
  backend,        \* what the backend holds, in the order it was written
  destructor,     \* the thread that runs ~BatchWriter
  mark            \* history: number of objects stored when ~BatchWriter began

vars == <<mWriteSet, mWritePending, mWriteLoad, tasks, writer,
          backend, destructor, mark>>

Idle == [at |-> "idle", set |-> <<>>]

TypeOK ==
  /\ mWriteSet \in Seq(Objects)
  /\ mWritePending \in BOOLEAN
  /\ mWriteLoad \in Nat
  /\ tasks \in Nat
  /\ writer \in [Workers -> [at: {"idle", "writing", "written"},
                             set: Seq(Objects)]]
  /\ backend \in Seq(Objects)
  /\ destructor \in {"away", "entering", "blocked", "woken", "returned"}
  /\ mark \in Nat

Init ==
  /\ mWriteSet = <<>>
  /\ mWritePending = FALSE
  /\ mWriteLoad = 0
  /\ tasks = 0
  /\ writer = [w \in Workers |-> Idle]
  /\ backend = <<>>
  /\ destructor = "away"
  /\ mark = 0

(* The batch that is being written. *)
InBatch ==
  IF \E w \in Workers : writer[w].at = "writing"
    THEN writer[CHOOSE w \in Workers : writer[w].at = "writing"].set
    ELSE <<>>
StoredSoFar == Len(backend) + Len(InBatch) + Len(mWriteSet)

-----------------------------------------------------------------------------
(* The task is scheduled unless it is scheduled or running already. *)
Schedule ==
  /\ mWritePending' = TRUE
  /\ tasks' = IF mWritePending THEN tasks ELSE tasks + 1

(* store *)
Store(o) ==
  /\ destructor = "away"
  /\ StoredSoFar < MaxStores
  /\ mWriteSet' = Append(mWriteSet, o)
  /\ Schedule
  /\ UNCHANGED <<mWriteLoad, writer, backend, destructor, mark>>

(* getWriteLoad *)
WriteLoad ==
  IF mWriteLoad > Len(mWriteSet) THEN mWriteLoad ELSE Len(mWriteSet)

-----------------------------------------------------------------------------
(* Mutant: nobody is notified. *)
TakeBatchSilent(w) ==
  \/ /\ mWriteSet # <<>>
     /\ writer' = [writer EXCEPT ![w] = [at |-> "writing", set |-> mWriteSet]]
     /\ mWriteSet' = <<>>
     /\ mWriteLoad' = Len(mWriteSet)
     /\ UNCHANGED <<mWritePending, destructor>>
  \/ /\ mWriteSet = <<>>
     /\ writer' = [writer EXCEPT ![w] = Idle]
     /\ mWriteLoad' = 0
     /\ mWritePending' = FALSE
     /\ UNCHANGED <<mWriteSet, destructor>>

(* writeBatch.  One turn of its loop under mWriteMutex: take the whole     *)
(* vector, or find it empty, clear mWritePending, notify and leave.        *)
TakeBatch(w) ==
  \/ /\ mWriteSet # <<>>
     /\ writer' = [writer EXCEPT ![w] = [at |-> "writing", set |-> mWriteSet]]
     /\ mWriteSet' = <<>>
     /\ mWriteLoad' = Len(mWriteSet)
     /\ UNCHANGED <<mWritePending, destructor>>
  \/ /\ mWriteSet = <<>>
     /\ writer' = [writer EXCEPT ![w] = Idle]
     /\ mWriteLoad' = 0
     /\ mWritePending' = FALSE
     /\ destructor' = IF destructor = "blocked" THEN "woken" ELSE destructor
     /\ UNCHANGED mWriteSet

(* doTask, performScheduledTask: a worker starts the task. *)
TaskStart(w) ==
  /\ writer[w].at = "idle"
  /\ tasks > 0
  /\ tasks' = tasks - 1
  /\ TakeBatch(w)
  /\ UNCHANGED <<backend, mark>>

(* Callback::writeBatch, without the lock. *)
TaskWrite(w) ==
  /\ writer[w].at = "writing"
  /\ backend' = backend \o writer[w].set
  /\ writer' = [writer EXCEPT ![w] = [at |-> "written", set |-> <<>>]]
  /\ UNCHANGED <<mWriteSet, mWritePending, mWriteLoad, tasks,
                 destructor, mark>>

TaskLoop(w) ==
  /\ writer[w].at = "written"
  /\ TakeBatch(w)
  /\ UNCHANGED <<tasks, backend, mark>>

-----------------------------------------------------------------------------
(* Mutant: the destructor tests once. *)
LeaveAtOnce == destructor' = "returned"

(* The loop of waitForWriting. *)
LeaveOrBlock == destructor' = IF mWritePending THEN "blocked" ELSE "returned"

Destroy ==
  /\ destructor = "away"
  /\ destructor' = "entering"
  /\ mark' = StoredSoFar
  /\ UNCHANGED <<mWriteSet, mWritePending, mWriteLoad, tasks,
                 writer, backend>>

WaitForWriting ==
  /\ destructor \in {"entering", "woken"}
  /\ LeaveOrBlock
  /\ UNCHANGED <<mWriteSet, mWritePending, mWriteLoad, tasks,
                 writer, backend, mark>>

Next ==
  \/ \E o \in Objects : Store(o)
  \/ \E w \in Workers : TaskStart(w) \/ TaskWrite(w) \/ TaskLoop(w)
  \/ Destroy
  \/ WaitForWriting

(* The job queue runs the task, the write returns, and a thread that is    *)
(* notified runs again.                                                    *)
Fairness ==
  /\ WF_vars(\E w \in Workers : TaskStart(w))
  /\ \A w \in Workers :
       WF_vars(TaskWrite(w)) /\ WF_vars(TaskLoop(w))
  /\ WF_vars(WaitForWriting)

Spec == Init /\ [][Next]_vars /\ Fairness

-----------------------------------------------------------------------------
(* The waiter of the abstract queue is the destructor. *)
Waiter ==
  IF destructor \in {"entering", "blocked", "woken"} THEN "waiting"
                                                     ELSE destructor
WB == INSTANCE WriteBehind WITH
        Items <- Objects, MaxItems <- MaxStores,
        pending <- InBatch \o mWriteSet, written <- backend,
        waiter <- Waiter, mark <- mark

(* A task is scheduled or running exactly while mWritePending says so, and *)
(* there is never a second one: a store that arrives while the task finds  *)
(* the vector empty is ordered after or before it by mWriteMutex.          *)
OneTask ==
  /\ tasks \in {0, 1}
  /\ \A w, x \in Workers : writer[w].at # "idle" /\ writer[x].at # "idle"
                             => w = x
  /\ tasks = 1 => \A w \in Workers : writer[w].at = "idle"
  /\ mWritePending <=> tasks = 1 \/ \E w \in Workers : writer[w].at # "idle"
  /\ mWriteSet # <<>> => mWritePending

(* The queue keeps the promises of a write-behind queue: objects reach the *)
(* backend in the order of the store calls, each exactly once, and the     *)
(* destructor returns only when "Anything pending in the batch is written  *)
(* out".                                                                   *)
ImplementsQueue == WB!SafeSpec

(* Every stored object reaches the backend and the destructor returns: the *)
(* notification is not lost and the task does not stop before a late store.*)
Drains == WB!Live

(* getWriteLoad, by which the server throttles itself, never says idle     *)
(* while objects are unwritten, and is at least half of what is unwritten. *)
WriteLoadSeen == 2 * WriteLoad >= Len(InBatch) + Len(mWriteSet)
==============================================================================
