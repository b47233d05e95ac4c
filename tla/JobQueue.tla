------------------------------- MODULE JobQueue -------------------------------
(***************************************************************************)
(* The job queue, JobQueueImp (core/impl/JobQueue.cpp), with the worker    *)
(* pool it signals (beast::Workers) and the part of beast::Stoppable that  *)
(* shuts it down.                                                          *)
(*                                                                         *)
(* Jobs wait in one set ordered by type and age.  Every job type has a     *)
(* limit of jobs that run at once.  The pool is a counting semaphore that  *)
(* does not know which job a signal was for: a worker that passes it takes *)
(* the first job whose type is below its limit, and the code asserts that  *)
(* there is one.                                                           *)
(*                                                                         *)
(* Every section under m_mutex is one action.                              *)
(***************************************************************************)
EXTENDS Integers, FiniteSets

CONSTANTS
  Types,      \* job types; a larger number is a higher priority
  Limit,      \* getJobLimit
  Skip,       \* the types that are skipOnStop
  Threads,    \* worker threads
  Others,     \* other threads that add jobs: io_service, timers, children's
  Children,   \* Stoppable children of the queue
  NoType,     \* not a job type
  MaxJobs     \* bound: jobs ever added

ASSUME JobTypesAssumption ==
  /\ Types \subseteq Nat /\ NoType \notin Types
  /\ Limit \in [Types -> Nat \ {0}]
  /\ Skip \subseteq Types
ASSUME ThreadsAssumption == IsFiniteSet(Threads) /\ MaxJobs \in Nat

VARIABLES
  jobSet,       \* m_jobSet
  lastJob,      \* m_lastJob
  waiting,      \* JobTypeData: jobs waiting,
  running,      \*   presently running,
  deferred,     \*   waiting and not signalled because of the limit
  semaphore,    \* Workers::m_semaphore
  worker,       \* per worker thread: where it is,
  current,      \*   the type of the job it holds, and
  held,         \*   that job's index
  processCount, \* m_processCount
  adding,       \* per caller: the addJob call past its first lock section
  stopping,     \* RootStoppable::m_calledStopAsync
  childStopped, \* the children that have stopped
  childrenStopped, \* m_childrenStopped
  event,        \* m_stoppedEvent is signalled
  stopper,      \* the thread in stopRecursive
  legal         \* history: the jobs the Stoppable rules let in

counts == <<waiting, running, deferred, semaphore>>
workers == <<worker, current, held, processCount>>
stop == <<stopping, childStopped, childrenStopped, event, stopper>>
vars == <<jobSet, lastJob, counts, workers, adding, stop, legal>>

Jobs == [type: Types, index: Nat]
Callers == Threads \cup Others

(* Counters stay natural numbers: none is decremented once too often. *)
TypeOK ==
  /\ jobSet \subseteq Jobs
  /\ lastJob \in Nat
  /\ waiting \in [Types -> Nat]
  /\ running \in [Types -> Nat]
  /\ deferred \in [Types -> Nat]
  /\ semaphore \in Nat
  /\ worker \in [Threads -> {"asleep", "woken", "got", "doing", "skipping"}]
  /\ current \in [Threads -> Types \cup {NoType}]
  /\ held \in [Threads -> Nat]
  /\ processCount \in Int
  /\ adding \in [Callers -> Types \cup {NoType}]
  /\ stopping \in BOOLEAN
  /\ childStopped \subseteq Children
  /\ childrenStopped \in BOOLEAN
  /\ event \in BOOLEAN
  /\ stopper \in {"none", "children", "flagged", "waiting", "done"}
  /\ legal \subseteq Nat

Init ==
  /\ jobSet = {}
  /\ lastJob = 0
  /\ waiting = [t \in Types |-> 0]
  /\ running = [t \in Types |-> 0]
  /\ deferred = [t \in Types |-> 0]
  /\ semaphore = 0
  /\ worker = [w \in Threads |-> "asleep"]
  /\ current = [w \in Threads |-> NoType]
  /\ held = [w \in Threads |-> 0]
  /\ processCount = 0
  /\ adding = [c \in Callers |-> NoType]
  /\ stopping = FALSE
  /\ childStopped = {}
  /\ childrenStopped = FALSE
  /\ event = FALSE
  /\ stopper = "none"
  /\ legal = {}

-----------------------------------------------------------------------------
(* isStopped(): stopRecursive has passed the wait on m_stoppedEvent. *)
IsStopped == stopper = "done"

(* addJob up to the second lock section, by a job that runs or by any      *)
(* other thread; the jobs that are skipped when stopping return.  The      *)
(* assertion on the callers is no guard: release builds define NDEBUG, and *)
(* what it reads may change before the job is inserted.                    *)
AddJob(c, type) ==
  /\ adding[c] = NoType
  /\ c \in Threads => worker[c] = "doing"
  /\ lastJob + Cardinality({d \in Callers : adding[d] # NoType}) < MaxJobs
  /\ ~(stopping /\ type \in Skip)
  /\ adding' = [adding EXCEPT ![c] = type]
  /\ UNCHANGED <<jobSet, lastJob, counts, workers, stop, legal>>

(* The rule addJob states for its callers, of a job as it goes in: not all *)
(* children are stopped, or a job that was itself let in adds it.          *)
AddRule(c) == ~childrenStopped \/ (c \in Threads /\ held[c] \in legal)

(* Mutant: the limit is compared with the running jobs only. *)
QueueJobRunning(type) ==
  /\ IF running[type] < Limit[type]
       THEN semaphore' = semaphore + 1 /\ UNCHANGED deferred
       ELSE /\ deferred' = [deferred EXCEPT ![type] = @ + 1]
            /\ UNCHANGED semaphore
  /\ waiting' = [waiting EXCEPT ![type] = @ + 1]

(* queueJob: signal the pool or, at the limit, defer the signal. *)
QueueJob(type) ==
  /\ IF waiting[type] + running[type] < Limit[type]
       THEN semaphore' = semaphore + 1 /\ UNCHANGED deferred
       ELSE /\ deferred' = [deferred EXCEPT ![type] = @ + 1]
            /\ UNCHANGED semaphore
  /\ waiting' = [waiting EXCEPT ![type] = @ + 1]

(* The second lock section of addJob. *)
InsertJob(c) ==
  LET type == adding[c] IN
  /\ type # NoType
  /\ lastJob' = lastJob + 1
  /\ jobSet' = jobSet \cup {[type |-> type, index |-> lastJob + 1]}
  /\ QueueJob(type)
  /\ adding' = [adding EXCEPT ![c] = NoType]
  /\ legal' = IF AddRule(c) THEN legal \cup {lastJob + 1} ELSE legal
  /\ UNCHANGED <<running, workers, stop>>

-----------------------------------------------------------------------------
(* Job::operator<: the higher type first, then the older job. *)
Before(j, k) ==
  \/ j.type > k.type
  \/ j.type = k.type /\ j.index < k.index

IsRunnable(j) == running[j.type] < Limit[j.type]
Runnable == {j \in jobSet : IsRunnable(j)}

(* A worker passes the semaphore. *)
Wake(w) ==
  /\ worker[w] = "asleep"
  /\ semaphore > 0
  /\ semaphore' = semaphore - 1
  /\ worker' = [worker EXCEPT ![w] = "woken"]
  /\ UNCHANGED <<jobSet, lastJob, waiting, running, deferred, current, held,
                 processCount, adding, stop, legal>>

(* processTask, first lock section: getNextJob takes the first runnable    *)
(* job.                                                                    *)
GetNextJob(w) ==
  /\ worker[w] = "woken"
  /\ \E j \in Runnable :
       /\ \A k \in Runnable : k # j => Before(j, k)
       /\ jobSet' = jobSet \ {j}
       /\ waiting' = [waiting EXCEPT ![j.type] = @ - 1]
       /\ running' = [running EXCEPT ![j.type] = @ + 1]
       /\ current' = [current EXCEPT ![w] = j.type]
       /\ held' = [held EXCEPT ![w] = j.index]
  /\ worker' = [worker EXCEPT ![w] = "got"]
  /\ processCount' = processCount + 1
  /\ UNCHANGED <<lastJob, deferred, semaphore, adding, stop, legal>>

(* processTask decides, without the lock, whether to call the job. *)
StartJob(w) ==
  /\ worker[w] = "got"
  /\ worker' = [worker EXCEPT ![w] =
       IF stopping /\ current[w] \in Skip THEN "skipping" ELSE "doing"]
  /\ UNCHANGED <<jobSet, lastJob, counts, current, held, processCount, adding,
                 stop, legal>>

(* Mutant: a deferred job is not signalled. *)
FinishJobSilent(type) ==
  /\ running' = [running EXCEPT ![type] = @ - 1]
  /\ UNCHANGED <<deferred, semaphore>>

(* finishJob: pass the slot on to a deferred job of the type. *)
FinishJob(type) ==
  /\ IF deferred[type] > 0
       THEN /\ deferred' = [deferred EXCEPT ![type] = @ - 1]
            /\ semaphore' = semaphore + 1
       ELSE UNCHANGED <<deferred, semaphore>>
  /\ running' = [running EXCEPT ![type] = @ - 1]

(* Mutant: the queue is not looked at. *)
StopConditionEmpty(inProgress) ==
  stopping /\ childrenStopped /\ inProgress = 0

(* checkStopped, with the value m_processCount has by then. *)
StopCondition(inProgress) ==
  stopping /\ childrenStopped /\ inProgress = 0 /\ jobSet = {}

(* Mutant: the last lock section of processTask forgets checkStopped. *)
FinishTaskUnchecked(w) ==
  /\ worker[w] \in {"doing", "skipping"}
  /\ adding[w] = NoType
  /\ FinishJob(current[w])
  /\ processCount' = processCount - 1
  /\ worker' = [worker EXCEPT ![w] = "asleep"]
  /\ current' = [current EXCEPT ![w] = NoType]
  /\ held' = [held EXCEPT ![w] = 0]
  /\ UNCHANGED <<jobSet, lastJob, waiting, adding, stop, legal>>

(* processTask, last lock section: finishJob, then checkStopped. *)
FinishTask(w) ==
  /\ worker[w] \in {"doing", "skipping"}
  /\ adding[w] = NoType
  /\ FinishJob(current[w])
  /\ processCount' = processCount - 1
  /\ event' = (event \/ StopCondition(processCount - 1))
  /\ worker' = [worker EXCEPT ![w] = "asleep"]
  /\ current' = [current EXCEPT ![w] = NoType]
  /\ held' = [held EXCEPT ![w] = 0]
  /\ UNCHANGED <<jobSet, lastJob, waiting, adding, stopping, childStopped,
                 childrenStopped, stopper, legal>>

-----------------------------------------------------------------------------
(* RootStoppable::stop: stopAsync raises the flag, stopRecursive then waits *)
(* for the children, sets m_childrenStopped, calls onChildrenStopped and    *)
(* waits for m_stoppedEvent.                                                *)
StopAsync ==
  /\ ~stopping
  /\ stopping' = TRUE
  /\ stopper' = "children"
  /\ UNCHANGED <<jobSet, lastJob, counts, workers, adding, childStopped,
                 childrenStopped, event, legal>>

(* A child's stopped() waits for none of its threads: the default onStop   *)
(* calls it at once.                                                       *)
ChildStops(c) ==
  /\ stopping
  /\ c \notin childStopped
  /\ childStopped' = childStopped \cup {c}
  /\ UNCHANGED <<jobSet, lastJob, counts, workers, adding, stopping,
                 childrenStopped, event, stopper, legal>>

ChildrenStopped ==
  /\ stopper = "children"
  /\ childStopped = Children
  /\ childrenStopped' = TRUE
  /\ stopper' = "flagged"
  /\ UNCHANGED <<jobSet, lastJob, counts, workers, adding, stopping,
                 childStopped, event, legal>>

OnChildrenStopped ==
  /\ stopper = "flagged"
  /\ stopper' = "waiting"
  /\ event' = (event \/ StopCondition(processCount))
  /\ UNCHANGED <<jobSet, lastJob, counts, workers, adding, stopping,
                 childStopped, childrenStopped, legal>>

Stopped ==
  /\ stopper = "waiting"
  /\ event
  /\ stopper' = "done"
  /\ UNCHANGED <<jobSet, lastJob, counts, workers, adding, stopping,
                 childStopped, childrenStopped, event, legal>>

-----------------------------------------------------------------------------
WorkerStep(w) == Wake(w) \/ GetNextJob(w) \/ StartJob(w) \/ FinishTask(w)
StopStep == ChildrenStopped \/ OnChildrenStopped \/ Stopped

Next ==
  \/ \E c \in Callers, type \in Types : AddJob(c, type)
  \/ \E c \in Callers : InsertJob(c)
  \/ \E w \in Threads : WorkerStep(w)
  \/ StopAsync
  \/ \E c \in Children : ChildStops(c)
  \/ StopStep

(* Threads are scheduled and jobs return; nothing makes the program stop,  *)
(* but once it stops its children do.                                      *)
Fairness ==
  /\ \A w \in Threads : WF_vars(WorkerStep(w))
  /\ \A c \in Callers : WF_vars(InsertJob(c))
  /\ \A c \in Children : WF_vars(ChildStops(c))
  /\ WF_vars(StopStep)

Spec == Init /\ [][Next]_vars /\ Fairness

-----------------------------------------------------------------------------
Woken == {w \in Threads : worker[w] = "woken"}
Busy == {w \in Threads : worker[w] \in {"got", "doing", "skipping"}}

(* No job type ever runs more jobs than its limit. *)
WithinLimit == \A t \in Types : running[t] =< Limit[t]

(* A worker that passed the semaphore finds a job it may run, although the *)
(* semaphore counts signals and not jobs: getNextJob asserts it and would  *)
(* otherwise erase the end iterator.                                       *)
RunnableExists == Woken # {} => Runnable # {}

(* The counters agree with the queue and the threads: a type's waiting     *)
(* jobs are those in the set, its running ones those that threads hold.    *)
JobsOf(t) == {j \in jobSet : j.type = t}
HeldBy(t) == {w \in Busy : current[w] = t}
CountersAgree ==
  /\ \A t \in Types : waiting[t] = Cardinality(JobsOf(t))
  /\ \A t \in Types : running[t] = Cardinality(HeldBy(t))
  /\ processCount = Cardinality(Busy)

(* There is a signal, in the semaphore or with a woken worker, for every   *)
(* waiting job that is not deferred, and signals are deferred only while   *)
(* the running and the signalled jobs of the type exhaust its limit.       *)
Slots == {s \in Types \X (1 .. lastJob) :
            s[2] =< waiting[s[1]] - deferred[s[1]]}
Taken(t) == running[t] + waiting[t] - deferred[t]
SignalsMatch ==
  /\ Cardinality(Slots) = semaphore + Cardinality(Woken)
  /\ \A t \in Types :
       /\ deferred[t] =< waiting[t]
       /\ Taken(t) =< Limit[t]
       /\ deferred[t] > 0 => Taken(t) = Limit[t]

(* Every job the Stoppable rules let in is done when the queue says it has *)
(* stopped: those added before all children had stopped and those such a   *)
(* job adds while it runs, whatever other threads add meanwhile.           *)
StopRunsJobs ==
  IsStopped =>
    /\ \A j \in jobSet : j.index \notin legal
    /\ \A w \in Busy : held[w] \notin legal

(* "If JobQueue exists, and has at least one thread, Job will eventually   *)
(* run": also the jobs that were deferred because of the limit.            *)
JobsRun ==
  \A i \in 1 .. MaxJobs :
    (\E j \in jobSet : j.index = i) ~> ~(\E j \in jobSet : j.index = i)

(* Once asked to stop, the queue stops. *)
StopCompletes == stopping ~> IsStopped
===============================================================================
