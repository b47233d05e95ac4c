---------------------------- MODULE JobQueue_proofs ----------------------------
(***************************************************************************)
(* Proofs about JobQueue, for any job types, limits and threads: counters  *)
(* and signals stay in step, so a woken worker finds a runnable job and no *)
(* type exceeds its limit.                                                 *)
(***************************************************************************)
EXTENDS JobQueue, FiniteSetTheorems, TLAPS

(* What makes the counters inductive: the sets they count are finite and a *)
(* job index is used once.                                                 *)
JobsFinite ==
  /\ IsFiniteSet(jobSet)
  /\ \A j \in jobSet : j.index =< lastJob
  /\ IsFiniteSet(Slots)
  /\ \A t \in Types : waiting[t] =< lastJob
  /\ \A w \in Busy : current[w] \in Types

JobInv == TypeOK /\ CountersAgree /\ SignalsMatch /\ JobsFinite

(* Sets of threads and sets of jobs of one type are finite. *)
LEMMA PartsFinite ==
  ASSUME IsFiniteSet(jobSet)
  PROVE  /\ IsFiniteSet(Woken) /\ Cardinality(Woken) \in Nat
         /\ IsFiniteSet(Busy) /\ Cardinality(Busy) \in Nat
         /\ \A t : IsFiniteSet(HeldBy(t)) /\ Cardinality(HeldBy(t)) \in Nat
         /\ \A t : IsFiniteSet(JobsOf(t)) /\ Cardinality(JobsOf(t)) \in Nat
  <1>1. \A t : HeldBy(t) \subseteq Threads /\ JobsOf(t) \subseteq jobSet
    BY DEF HeldBy, JobsOf, Busy
  <1>2. Woken \subseteq Threads /\ Busy \subseteq Threads
    BY DEF Woken, Busy
  <1> QED BY <1>1, <1>2, FS_Subset, FS_CardinalityType, ThreadsAssumption

LEMMA Counters ==
  ASSUME TypeOK, NEW t \in Types
  PROVE  /\ waiting[t] \in Nat /\ running[t] \in Nat /\ deferred[t] \in Nat
         /\ Limit[t] \in Nat /\ Limit[t] > 0
  <1>1. Limit[t] \in Nat \ {0}
    BY JobTypesAssumption
  <1> QED BY <1>1 DEF TypeOK

(* Membership in Slots, before and after a step. *)
LEMMA SlotIff ==
  ASSUME TypeOK, \A t \in Types : waiting[t] =< lastJob
  PROVE  /\ \A t \in Types, i \in Int :
              <<t, i>> \in Slots <=> 1 =< i /\ i =< waiting[t] - deferred[t]
         /\ \A s \in Slots : s \in Types \X Int /\ s = <<s[1], s[2]>>
  <1>1. \A t \in Types : waiting[t] \in Nat /\ deferred[t] \in Nat
    BY DEF TypeOK
  <1>2. lastJob \in Nat
    BY DEF TypeOK
  <1> QED BY <1>1, <1>2 DEF Slots

LEMMA SlotIffPrime ==
  ASSUME TypeOK', \A t \in Types : waiting'[t] =< lastJob'
  PROVE  /\ \A t \in Types, i \in Int :
              <<t, i>> \in Slots' <=> 1 =< i /\ i =< waiting'[t] - deferred'[t]
         /\ \A s \in Slots' : s \in Types \X Int /\ s = <<s[1], s[2]>>
  <1>1. \A t \in Types : waiting'[t] \in Nat /\ deferred'[t] \in Nat
    BY DEF TypeOK
  <1>2. lastJob' \in Nat
    BY DEF TypeOK
  <1> QED BY <1>1, <1>2 DEF Slots

(* A step that signals one more job of a type adds one slot, one that      *)
(* starts a job removes one, any other leaves the slots alone.             *)
LEMMA SlotAdded ==
  ASSUME JobInv, TypeOK', \A t \in Types : waiting'[t] =< lastJob',
         NEW type \in Types,
         waiting'[type] - deferred'[type] = waiting[type] - deferred[type] + 1,
         \A t \in Types \ {type} :
           waiting'[t] - deferred'[t] = waiting[t] - deferred[t]
  PROVE  IsFiniteSet(Slots') /\ Cardinality(Slots') = Cardinality(Slots) + 1
  <1> DEFINE new == <<type, waiting[type] - deferred[type] + 1>>
  <1>1. /\ waiting[type] \in Nat /\ deferred[type] \in Nat
        /\ deferred[type] =< waiting[type]
    BY DEF JobInv, TypeOK, SignalsMatch
  <1>2. TypeOK /\ (\A t \in Types : waiting[t] =< lastJob) /\ IsFiniteSet(Slots)
    BY DEF JobInv, JobsFinite
  <1>3. \A t \in Types, i \in Int :
          <<t, i>> \in Slots' <=>
            <<t, i>> \in Slots \/ (t = type /\ i = waiting[type] - deferred[type] + 1)
    <2> TAKE t \in Types, i \in Int
    <2>1. <<t, i>> \in Slots <=> 1 =< i /\ i =< waiting[t] - deferred[t]
      BY <1>2, SlotIff, Zenon
    <2>2. <<t, i>> \in Slots' <=> 1 =< i /\ i =< waiting'[t] - deferred'[t]
      BY SlotIffPrime, Zenon
    <2>3. CASE t = type
      BY <1>1, <2>1, <2>2, <2>3
    <2>4. CASE t # type
      <3>1. waiting'[t] - deferred'[t] = waiting[t] - deferred[t]
        BY <2>4
      <3> QED BY <3>1, <2>1, <2>2, <2>4
    <2> QED BY <2>3, <2>4
  <1>4. new \notin Slots
    BY <1>1, <1>2, SlotIff
  <1>5. new \in Types \X Int
    BY <1>1
  <1>6. Slots' = Slots \cup {new}
    <2>1. ASSUME NEW s \in Slots' PROVE s \in Slots \cup {new}
      <3>1. s[1] \in Types /\ s[2] \in Int /\ s = <<s[1], s[2]>>
        BY SlotIffPrime
      <3> QED BY <3>1, <1>3
    <2>2. ASSUME NEW s \in Slots PROVE s \in Slots'
      <3>1. s[1] \in Types /\ s[2] \in Int /\ s = <<s[1], s[2]>>
        BY <1>2, SlotIff
      <3> QED BY <3>1, <1>3
    <2>3. new \in Slots'
      BY <1>1, <1>3
    <2> QED BY <2>1, <2>2, <2>3
  <1> QED BY <1>2, <1>4, <1>6, FS_AddElement

LEMMA SlotRemoved ==
  ASSUME JobInv, TypeOK', \A t \in Types : waiting'[t] =< lastJob',
         NEW type \in Types,
         waiting[type] - deferred[type] >= 1,
         waiting'[type] - deferred'[type] = waiting[type] - deferred[type] - 1,
         \A t \in Types \ {type} :
           waiting'[t] - deferred'[t] = waiting[t] - deferred[t]
  PROVE  IsFiniteSet(Slots') /\ Cardinality(Slots') = Cardinality(Slots) - 1
  <1> DEFINE old == <<type, waiting[type] - deferred[type]>>
  <1>1. /\ waiting[type] \in Nat /\ deferred[type] \in Nat
    BY DEF JobInv, TypeOK
  <1>2. TypeOK /\ (\A t \in Types : waiting[t] =< lastJob) /\ IsFiniteSet(Slots)
    BY DEF JobInv, JobsFinite
  <1>3. \A t \in Types, i \in Int :
          <<t, i>> \in Slots' <=>
            <<t, i>> \in Slots /\ ~(t = type /\ i = waiting[type] - deferred[type])
    <2> TAKE t \in Types, i \in Int
    <2>1. <<t, i>> \in Slots <=> 1 =< i /\ i =< waiting[t] - deferred[t]
      BY <1>2, SlotIff, Zenon
    <2>2. <<t, i>> \in Slots' <=> 1 =< i /\ i =< waiting'[t] - deferred'[t]
      BY SlotIffPrime, Zenon
    <2>3. CASE t = type
      BY <1>1, <2>1, <2>2, <2>3
    <2>4. CASE t # type
      <3>1. waiting'[t] - deferred'[t] = waiting[t] - deferred[t]
        BY <2>4
      <3> QED BY <3>1, <2>1, <2>2, <2>4
    <2> QED BY <2>3, <2>4
  <1>4. old \in Slots
    BY <1>1, <1>2, SlotIff
  <1>6. Slots' = Slots \ {old}
    <2>1. ASSUME NEW s \in Slots' PROVE s \in Slots \ {old}
      <3>1. s[1] \in Types /\ s[2] \in Int /\ s = <<s[1], s[2]>>
        BY SlotIffPrime
      <3> QED BY <3>1, <1>3
    <2>2. ASSUME NEW s \in Slots \ {old} PROVE s \in Slots'
      <3>1. s[1] \in Types /\ s[2] \in Int /\ s = <<s[1], s[2]>>
        BY <1>2, SlotIff
      <3> QED BY <3>1, <1>3
    <2> QED BY <2>1, <2>2
  <1> QED BY <1>2, <1>4, <1>6, FS_RemoveElement

LEMMA SlotsKept ==
  ASSUME JobInv, TypeOK', \A t \in Types : waiting'[t] =< lastJob',
         \A t \in Types : waiting'[t] - deferred'[t] = waiting[t] - deferred[t]
  PROVE  Slots' = Slots
  <1>2. TypeOK /\ (\A t \in Types : waiting[t] =< lastJob)
    BY DEF JobInv, JobsFinite
  <1>3. \A t \in Types, i \in Int : <<t, i>> \in Slots' <=> <<t, i>> \in Slots
    <2> TAKE t \in Types, i \in Int
    <2>1. <<t, i>> \in Slots <=> 1 =< i /\ i =< waiting[t] - deferred[t]
      BY <1>2, SlotIff, Zenon
    <2>2. <<t, i>> \in Slots' <=> 1 =< i /\ i =< waiting'[t] - deferred'[t]
      BY SlotIffPrime, Zenon
    <2> QED BY <2>1, <2>2
  <1>4. ASSUME NEW s \in Slots' PROVE s \in Slots
    <2>1. s[1] \in Types /\ s[2] \in Int /\ s = <<s[1], s[2]>>
      BY SlotIffPrime
    <2> QED BY <2>1, <1>3
  <1>5. ASSUME NEW s \in Slots PROVE s \in Slots'
    <2>1. s[1] \in Types /\ s[2] \in Int /\ s = <<s[1], s[2]>>
      BY <1>2, SlotIff
    <2> QED BY <2>1, <1>3
  <1> QED BY <1>4, <1>5

LEMMA InitJobInv == Init => JobInv
  <1> SUFFICES ASSUME Init PROVE JobInv
    OBVIOUS
  <1>1. TypeOK
    <2>1. /\ stopping \in BOOLEAN /\ childrenStopped \in BOOLEAN
          /\ event \in BOOLEAN
      BY Zenon DEF Init
    <2>2. /\ worker \in [Threads -> {"asleep", "woken", "got", "doing", "skipping"}]
          /\ current \in [Threads -> Types \cup {NoType}]
          /\ held \in [Threads -> Nat]
          /\ adding \in [Callers -> Types \cup {NoType}]
          /\ waiting \in [Types -> Nat] /\ running \in [Types -> Nat]
          /\ deferred \in [Types -> Nat]
      BY DEF Init
    <2> QED BY <2>1, <2>2 DEF Init, TypeOK
  <1>2. /\ Woken = {} /\ Busy = {} /\ Slots = {}
        /\ \A t : JobsOf(t) = {} /\ HeldBy(t) = {}
    BY DEF Init, Woken, Busy, Slots, JobsOf, HeldBy
  <1>3. IsFiniteSet({}) /\ Cardinality({}) = 0
    BY FS_EmptySet
  <1>4. CountersAgree
    BY <1>2, <1>3 DEF Init, CountersAgree
  <1>5. SignalsMatch
    BY <1>2, <1>3, JobTypesAssumption DEF Init, SignalsMatch, Taken
  <1>6. JobsFinite
    BY <1>2, <1>3 DEF Init, JobsFinite
  <1> QED BY <1>1, <1>4, <1>5, <1>6 DEF JobInv

(* Steps that touch neither the counters nor the sets they count. *)
LEMMA FrameJobInv ==
  ASSUME JobInv, TypeOK', UNCHANGED <<jobSet, lastJob, counts, processCount, current>>,
         Woken' = Woken, Busy' = Busy
  PROVE  JobInv'
  <1>1. /\ Slots' = Slots
        /\ \A t : JobsOf(t)' = JobsOf(t) /\ HeldBy(t)' = HeldBy(t)
        /\ \A t : Taken(t)' = Taken(t)
    BY DEF counts, Slots, JobsOf, HeldBy, Taken
  <1>2. CountersAgree'
    BY <1>1 DEF JobInv, CountersAgree, counts
  <1>3. SignalsMatch'
    BY <1>1 DEF JobInv, SignalsMatch, counts
  <1>4. JobsFinite'
    BY <1>1 DEF JobInv, JobsFinite, counts
  <1> QED BY <1>2, <1>3, <1>4 DEF JobInv

(* A type with a thread on one of its jobs, or with a job in the set, has  *)
(* a positive counter.                                                     *)
LEMMA HeldPositive ==
  ASSUME JobInv, NEW w \in Busy
  PROVE  current[w] \in Types /\ running[current[w]] >= 1
  <1>1. current[w] \in Types
    BY DEF JobInv, JobsFinite
  <1>2. IsFiniteSet(HeldBy(current[w])) /\ Cardinality(HeldBy(current[w])) \in Nat
    BY PartsFinite DEF JobInv, JobsFinite
  <1>3. w \in HeldBy(current[w])
    BY DEF HeldBy
  <1>4. Cardinality(HeldBy(current[w])) # 0
    BY <1>2, <1>3, FS_EmptySet
  <1> QED BY <1>1, <1>2, <1>4 DEF JobInv, CountersAgree

LEMMA JobsPositive ==
  ASSUME JobInv, NEW j \in jobSet
  PROVE  j.type \in Types /\ waiting[j.type] >= 1
  <1>1. j.type \in Types
    BY DEF JobInv, TypeOK, Jobs
  <1>2. IsFiniteSet(JobsOf(j.type)) /\ Cardinality(JobsOf(j.type)) \in Nat
    BY PartsFinite DEF JobInv, JobsFinite
  <1>3. j \in JobsOf(j.type)
    BY DEF JobsOf
  <1>4. Cardinality(JobsOf(j.type)) # 0
    BY <1>2, <1>3, FS_EmptySet
  <1> QED BY <1>1, <1>2, <1>4 DEF JobInv, CountersAgree

LEMMA TypeStep == JobInv /\ [Next]_vars => TypeOK'
  <1> SUFFICES ASSUME JobInv, [Next]_vars PROVE TypeOK'
    OBVIOUS
  <1>0. TypeOK
    BY DEF JobInv
  <1>1. ASSUME NEW c \in Callers, NEW type \in Types, AddJob(c, type)
        PROVE  TypeOK'
    BY <1>0, <1>1 DEF TypeOK, AddJob, counts, workers, stop
  <1>2. ASSUME NEW c \in Callers, InsertJob(c) PROVE TypeOK'
    <2>1. adding[c] \in Types
      BY <1>0, <1>2 DEF TypeOK, InsertJob
    <2>2. jobSet' \subseteq Jobs /\ lastJob' \in Nat
      BY <1>0, <1>2, <2>1 DEF TypeOK, InsertJob, Jobs
    <2>3. /\ waiting' \in [Types -> Nat] /\ deferred' \in [Types -> Nat]
          /\ semaphore' \in Nat
      BY <1>0, <1>2, <2>1 DEF TypeOK, InsertJob, QueueJob
    <2>4. adding' \in [Callers -> Types \cup {NoType}]
      BY <1>0, <1>2 DEF TypeOK, InsertJob
    <2>5. legal' \subseteq Nat
      BY <1>0, <1>2 DEF TypeOK, InsertJob
    <2> QED BY <1>0, <1>2, <2>2, <2>3, <2>4, <2>5
            DEF TypeOK, InsertJob, workers, stop
  <1>3. ASSUME NEW w \in Threads, Wake(w) PROVE TypeOK'
    BY <1>0, <1>3 DEF TypeOK, Wake, stop
  <1>4. ASSUME NEW w \in Threads, GetNextJob(w) PROVE TypeOK'
    <2>1. PICK j \in Runnable :
            /\ jobSet' = jobSet \ {j}
            /\ waiting' = [waiting EXCEPT ![j.type] = @ - 1]
            /\ running' = [running EXCEPT ![j.type] = @ + 1]
            /\ current' = [current EXCEPT ![w] = j.type]
            /\ held' = [held EXCEPT ![w] = j.index]
      BY <1>4 DEF GetNextJob
    <2>2. j.type \in Types /\ waiting[j.type] >= 1
      BY JobsPositive DEF Runnable
    <2>3. waiting' \in [Types -> Nat] /\ running' \in [Types -> Nat]
      BY <1>0, <2>1, <2>2 DEF TypeOK
    <2>4. /\ current' \in [Threads -> Types \cup {NoType}]
          /\ held' \in [Threads -> Nat]
      BY <1>0, <2>1, <2>2 DEF TypeOK, Runnable, Jobs
    <2> QED BY <1>0, <1>4, <2>1, <2>3, <2>4 DEF TypeOK, GetNextJob, stop
  <1>5. ASSUME NEW w \in Threads, StartJob(w) PROVE TypeOK'
    BY <1>0, <1>5 DEF TypeOK, StartJob, counts, stop
  <1>6. ASSUME NEW w \in Threads, FinishTask(w) PROVE TypeOK'
    <2>1. w \in Busy
      BY <1>6 DEF FinishTask, Busy
    <2>2. current[w] \in Types /\ running[current[w]] >= 1
      BY <2>1, HeldPositive
    <2>3. /\ running' \in [Types -> Nat] /\ deferred' \in [Types -> Nat]
          /\ semaphore' \in Nat
      BY <1>0, <1>6, <2>2 DEF TypeOK, FinishTask, FinishJob
    <2>4. event' \in BOOLEAN
      BY <1>6, Zenon DEF FinishTask
    <2> QED BY <1>0, <1>6, <2>3, <2>4 DEF TypeOK, FinishTask
  <1>7. ASSUME StopAsync PROVE TypeOK'
    <2>1. stopping' \in BOOLEAN
      BY <1>7, Zenon DEF StopAsync
    <2> QED BY <1>0, <1>7, <2>1 DEF TypeOK, StopAsync, counts, workers
  <1>8. ASSUME NEW c \in Children, ChildStops(c) PROVE TypeOK'
    BY <1>0, <1>8 DEF TypeOK, ChildStops, counts, workers
  <1>9. ASSUME ChildrenStopped PROVE TypeOK'
    <2>1. childrenStopped' \in BOOLEAN
      BY <1>9, Zenon DEF ChildrenStopped
    <2> QED BY <1>0, <1>9, <2>1 DEF TypeOK, ChildrenStopped, counts, workers
  <1>10. ASSUME OnChildrenStopped PROVE TypeOK'
    <2>1. event' \in BOOLEAN
      BY <1>10, Zenon DEF OnChildrenStopped
    <2> QED BY <1>0, <1>10, <2>1 DEF TypeOK, OnChildrenStopped, counts, workers
  <1>11. ASSUME Stopped PROVE TypeOK'
    BY <1>0, <1>11 DEF TypeOK, Stopped, counts, workers
  <1>12. CASE UNCHANGED vars
    BY <1>0, <1>12 DEF TypeOK, vars, counts, workers, stop
  <1> QED BY <1>1, <1>2, <1>3, <1>4, <1>5, <1>6, <1>7, <1>8, <1>9, <1>10,
             <1>11, <1>12 DEF Next, WorkerStep, StopStep

(* addJob: one more job waits; it has a signal or it is deferred. *)
LEMMA InsertJobInv ==
  ASSUME JobInv, TypeOK', NEW c \in Callers, InsertJob(c)
  PROVE  JobInv'
  <1>a. PICK type \in Types : type = adding[c]
    BY DEF InsertJob, JobInv, TypeOK
  <1>b. PICK job \in Jobs : job = [type |-> type, index |-> lastJob + 1]
    <2>1. [type |-> type, index |-> lastJob + 1] \in Jobs
      BY DEF JobInv, TypeOK, Jobs
    <2> QED BY <2>1
  <1>0. type \in Types /\ lastJob \in Nat
    BY DEF JobInv, TypeOK
  <1>1. /\ jobSet' = jobSet \cup {job} /\ lastJob' = lastJob + 1
        /\ waiting' = [waiting EXCEPT ![type] = @ + 1]
        /\ UNCHANGED <<running, worker, current, processCount>>
    BY <1>a, <1>b DEF InsertJob, QueueJob, workers
  <1>2. TypeOK /\ \A t \in Types : waiting[t] =< lastJob
    BY DEF JobInv, JobsFinite
  <1>3. /\ waiting'[type] = waiting[type] + 1
        /\ \A t \in Types \ {type} : waiting'[t] = waiting[t]
    BY <1>0, <1>1, <1>2 DEF TypeOK
  <1>4. \A t \in Types : waiting'[t] =< lastJob'
    <2> TAKE t \in Types
    <2>1. waiting[t] \in Nat /\ waiting[t] =< lastJob
      BY <1>2 DEF TypeOK
    <2> QED BY <2>1, <1>0, <1>1, <1>3
  <1>5. Woken' = Woken /\ Busy' = Busy /\ \A t : HeldBy(t)' = HeldBy(t)
    BY <1>1 DEF Woken, Busy, HeldBy
  <1>6. CountersAgree'
    <2>1. job \notin jobSet /\ job.type = type
      BY <1>0, <1>b DEF JobInv, JobsFinite
    <2>2. /\ JobsOf(type)' = JobsOf(type) \cup {job}
          /\ job \notin JobsOf(type)
          /\ \A t \in Types \ {type} : JobsOf(t)' = JobsOf(t)
      BY <1>1, <2>1 DEF JobsOf
    <2>3. IsFiniteSet(JobsOf(type))
      BY PartsFinite DEF JobInv, JobsFinite
    <2>4. Cardinality(JobsOf(type)') = Cardinality(JobsOf(type)) + 1
      BY <2>2, <2>3, FS_AddElement
    <2>5. \A t \in Types : waiting[t] = Cardinality(JobsOf(t))
      BY DEF JobInv, CountersAgree
    <2>6. \A t \in Types : waiting'[t] = Cardinality(JobsOf(t)')
      <3> TAKE t \in Types
      <3>1. CASE t = type
        BY <1>3, <2>4, <2>5, <3>1
      <3>2. CASE t # type
        BY <1>3, <2>2, <2>5, <3>2
      <3> QED BY <3>1, <3>2
    <2>7. \A t \in Types : running'[t] = Cardinality(HeldBy(t)')
      BY <1>1, <1>5 DEF JobInv, CountersAgree
    <2> QED BY <1>1, <1>5, <2>6, <2>7 DEF JobInv, CountersAgree
  <1>7. SignalsMatch' /\ IsFiniteSet(Slots')
    <2>0. /\ semaphore \in Nat /\ Cardinality(Woken) \in Nat
          /\ IsFiniteSet(Slots) /\ Cardinality(Slots) \in Nat
      BY PartsFinite, FS_CardinalityType DEF JobInv, JobsFinite, TypeOK
    <2>1. CASE waiting[type] + running[type] < Limit[type]
      <3>1. semaphore' = semaphore + 1 /\ deferred' = deferred
        BY <1>a, <2>1 DEF InsertJob, QueueJob
      <3>2. /\ waiting'[type] - deferred'[type] = waiting[type] - deferred[type] + 1
            /\ \A t \in Types \ {type} :
                 waiting'[t] - deferred'[t] = waiting[t] - deferred[t]
        BY <1>0, <1>2, <1>3, <3>1, Counters
      <3>3. IsFiniteSet(Slots') /\ Cardinality(Slots') = Cardinality(Slots) + 1
        BY <1>0, <1>4, <3>2, SlotAdded
      <3>4. ASSUME NEW t \in Types
            PROVE  /\ deferred'[t] =< waiting'[t]
                   /\ Taken(t)' =< Limit[t]
                   /\ deferred'[t] > 0 => Taken(t)' = Limit[t]
        <4>1. /\ waiting[t] \in Nat /\ running[t] \in Nat /\ deferred[t] \in Nat
              /\ Limit[t] \in Nat
          BY <1>2, Counters
        <4>2. /\ deferred[t] =< waiting[t] /\ Taken(t) =< Limit[t]
              /\ deferred[t] > 0 => Taken(t) = Limit[t]
          BY DEF JobInv, SignalsMatch
        <4>3. CASE t = type
          BY <1>1, <1>3, <2>1, <3>1, <4>1, <4>2, <4>3 DEF Taken
        <4>4. CASE t # type
          BY <1>1, <1>3, <3>1, <4>1, <4>2, <4>4 DEF Taken
        <4> QED BY <4>3, <4>4
      <3> QED BY <1>5, <2>0, <3>1, <3>3, <3>4 DEF JobInv, SignalsMatch
    <2>2. CASE ~(waiting[type] + running[type] < Limit[type])
      <3>1. semaphore' = semaphore /\ deferred' = [deferred EXCEPT ![type] = @ + 1]
        BY <1>a, <2>2 DEF InsertJob, QueueJob
      <3>2. /\ deferred'[type] = deferred[type] + 1
            /\ \A t \in Types \ {type} : deferred'[t] = deferred[t]
        BY <1>0, <1>2, <3>1 DEF TypeOK
      <3>3. \A t \in Types : waiting'[t] - deferred'[t] = waiting[t] - deferred[t]
        <4> TAKE t \in Types
        <4>1. waiting[t] \in Nat /\ deferred[t] \in Nat
          BY <1>2, Counters
        <4> QED BY <1>3, <3>2, <4>1
      <3>4. Slots' = Slots
        BY <1>4, <3>3, SlotsKept
      <3>5. ASSUME NEW t \in Types
            PROVE  /\ deferred'[t] =< waiting'[t]
                   /\ Taken(t)' =< Limit[t]
                   /\ deferred'[t] > 0 => Taken(t)' = Limit[t]
        <4>1. /\ waiting[t] \in Nat /\ running[t] \in Nat /\ deferred[t] \in Nat
              /\ Limit[t] \in Nat
          BY <1>2, Counters
        <4>2. /\ deferred[t] =< waiting[t] /\ Taken(t) =< Limit[t]
              /\ deferred[t] > 0 => Taken(t) = Limit[t]
          BY DEF JobInv, SignalsMatch
        <4>3. CASE t = type
          BY <1>1, <1>3, <2>2, <3>2, <4>1, <4>2, <4>3 DEF Taken
        <4>4. CASE t # type
          BY <1>1, <1>3, <3>2, <4>1, <4>2, <4>4 DEF Taken
        <4> QED BY <4>3, <4>4
      <3> QED BY <1>5, <2>0, <3>1, <3>4, <3>5 DEF JobInv, SignalsMatch
    <2> QED BY <2>1, <2>2
  <1>8. JobsFinite'
    <2>1. IsFiniteSet(jobSet')
      BY <1>1, FS_AddElement DEF JobInv, JobsFinite
    <2>2. \A j \in jobSet' : j.index =< lastJob'
      BY <1>0, <1>1, <1>b DEF JobInv, JobsFinite, TypeOK, Jobs
    <2> QED BY <1>1, <1>4, <1>5, <1>7, <2>1, <2>2 DEF JobInv, JobsFinite
  <1> QED BY <1>6, <1>7, <1>8 DEF JobInv

(* A worker passes the semaphore: its signal moves to Woken. *)
LEMMA WakeInv ==
  ASSUME JobInv, TypeOK', NEW w \in Threads, Wake(w)
  PROVE  JobInv'
  <1>1. /\ worker[w] = "asleep" /\ worker' = [worker EXCEPT ![w] = "woken"]
        /\ semaphore' = semaphore - 1
        /\ UNCHANGED <<jobSet, lastJob, waiting, running, deferred, current,
                       processCount>>
    BY DEF Wake
  <1>2. Woken' = Woken \cup {w} /\ w \notin Woken /\ Busy' = Busy
    BY <1>1 DEF Woken, Busy, JobInv, TypeOK
  <1>3. IsFiniteSet(Woken) /\ Cardinality(Woken) \in Nat
    BY PartsFinite DEF JobInv, JobsFinite
  <1>4. Cardinality(Woken') = Cardinality(Woken) + 1
    BY <1>2, <1>3, FS_AddElement
  <1>5. /\ Slots' = Slots
        /\ \A t : JobsOf(t)' = JobsOf(t) /\ HeldBy(t)' = HeldBy(t)
        /\ \A t : Taken(t)' = Taken(t)
    BY <1>1, <1>2 DEF Slots, JobsOf, HeldBy, Taken
  <1>6. CountersAgree'
    BY <1>1, <1>2, <1>5 DEF JobInv, CountersAgree
  <1>7. SignalsMatch'
    BY <1>1, <1>3, <1>4, <1>5 DEF JobInv, SignalsMatch, TypeOK
  <1>8. JobsFinite'
    BY <1>1, <1>2, <1>5 DEF JobInv, JobsFinite
  <1> QED BY <1>6, <1>7, <1>8 DEF JobInv

(* getNextJob: the job leaves the set and its slot, the worker holds it. *)
LEMMA GetNextJobInv ==
  ASSUME JobInv, TypeOK', NEW w \in Threads, GetNextJob(w)
  PROVE  JobInv'
  <1>a. PICK j \in Runnable :
          /\ jobSet' = jobSet \ {j}
          /\ waiting' = [waiting EXCEPT ![j.type] = @ - 1]
          /\ running' = [running EXCEPT ![j.type] = @ + 1]
          /\ current' = [current EXCEPT ![w] = j.type]
    BY DEF GetNextJob
  <1>b. PICK type \in Types : type = j.type
    BY JobsPositive DEF Runnable
  <1>1. /\ worker[w] = "woken" /\ worker' = [worker EXCEPT ![w] = "got"]
        /\ processCount' = processCount + 1
        /\ UNCHANGED <<lastJob, deferred, semaphore>>
    BY DEF GetNextJob
  <1>2. /\ j \in jobSet /\ waiting[type] >= 1 /\ running[type] < Limit[type]
    BY <1>b, JobsPositive DEF Runnable, IsRunnable
  <1>3. TypeOK /\ (\A t \in Types : waiting[t] =< lastJob) /\ lastJob \in Nat
    BY DEF JobInv, JobsFinite, TypeOK
  <1>4. /\ waiting'[type] = waiting[type] - 1 /\ running'[type] = running[type] + 1
        /\ \A t \in Types \ {type} : waiting'[t] = waiting[t] /\ running'[t] = running[t]
    BY <1>a, <1>b, <1>3 DEF TypeOK
  <1>5. \A t \in Types : waiting'[t] =< lastJob'
    <2> TAKE t \in Types
    <2>1. waiting[t] \in Nat /\ waiting[t] =< lastJob
      BY <1>3 DEF TypeOK
    <2> QED BY <2>1, <1>1, <1>3, <1>4
  <1>6. /\ Woken' = Woken \ {w} /\ w \in Woken
        /\ Busy' = Busy \cup {w} /\ w \notin Busy
    BY <1>1, <1>3 DEF Woken, Busy, TypeOK
  <1>7. /\ IsFiniteSet(Woken) /\ Cardinality(Woken) \in Nat
        /\ IsFiniteSet(Busy) /\ Cardinality(Busy) \in Nat
        /\ \A t : IsFiniteSet(HeldBy(t)) /\ Cardinality(HeldBy(t)) \in Nat
        /\ \A t : IsFiniteSet(JobsOf(t)) /\ Cardinality(JobsOf(t)) \in Nat
    BY PartsFinite DEF JobInv, JobsFinite
  <1>8. CountersAgree'
    <2>1. /\ JobsOf(type)' = JobsOf(type) \ {j} /\ j \in JobsOf(type)
          /\ \A t \in Types \ {type} : JobsOf(t)' = JobsOf(t)
      BY <1>a, <1>b, <1>2 DEF JobsOf
    <2>2. /\ HeldBy(type)' = HeldBy(type) \cup {w} /\ w \notin HeldBy(type)
          /\ \A t \in Types \ {type} : HeldBy(t)' = HeldBy(t)
      BY <1>a, <1>b, <1>3, <1>6 DEF HeldBy, TypeOK, Busy
    <2>3. /\ Cardinality(JobsOf(type)') = Cardinality(JobsOf(type)) - 1
          /\ Cardinality(HeldBy(type)') = Cardinality(HeldBy(type)) + 1
          /\ Cardinality(Busy') = Cardinality(Busy) + 1
      <3>1. Cardinality(JobsOf(type) \ {j}) = Cardinality(JobsOf(type)) - 1
        BY <1>7, <2>1, FS_RemoveElement
      <3>2. Cardinality(HeldBy(type) \cup {w}) = Cardinality(HeldBy(type)) + 1
        BY <1>7, <2>2, FS_AddElement
      <3>3. Cardinality(Busy \cup {w}) = Cardinality(Busy) + 1
        BY <1>6, <1>7, FS_AddElement
      <3> QED BY <1>6, <2>1, <2>2, <3>1, <3>2, <3>3
    <2>4. \A t \in Types : /\ waiting[t] = Cardinality(JobsOf(t))
                           /\ running[t] = Cardinality(HeldBy(t))
      BY DEF JobInv, CountersAgree
    <2>5. \A t \in Types : /\ waiting'[t] = Cardinality(JobsOf(t)')
                           /\ running'[t] = Cardinality(HeldBy(t)')
      <3> TAKE t \in Types
      <3>1. CASE t = type
        BY <1>4, <2>3, <2>4, <3>1
      <3>2. CASE t # type
        BY <1>4, <2>1, <2>2, <2>4, <3>2
      <3> QED BY <3>1, <3>2
    <2> QED BY <1>1, <2>3, <2>5 DEF JobInv, CountersAgree
  <1>9. SignalsMatch' /\ IsFiniteSet(Slots')
    <2>0. semaphore \in Nat /\ IsFiniteSet(Slots) /\ Cardinality(Slots) \in Nat
      BY FS_CardinalityType DEF JobInv, JobsFinite, TypeOK
    <2>1. \A t \in Types :
            /\ waiting[t] \in Nat /\ running[t] \in Nat /\ deferred[t] \in Nat
            /\ Limit[t] \in Nat
            /\ deferred[t] =< waiting[t] /\ Taken(t) =< Limit[t]
            /\ deferred[t] > 0 => Taken(t) = Limit[t]
      BY <1>3, Counters DEF JobInv, SignalsMatch
    <2>2. waiting[type] - deferred[type] >= 1
      BY <1>2, <2>1 DEF Taken
    <2>3. /\ waiting'[type] - deferred'[type] = waiting[type] - deferred[type] - 1
          /\ \A t \in Types \ {type} :
               waiting'[t] - deferred'[t] = waiting[t] - deferred[t]
      BY <1>1, <1>4, <2>1
    <2>4. IsFiniteSet(Slots') /\ Cardinality(Slots') = Cardinality(Slots) - 1
      BY <1>5, <2>2, <2>3, SlotRemoved
    <2>5. Cardinality(Woken') = Cardinality(Woken) - 1
      BY <1>6, <1>7, FS_RemoveElement
    <2>6. ASSUME NEW t \in Types
          PROVE  /\ deferred'[t] =< waiting'[t]
                 /\ Taken(t)' =< Limit[t]
                 /\ deferred'[t] > 0 => Taken(t)' = Limit[t]
      <3>0. /\ waiting[t] \in Nat /\ running[t] \in Nat /\ deferred[t] \in Nat
            /\ Limit[t] \in Nat
            /\ deferred[t] =< waiting[t]
            /\ running[t] + waiting[t] - deferred[t] =< Limit[t]
            /\ deferred[t] > 0 => running[t] + waiting[t] - deferred[t] = Limit[t]
            /\ deferred'[t] = deferred[t]
        BY <1>1, <2>1 DEF Taken
      <3>1. CASE t = type
        BY <1>4, <2>2, <3>0, <3>1 DEF Taken
      <3>2. CASE t # type
        BY <1>4, <3>0, <3>2 DEF Taken
      <3> QED BY <3>1, <3>2
    <2> QED BY <1>1, <1>7, <2>0, <2>4, <2>5, <2>6 DEF JobInv, SignalsMatch
  <1>10. JobsFinite'
    <2>1. IsFiniteSet(jobSet')
      BY <1>a, <1>2, FS_RemoveElement DEF JobInv, JobsFinite
    <2>2. \A j1 \in jobSet' : j1.index =< lastJob'
      BY <1>a, <1>1 DEF JobInv, JobsFinite
    <2>3. \A v \in Busy' : current'[v] \in Types
      BY <1>a, <1>b, <1>3, <1>6 DEF JobInv, JobsFinite, TypeOK, Busy
    <2> QED BY <1>5, <1>9, <2>1, <2>2, <2>3 DEF JobsFinite
  <1> QED BY <1>8, <1>9, <1>10 DEF JobInv

(* finishJob: the job's slot of the limit is freed or passed on. *)
LEMMA FinishTaskInv ==
  ASSUME JobInv, TypeOK', NEW w \in Threads, FinishTask(w)
  PROVE  JobInv'
  <1>a. w \in Busy
    BY DEF FinishTask, Busy
  <1>b. PICK type \in Types : type = current[w]
    BY <1>a, HeldPositive
  <1>1. /\ worker[w] \in {"doing", "skipping"}
        /\ worker' = [worker EXCEPT ![w] = "asleep"]
        /\ current' = [current EXCEPT ![w] = NoType]
        /\ processCount' = processCount - 1
        /\ running' = [running EXCEPT ![type] = @ - 1]
        /\ UNCHANGED <<jobSet, lastJob, waiting>>
    BY <1>b DEF FinishTask, FinishJob
  <1>2. running[type] >= 1
    BY <1>a, <1>b, HeldPositive
  <1>3. TypeOK /\ (\A t \in Types : waiting[t] =< lastJob)
    BY DEF JobInv, JobsFinite
  <1>4. /\ running'[type] = running[type] - 1
        /\ \A t \in Types \ {type} : running'[t] = running[t]
    BY <1>1, <1>3 DEF TypeOK
  <1>5. \A t \in Types : waiting'[t] =< lastJob'
    BY <1>1, <1>3
  <1>6. Woken' = Woken /\ Busy' = Busy \ {w}
    BY <1>1, <1>3 DEF Woken, Busy, TypeOK
  <1>7. /\ IsFiniteSet(Woken) /\ Cardinality(Woken) \in Nat
        /\ IsFiniteSet(Busy) /\ Cardinality(Busy) \in Nat
        /\ \A t : IsFiniteSet(HeldBy(t)) /\ Cardinality(HeldBy(t)) \in Nat
    BY PartsFinite DEF JobInv, JobsFinite
  <1>8. CountersAgree'
    <2>1. \A t : JobsOf(t)' = JobsOf(t)
      BY <1>1 DEF JobsOf
    <2>2. /\ HeldBy(type)' = HeldBy(type) \ {w} /\ w \in HeldBy(type)
          /\ \A t \in Types \ {type} : HeldBy(t)' = HeldBy(t)
      BY <1>a, <1>b, <1>1, <1>3, <1>6 DEF HeldBy, TypeOK, Busy
    <2>3. /\ Cardinality(HeldBy(type)') = Cardinality(HeldBy(type)) - 1
          /\ Cardinality(Busy') = Cardinality(Busy) - 1
      <3>1. Cardinality(HeldBy(type) \ {w}) = Cardinality(HeldBy(type)) - 1
        BY <1>7, <2>2, FS_RemoveElement
      <3>2. Cardinality(Busy \ {w}) = Cardinality(Busy) - 1
        BY <1>a, <1>7, FS_RemoveElement
      <3> QED BY <1>6, <2>2, <3>1, <3>2
    <2>4. \A t \in Types : /\ waiting[t] = Cardinality(JobsOf(t))
                           /\ running[t] = Cardinality(HeldBy(t))
      BY DEF JobInv, CountersAgree
    <2>5. \A t \in Types : /\ waiting'[t] = Cardinality(JobsOf(t)')
                           /\ running'[t] = Cardinality(HeldBy(t)')
      <3> TAKE t \in Types
      <3>1. CASE t = type
        BY <1>1, <1>4, <2>1, <2>3, <2>4, <3>1
      <3>2. CASE t # type
        BY <1>1, <1>4, <2>1, <2>2, <2>4, <3>2
      <3> QED BY <3>1, <3>2
    <2> QED BY <1>1, <2>3, <2>5 DEF JobInv, CountersAgree
  <1>9. SignalsMatch' /\ IsFiniteSet(Slots')
    <2>0. semaphore \in Nat /\ IsFiniteSet(Slots) /\ Cardinality(Slots) \in Nat
      BY FS_CardinalityType DEF JobInv, JobsFinite, TypeOK
    <2>1. \A t \in Types :
            /\ waiting[t] \in Nat /\ running[t] \in Nat /\ deferred[t] \in Nat
            /\ Limit[t] \in Nat
            /\ deferred[t] =< waiting[t]
            /\ running[t] + waiting[t] - deferred[t] =< Limit[t]
            /\ deferred[t] > 0 => running[t] + waiting[t] - deferred[t] = Limit[t]
      BY <1>3, Counters DEF JobInv, SignalsMatch, Taken
    <2>2. CASE deferred[type] > 0
      <3>1. /\ semaphore' = semaphore + 1
            /\ deferred' = [deferred EXCEPT ![type] = @ - 1]
        BY <1>b, <2>2 DEF FinishTask, FinishJob
      <3>2. /\ deferred'[type] = deferred[type] - 1
            /\ \A t \in Types \ {type} : deferred'[t] = deferred[t]
        BY <1>3, <3>1 DEF TypeOK
      <3>3. /\ waiting'[type] - deferred'[type] = waiting[type] - deferred[type] + 1
            /\ \A t \in Types \ {type} :
                 waiting'[t] - deferred'[t] = waiting[t] - deferred[t]
        BY <1>1, <2>1, <3>2
      <3>4. IsFiniteSet(Slots') /\ Cardinality(Slots') = Cardinality(Slots) + 1
        BY <1>5, <3>3, SlotAdded
      <3>5. ASSUME NEW t \in Types
            PROVE  /\ deferred'[t] =< waiting'[t]
                   /\ Taken(t)' =< Limit[t]
                   /\ deferred'[t] > 0 => Taken(t)' = Limit[t]
        <4>1. CASE t = type
          BY <1>1, <1>4, <2>1, <2>2, <3>2, <4>1 DEF Taken
        <4>2. CASE t # type
          BY <1>1, <1>4, <2>1, <3>2, <4>2 DEF Taken
        <4> QED BY <4>1, <4>2
      <3> QED BY <1>6, <1>7, <2>0, <3>1, <3>4, <3>5 DEF JobInv, SignalsMatch
    <2>3. CASE ~(deferred[type] > 0)
      <3>1. semaphore' = semaphore /\ deferred' = deferred
        BY <1>b, <2>3 DEF FinishTask, FinishJob
      <3>2. Slots' = Slots
        BY <1>1, <3>1 DEF Slots
      <3>3. ASSUME NEW t \in Types
            PROVE  /\ deferred'[t] =< waiting'[t]
                   /\ Taken(t)' =< Limit[t]
                   /\ deferred'[t] > 0 => Taken(t)' = Limit[t]
        <4>1. CASE t = type
          BY <1>1, <1>2, <1>4, <2>1, <2>3, <3>1, <4>1 DEF Taken
        <4>2. CASE t # type
          BY <1>1, <1>4, <2>1, <3>1, <4>2 DEF Taken
        <4> QED BY <4>1, <4>2
      <3> QED BY <1>6, <2>0, <3>1, <3>2, <3>3 DEF JobInv, SignalsMatch
    <2> QED BY <2>2, <2>3
  <1>10. JobsFinite'
    <2>1. \A v \in Busy' : current'[v] \in Types
      BY <1>1, <1>3, <1>6 DEF JobInv, JobsFinite, TypeOK, Busy
    <2> QED BY <1>1, <1>5, <1>9, <2>1 DEF JobInv, JobsFinite
  <1> QED BY <1>8, <1>9, <1>10 DEF JobInv

(* The inductive step. *)
LEMMA JobInvInductive == JobInv /\ [Next]_vars => JobInv'
  <1> SUFFICES ASSUME JobInv, [Next]_vars PROVE JobInv'
    OBVIOUS
  <1>0. TypeOK /\ TypeOK'
    BY TypeStep DEF JobInv
  <1>1. ASSUME NEW c \in Callers, NEW type \in Types, AddJob(c, type)
        PROVE  JobInv'
    <2>1. Woken' = Woken /\ Busy' = Busy
      BY <1>1 DEF AddJob, workers, Woken, Busy
    <2> QED BY <1>0, <1>1, <2>1, FrameJobInv DEF AddJob, workers
  <1>2. ASSUME NEW w \in Threads, StartJob(w) PROVE JobInv'
    <2>1. Woken' = Woken /\ Busy' = Busy
      BY <1>0, <1>2 DEF StartJob, Woken, Busy, TypeOK
    <2> QED BY <1>0, <1>2, <2>1, FrameJobInv DEF StartJob
  <1>3. ASSUME UNCHANGED <<jobSet, lastJob, counts, workers>> PROVE JobInv'
    <2>1. Woken' = Woken /\ Busy' = Busy
      BY <1>3 DEF workers, Woken, Busy
    <2> QED BY <1>0, <1>3, <2>1, FrameJobInv DEF workers
  <1>4. ASSUME NEW w \in Threads, WorkerStep(w) PROVE JobInv'
    BY <1>0, <1>2, <1>4, WakeInv, GetNextJobInv, FinishTaskInv DEF WorkerStep
  <1>5. ASSUME StopStep PROVE JobInv'
    BY <1>3, <1>5 DEF StopStep, ChildrenStopped, OnChildrenStopped, Stopped
  <1>6. ASSUME StopAsync PROVE JobInv'
    BY <1>3, <1>6 DEF StopAsync
  <1>7. ASSUME NEW c \in Children, ChildStops(c) PROVE JobInv'
    BY <1>3, <1>7 DEF ChildStops
  <1>8. CASE UNCHANGED vars
    BY <1>3, <1>8 DEF vars
  <1> QED BY <1>0, <1>1, <1>4, <1>5, <1>6, <1>7, <1>8, InsertJobInv DEF Next

(* A woken worker finds a runnable job: its signal stands for a slot, the  *)
(* slot for a waiting job that is not deferred, and a type with such a job *)
(* is below its limit.                                                     *)
LEMMA JobInvImplies == JobInv => WithinLimit /\ RunnableExists
  <1> SUFFICES ASSUME JobInv PROVE WithinLimit /\ RunnableExists
    OBVIOUS
  <1>1. \A t \in Types :
          /\ waiting[t] \in Nat /\ running[t] \in Nat /\ deferred[t] \in Nat
          /\ Limit[t] \in Nat
          /\ deferred[t] =< waiting[t]
          /\ running[t] + waiting[t] - deferred[t] =< Limit[t]
    BY Counters DEF JobInv, SignalsMatch, Taken
  <1>2. WithinLimit
    BY <1>1 DEF WithinLimit
  <1>3. ASSUME Woken # {} PROVE Runnable # {}
    <2>1. /\ IsFiniteSet(Woken) /\ Cardinality(Woken) \in Nat
          /\ \A t : IsFiniteSet(JobsOf(t)) /\ Cardinality(JobsOf(t)) \in Nat
      BY PartsFinite DEF JobInv, JobsFinite
    <2>2. Cardinality(Woken) # 0
      BY <1>3, <2>1, FS_EmptySet
    <2>3. Cardinality(Slots) # 0
      BY <2>1, <2>2 DEF JobInv, SignalsMatch, TypeOK
    <2>4. Slots # {}
      BY <2>3, FS_EmptySet
    <2>5. PICK s \in Slots : TRUE
      BY <2>4
    <2>6. PICK t \in Types : s[1] = t
      BY DEF Slots
    <2>7. lastJob \in Nat
      BY DEF JobInv, TypeOK
    <2>8. waiting[t] - deferred[t] >= 1
      BY <1>1, <2>6, <2>7 DEF Slots
    <2>9. Cardinality(JobsOf(t)) # 0 /\ running[t] < Limit[t]
      BY <1>1, <2>8 DEF JobInv, CountersAgree
    <2>10. JobsOf(t) # {}
      BY <2>9, FS_EmptySet
    <2> QED BY <2>9, <2>10 DEF JobsOf, Runnable, IsRunnable
  <1> QED BY <1>2, <1>3 DEF RunnableExists

(* The counters of the job queue stay natural numbers and agree with the   *)
(* jobs and threads they count, and signals with the jobs they stand for.  *)
THEOREM CountersCorrect == Spec => [](TypeOK /\ CountersAgree /\ SignalsMatch)
  <1>1. JobInv => TypeOK /\ CountersAgree /\ SignalsMatch
    BY DEF JobInv
  <1> QED BY <1>1, InitJobInv, JobInvInductive, PTL DEF Spec

(* No job type exceeds its limit, and getNextJob never runs off the end of *)
(* the job set: the assertion of getNextJob holds for any limits, threads  *)
(* and callers.                                                            *)
THEOREM DispatchCorrect == Spec => [](WithinLimit /\ RunnableExists)
  BY InitJobInv, JobInvInductive, JobInvImplies, PTL DEF Spec

-----------------------------------------------------------------------------
(* Shutting down.  A worker with a job holds its index; once the event is   *)
(* signalled no job that was let in waits or runs, and since only such a   *)
(* job could let in another one, none ever will.                           *)
NoneLegal ==
  /\ \A j \in jobSet : j.index \notin legal
  /\ \A w \in Busy : held[w] \notin legal

StopInv ==
  /\ \A w \in Threads : adding[w] # NoType => w \in Busy
  /\ \A i \in legal : i =< lastJob
  /\ event => NoneLegal /\ childrenStopped
  /\ stopper = "done" => event

LEMMA InitStopInv == Init => StopInv
  BY DEF Init, StopInv, Callers

(* At a stop condition nothing waits and nothing runs. *)
LEMMA NothingLeft ==
  ASSUME JobInv, StopCondition(0), processCount = 0
  PROVE  jobSet = {} /\ Busy = {} /\ childrenStopped
  <1>1. IsFiniteSet(Busy) /\ Cardinality(Busy) \in Nat
    BY PartsFinite DEF JobInv, JobsFinite
  <1> QED BY <1>1, FS_EmptySet DEF StopCondition, JobInv, CountersAgree

LEMMA StopInvInductive ==
  JobInv /\ StopInv /\ [Next]_vars => StopInv'
  <1> SUFFICES ASSUME JobInv, StopInv, [Next]_vars PROVE StopInv'
    OBVIOUS
  <1>0. TypeOK /\ TypeOK'
    BY TypeStep DEF JobInv
  <1>1. ASSUME NEW c \in Callers, NEW type \in Types, AddJob(c, type)
        PROVE  StopInv'
    <2>1. UNCHANGED <<jobSet, lastJob, worker, held, childrenStopped, event,
                      stopper, legal>>
      BY <1>1 DEF AddJob, workers, stop
    <2>2. Busy' = Busy /\ NoneLegal' = NoneLegal
      BY <2>1 DEF Busy, NoneLegal
    <2>3. \A w \in Threads : adding'[w] # NoType => w \in Busy
      BY <1>0, <1>1 DEF AddJob, TypeOK, StopInv, Callers, Busy
    <2> QED BY <2>1, <2>2, <2>3 DEF StopInv
  <1>2. ASSUME NEW c \in Callers, InsertJob(c) PROVE StopInv'
    <2>1. /\ UNCHANGED <<worker, held, childrenStopped, event, stopper>>
          /\ adding[c] # NoType
          /\ adding' = [adding EXCEPT ![c] = NoType]
          /\ lastJob' = lastJob + 1 /\ lastJob \in Nat
          /\ jobSet' = jobSet \cup {[type |-> adding[c], index |-> lastJob + 1]}
          /\ legal' = IF AddRule(c) THEN legal \cup {lastJob + 1} ELSE legal
      BY <1>0, <1>2 DEF InsertJob, workers, stop, TypeOK
    <2>2. Busy' = Busy
      BY <2>1 DEF Busy
    <2>3. \A w \in Threads : adding'[w] # NoType => w \in Busy'
      BY <1>0, <2>1, <2>2 DEF TypeOK, StopInv, Callers
    <2>4. \A i \in legal' : i =< lastJob'
      BY <1>0, <2>1 DEF TypeOK, StopInv
    <2>5. ASSUME event PROVE NoneLegal' /\ childrenStopped
      <3>1. childrenStopped /\ NoneLegal
        BY <2>5 DEF StopInv
      <3>2. c \in Threads => c \in Busy
        BY <2>1 DEF StopInv
      <3>3. legal' = legal
        BY <2>1, <3>1, <3>2 DEF AddRule, NoneLegal
      <3>4. lastJob + 1 \notin legal
        BY <1>0, <2>1 DEF StopInv, TypeOK
      <3> QED BY <2>1, <2>2, <3>1, <3>3, <3>4 DEF NoneLegal
    <2> QED BY <2>1, <2>3, <2>4, <2>5 DEF StopInv
  <1>3. ASSUME NEW w \in Threads, Wake(w) PROVE StopInv'
    <2>1. /\ UNCHANGED <<jobSet, lastJob, held, adding, childrenStopped, event,
                         stopper, legal>>
          /\ worker[w] = "asleep" /\ worker' = [worker EXCEPT ![w] = "woken"]
      BY <1>3 DEF Wake, stop
    <2>2. Busy' = Busy
      BY <1>0, <2>1 DEF Busy, TypeOK
    <2> QED BY <2>1, <2>2 DEF StopInv, NoneLegal
  <1>4. ASSUME NEW w \in Threads, GetNextJob(w) PROVE StopInv'
    <2>1. /\ UNCHANGED <<lastJob, adding, childrenStopped, event, stopper, legal>>
          /\ worker[w] = "woken" /\ worker' = [worker EXCEPT ![w] = "got"]
      BY <1>4 DEF GetNextJob, stop
    <2>2. PICK j \in jobSet : /\ jobSet' = jobSet \ {j}
                              /\ held' = [held EXCEPT ![w] = j.index]
      BY <1>4 DEF GetNextJob, Runnable
    <2>3. Busy' = Busy \cup {w} /\ w \notin Busy
      BY <1>0, <2>1 DEF Busy, TypeOK
    <2>4. NoneLegal => NoneLegal'
      BY <1>0, <2>1, <2>2, <2>3 DEF NoneLegal, TypeOK, Busy
    <2> QED BY <2>1, <2>3, <2>4 DEF StopInv
  <1>5. ASSUME NEW w \in Threads, StartJob(w) PROVE StopInv'
    <2>1. /\ UNCHANGED <<jobSet, lastJob, held, adding, childrenStopped, event,
                         stopper, legal>>
          /\ worker[w] = "got"
          /\ worker' = [worker EXCEPT ![w] =
               IF stopping /\ current[w] \in Skip THEN "skipping" ELSE "doing"]
      BY <1>5 DEF StartJob, stop
    <2>2. Busy' = Busy
      BY <1>0, <2>1 DEF Busy, TypeOK
    <2> QED BY <2>1, <2>2 DEF StopInv, NoneLegal
  <1>6. ASSUME NEW w \in Threads, FinishTask(w) PROVE StopInv'
    <2>1. /\ UNCHANGED <<jobSet, lastJob, adding, childrenStopped, stopper, legal>>
          /\ adding[w] = NoType
          /\ worker' = [worker EXCEPT ![w] = "asleep"]
          /\ held' = [held EXCEPT ![w] = 0]
          /\ processCount' = processCount - 1
          /\ event' = (event \/ StopCondition(processCount - 1))
      BY <1>6 DEF FinishTask
    <2>2. w \in Busy /\ Busy' = Busy \ {w}
      BY <1>0, <1>6 DEF FinishTask, Busy, TypeOK
    <2>3. \A v \in Threads : adding'[v] # NoType => v \in Busy'
      BY <2>1, <2>2 DEF StopInv
    <2>4. NoneLegal => NoneLegal'
      BY <1>0, <2>1, <2>2 DEF NoneLegal, TypeOK, Busy
    <2>5. ASSUME StopCondition(processCount - 1)
          PROVE  NoneLegal' /\ childrenStopped
      <3>1. jobSet = {} /\ childrenStopped /\ processCount - 1 = 0
        BY <2>5 DEF StopCondition
      <3>2. IsFiniteSet(Busy) /\ Cardinality(Busy) \in Nat
        BY PartsFinite DEF JobInv, JobsFinite
      <3>3. Cardinality(Busy \ {w}) = Cardinality(Busy) - 1
        BY <2>2, <3>2, FS_RemoveElement
      <3>4. IsFiniteSet(Busy \ {w}) /\ Cardinality(Busy \ {w}) = 0
        BY <2>2, <3>1, <3>2, <3>3, FS_RemoveElement DEF JobInv, CountersAgree
      <3>5. jobSet' = {} /\ Busy' = {}
        BY <2>1, <2>2, <3>1, <3>4, FS_EmptySet
      <3> QED BY <3>1, <3>5 DEF NoneLegal
    <2> QED BY <2>1, <2>3, <2>4, <2>5 DEF StopInv
  <1>7. ASSUME UNCHANGED <<jobSet, lastJob, workers, adding, legal>>,
               event' => event \/ StopCondition(processCount),
               childrenStopped => childrenStopped',
               stopper' = "done" => event',
               event => event'
        PROVE  StopInv'
    <2>1. Busy' = Busy /\ NoneLegal' = NoneLegal
      BY <1>7 DEF Busy, NoneLegal, workers
    <2>2. StopCondition(processCount) => NoneLegal /\ childrenStopped
      <3>1. StopCondition(processCount) => processCount = 0 /\ StopCondition(0)
        BY DEF StopCondition
      <3> QED BY <3>1, NothingLeft DEF NoneLegal
    <2> QED BY <1>7, <2>1, <2>2 DEF StopInv
  <1>8. ASSUME StopAsync \/ StopStep \/ \E c \in Children : ChildStops(c)
        PROVE  StopInv'
    BY <1>7, <1>8 DEF StopAsync, StopStep, ChildStops, ChildrenStopped,
       OnChildrenStopped, Stopped, StopInv
  <1>9. CASE UNCHANGED vars
    BY <1>7, <1>9 DEF vars, stop, StopInv
  <1> QED BY <1>1, <1>2, <1>3, <1>4, <1>5, <1>6, <1>8, <1>9
          DEF Next, WorkerStep

(* Every job that was added before all children of the queue had stopped,  *)
(* or by such a job while it ran, is done when stopRecursive takes the     *)
(* queue as stopped, for any callers: threads that add a job in the course *)
(* of the shutdown, or after it, do not change that.                       *)
THEOREM StopCorrect == Spec => []StopRunsJobs
  <1>1. JobInv /\ StopInv /\ [Next]_vars => JobInv' /\ StopInv'
    BY JobInvInductive, StopInvInductive
  <1>2. StopInv => StopRunsJobs
    BY DEF StopInv, NoneLegal, StopRunsJobs, IsStopped
  <1> QED BY <1>1, <1>2, InitJobInv, InitStopInv, PTL DEF Spec
================================================================================
