-------------------------- MODULE BatchWriter_proofs -------------------------
(***************************************************************************)
(* Proofs about BatchWriter, for any set of objects, any number of worker  *)
(* threads and any number of calls of store: there is one task at a time,  *)
(* the load that getWriteLoad reports is honest, and the queue implements  *)
(* the abstract write-behind queue.                                        *)
(***************************************************************************)
EXTENDS BatchWriter, SequenceTheorems, TLAPS

(* A batch is held only while it is being written, and then it is not      *)
(* empty.                                                                  *)
BatchesHeld ==
  \A w \in Workers : (writer[w].at = "writing") <=> (writer[w].set # <<>>)

(* The load remembers the size of the batch that is being written. *)
LoadIsBatch ==
  \A w \in Workers : writer[w].at = "writing" => mWriteLoad = Len(writer[w].set)

(* Nothing is stored once the destructor runs, and a destructor that is    *)
(* blocked has a task that will notify it.                                 *)
MarkExact ==
  /\ destructor # "away" => mark = StoredSoFar
  /\ destructor = "away" => mark = 0

QueueInv == TypeOK /\ OneTask /\ BatchesHeld /\ LoadIsBatch /\ MarkExact

(* What the batch of the abstract queue is. *)
LEMMA BatchOfWriter ==
  ASSUME OneTask, NEW w \in Workers, writer[w].at = "writing"
  PROVE  InBatch = writer[w].set
  <1>1. (CHOOSE x \in Workers : writer[x].at = "writing") = w
    BY DEF OneTask
  <1> QED BY <1>1 DEF InBatch

LEMMA NoBatch ==
  ASSUME \A w \in Workers : writer[w].at # "writing"
  PROVE  InBatch = <<>>
  BY DEF InBatch

LEMMA BatchOfWriterNext ==
  ASSUME OneTask', NEW w \in Workers, writer'[w].at = "writing"
  PROVE  InBatch' = writer'[w].set
  <1>1. (CHOOSE x \in Workers : writer'[x].at = "writing") = w
    BY DEF OneTask
  <1> QED BY <1>1 DEF InBatch

LEMMA NoBatchNext ==
  ASSUME \A w \in Workers : writer'[w].at # "writing"
  PROVE  InBatch' = <<>>
  BY DEF InBatch

LEMMA BatchIsSeq == TypeOK /\ OneTask => InBatch \in Seq(Objects)
  <1> SUFFICES ASSUME TypeOK, OneTask PROVE InBatch \in Seq(Objects)
    OBVIOUS
  <1>1. CASE \E w \in Workers : writer[w].at = "writing"
    <2> PICK w \in Workers : writer[w].at = "writing"
      BY <1>1
    <2>1. InBatch = writer[w].set
      BY BatchOfWriter
    <2> QED BY <2>1 DEF TypeOK
  <1>2. CASE \A w \in Workers : writer[w].at # "writing"
    BY <1>2, NoBatch, EmptySeq
  <1> QED BY <1>1, <1>2

-----------------------------------------------------------------------------
LEMMA InitInv == Init => QueueInv
  <1> SUFFICES ASSUME Init PROVE QueueInv
    OBVIOUS
  <1>1. \A w \in Workers : writer[w] = Idle
    BY DEF Init
  <1>2. TypeOK
    <2>1. <<>> \in Seq(Objects)
      BY EmptySeq
    <2>2. Idle \in [at: {"idle", "writing", "written"}, set: Seq(Objects)]
      BY <2>1 DEF Idle
    <2>3. writer \in [Workers -> [at: {"idle", "writing", "written"},
                                  set: Seq(Objects)]]
      BY <2>2 DEF Init
    <2> QED BY <2>1, <2>3 DEF Init, TypeOK
  <1>3. OneTask /\ BatchesHeld /\ LoadIsBatch
    BY <1>1 DEF Init, Idle, OneTask, BatchesHeld, LoadIsBatch
  <1> QED BY <1>2, <1>3 DEF QueueInv, MarkExact, Init

(* One turn of the loop of writeBatch keeps the types. *)
LEMMA TakeBatchTypes ==
  ASSUME TypeOK, NEW w \in Workers, TakeBatch(w)
  PROVE  /\ mWriteSet' \in Seq(Objects) /\ mWriteLoad' \in Nat
         /\ mWritePending' \in BOOLEAN
         /\ writer' \in [Workers -> [at: {"idle", "writing", "written"},
                                     set: Seq(Objects)]]
         /\ destructor' \in {"away", "entering", "blocked", "woken", "returned"}
  <1>1. <<>> \in Seq(Objects)
    BY EmptySeq
  <1>2. mWriteSet \in Seq(Objects) /\ Len(mWriteSet) \in Nat
    BY LenProperties DEF TypeOK
  <1>3. mWriteSet' \in Seq(Objects) /\ mWriteLoad' \in Nat
    BY <1>1, <1>2 DEF TakeBatch
  <1>4. mWritePending' \in BOOLEAN
    BY DEF TakeBatch, TypeOK
  <1>5. Idle \in [at: {"idle", "writing", "written"}, set: Seq(Objects)]
    BY <1>1 DEF Idle
  <1>6. [at |-> "writing", set |-> mWriteSet]
          \in [at: {"idle", "writing", "written"}, set: Seq(Objects)]
    BY <1>2
  <1>7. writer' \in [Workers -> [at: {"idle", "writing", "written"},
                                 set: Seq(Objects)]]
    BY <1>5, <1>6 DEF TakeBatch, TypeOK
  <1>8. destructor' \in {"away", "entering", "blocked", "woken", "returned"}
    BY DEF TakeBatch, TypeOK
  <1> QED BY <1>3, <1>4, <1>7, <1>8

LEMMA TypeStep == TypeOK /\ OneTask /\ [Next]_vars => TypeOK'
  <1> SUFFICES ASSUME TypeOK, OneTask, [Next]_vars PROVE TypeOK'
    OBVIOUS
  <1>1. ASSUME NEW o \in Objects, Store(o) PROVE TypeOK'
    <2>1. mWriteSet' \in Seq(Objects) /\ tasks' \in Nat
      BY <1>1 DEF TypeOK, Store, Schedule
    <2>2. mWritePending' \in BOOLEAN
      BY <1>1 DEF Store, Schedule
    <2> QED BY <1>1, <2>1, <2>2 DEF TypeOK, Store
  <1>2. ASSUME NEW w \in Workers, TaskStart(w) PROVE TypeOK'
    <2>1. tasks' \in Nat
      BY <1>2 DEF TypeOK, TaskStart
    <2>2. TakeBatch(w) /\ UNCHANGED <<backend, mark>>
      BY <1>2 DEF TaskStart
    <2> QED BY <2>1, <2>2, TakeBatchTypes DEF TypeOK
  <1>3. ASSUME NEW w \in Workers, TaskWrite(w) PROVE TypeOK'
    <2>1. writer[w].set \in Seq(Objects)
      BY DEF TypeOK
    <2>2. backend' \in Seq(Objects)
      BY <1>3, <2>1, ConcatProperties DEF TypeOK, TaskWrite
    <2>3. [at |-> "written", set |-> <<>>]
            \in [at: {"idle", "writing", "written"}, set: Seq(Objects)]
      BY EmptySeq
    <2>4. writer' \in [Workers -> [at: {"idle", "writing", "written"},
                                   set: Seq(Objects)]]
      BY <1>3, <2>3 DEF TypeOK, TaskWrite
    <2> QED BY <1>3, <2>2, <2>4 DEF TypeOK, TaskWrite
  <1>4. ASSUME NEW w \in Workers, TaskLoop(w) PROVE TypeOK'
    <2>1. TakeBatch(w) /\ UNCHANGED <<tasks, backend, mark>>
      BY <1>4 DEF TaskLoop
    <2> QED BY <2>1, TakeBatchTypes DEF TypeOK
  <1>5. CASE Destroy
    <2>1. StoredSoFar \in Nat
      BY BatchIsSeq, LenProperties DEF StoredSoFar, TypeOK
    <2> QED BY <1>5, <2>1 DEF TypeOK, Destroy
  <1>6. CASE WaitForWriting
    BY <1>6 DEF TypeOK, WaitForWriting, LeaveOrBlock
  <1>7. CASE UNCHANGED vars
    BY <1>7 DEF TypeOK, vars
  <1> QED BY <1>1, <1>2, <1>3, <1>4, <1>5, <1>6, <1>7 DEF Next

(* How the writers stand after one turn of the loop of writeBatch. *)
LEMMA TakeBatchWriters ==
  ASSUME TypeOK, NEW w \in Workers, TakeBatch(w)
  PROVE  /\ \A x \in Workers : x # w => writer'[x] = writer[x]
         /\ mWriteSet' = <<>>
         /\ mWriteSet # <<>> =>
              /\ mWriteLoad' = Len(mWriteSet)
              /\ writer'[w].at = "writing" /\ writer'[w].set = mWriteSet
              /\ mWritePending' = mWritePending /\ destructor' = destructor
         /\ mWriteSet = <<>> =>
              /\ writer'[w].at = "idle" /\ writer'[w].set = <<>>
              /\ mWriteLoad' = 0
              /\ mWritePending' = FALSE
              /\ destructor' = IF destructor = "blocked" THEN "woken"
                                                         ELSE destructor
  BY DEF TypeOK, TakeBatch, Idle

(* The only writer takes a turn. *)
LEMMA TakeBatchOneTask ==
  ASSUME TypeOK, NEW w \in Workers, TakeBatch(w), mWritePending, tasks' = 0,
         \A x \in Workers : x # w => writer[x].at = "idle"
  PROVE  OneTask'
  <1>0. \A x \in Workers : x # w => writer'[x] = writer[x]
    BY TakeBatchWriters
  <1>1. \A x \in Workers : x # w => writer'[x].at = "idle"
    BY <1>0
  <1>2. mWriteSet' = <<>>
    BY TakeBatchWriters
  <1>3. mWritePending' <=> writer'[w].at # "idle"
    <2>1. CASE mWriteSet # <<>>
      <3>1. mWritePending' = mWritePending /\ writer'[w].at = "writing"
        BY <2>1, TakeBatchWriters
      <3> QED BY <3>1
    <2>2. CASE mWriteSet = <<>>
      <3>1. mWritePending' = FALSE /\ writer'[w].at = "idle"
        BY <2>2, TakeBatchWriters
      <3> QED BY <3>1
    <2> QED BY <2>1, <2>2
  <1> QED BY <1>1, <1>2, <1>3 DEF OneTask

LEMMA OneTaskStep == TypeOK /\ OneTask /\ [Next]_vars => OneTask'
  <1> SUFFICES ASSUME TypeOK, OneTask, [Next]_vars PROVE OneTask'
    OBVIOUS
  <1>1. ASSUME NEW o \in Objects, Store(o) PROVE OneTask'
    <2>1. CASE mWritePending
      BY <1>1, <2>1 DEF TypeOK, OneTask, Store, Schedule
    <2>2. CASE ~ mWritePending
      <3>1. tasks = 0 /\ \A w \in Workers : writer[w].at = "idle"
        BY <2>2 DEF OneTask
      <3>2. tasks' = 1 /\ mWritePending' /\ writer' = writer
        BY <1>1, <2>2, <3>1 DEF Store, Schedule
      <3> QED BY <3>1, <3>2 DEF OneTask
    <2> QED BY <2>1, <2>2
  <1>2. ASSUME NEW w \in Workers, TaskStart(w) PROVE OneTask'
    <2>1. tasks = 1 /\ tasks' = 0 /\ mWritePending
      BY <1>2 DEF OneTask, TaskStart
    <2>2. \A x \in Workers : writer[x].at = "idle"
      BY <2>1 DEF OneTask
    <2>3. TakeBatch(w)
      BY <1>2 DEF TaskStart
    <2> QED BY <2>1, <2>2, <2>3, TakeBatchOneTask
  <1>3. ASSUME NEW w \in Workers, TaskWrite(w) PROVE OneTask'
    <2>1. \A x \in Workers : writer'[x].at # "idle" <=> writer[x].at # "idle"
      BY <1>3 DEF TaskWrite, TypeOK
    <2> QED BY <1>3, <2>1 DEF OneTask, TaskWrite
  <1>4. ASSUME NEW w \in Workers, TaskLoop(w) PROVE OneTask'
    <2>1. tasks = 0 /\ tasks' = 0 /\ mWritePending /\ TakeBatch(w)
      BY <1>4 DEF OneTask, TaskLoop
    <2>2. \A x \in Workers : x # w => writer[x].at = "idle"
      BY <1>4 DEF OneTask, TaskLoop
    <2> QED BY <2>1, <2>2, TakeBatchOneTask
  <1>5. CASE Destroy
    BY <1>5 DEF OneTask, Destroy
  <1>6. CASE WaitForWriting
    BY <1>6 DEF OneTask, WaitForWriting
  <1>7. CASE UNCHANGED vars
    BY <1>7 DEF OneTask, vars
  <1> QED BY <1>1, <1>2, <1>3, <1>4, <1>5, <1>6, <1>7 DEF Next

LEMMA BatchStep ==
  TypeOK /\ OneTask /\ BatchesHeld /\ LoadIsBatch /\ [Next]_vars
    => BatchesHeld' /\ LoadIsBatch'
  <1> SUFFICES ASSUME TypeOK, OneTask, BatchesHeld, LoadIsBatch, [Next]_vars
               PROVE  BatchesHeld' /\ LoadIsBatch'
    OBVIOUS
  <1>1. ASSUME NEW w \in Workers, TakeBatch(w),
               \A x \in Workers : x # w => writer[x].at = "idle"
        PROVE  BatchesHeld' /\ LoadIsBatch'
    <2>1. \A x \in Workers : x # w => writer'[x] = writer[x]
      BY <1>1, TakeBatchWriters
    <2>2. writer'[w].at = "writing" <=> writer'[w].set # <<>>
      BY <1>1, TakeBatchWriters
    <2>3. writer'[w].at = "writing" => mWriteLoad' = Len(writer'[w].set)
      BY <1>1, TakeBatchWriters
    <2> QED BY <1>1, <2>1, <2>2, <2>3 DEF BatchesHeld, LoadIsBatch
  <1>2. ASSUME NEW w \in Workers, TaskStart(w)
        PROVE  BatchesHeld' /\ LoadIsBatch'
    <2>1. TakeBatch(w) /\ \A x \in Workers : writer[x].at = "idle"
      BY <1>2 DEF TaskStart, OneTask
    <2> QED BY <1>1, <2>1
  <1>3. ASSUME NEW w \in Workers, TaskWrite(w)
        PROVE  BatchesHeld' /\ LoadIsBatch'
    <2>1. writer'[w] = [at |-> "written", set |-> <<>>]
      BY <1>3 DEF TaskWrite, TypeOK
    <2>2. \A x \in Workers : x # w => writer'[x] = writer[x]
      BY <1>3 DEF TaskWrite, TypeOK
    <2>3. mWriteLoad' = mWriteLoad
      BY <1>3 DEF TaskWrite
    <2> QED BY <2>1, <2>2, <2>3 DEF BatchesHeld, LoadIsBatch
  <1>4. ASSUME NEW w \in Workers, TaskLoop(w)
        PROVE  BatchesHeld' /\ LoadIsBatch'
    <2>1. TakeBatch(w) /\ \A x \in Workers : x # w => writer[x].at = "idle"
      BY <1>4 DEF TaskLoop, OneTask
    <2> QED BY <1>1, <2>1
  <1>5. CASE UNCHANGED <<writer, mWriteLoad>>
    BY <1>5 DEF BatchesHeld, LoadIsBatch
  <1> QED
    BY <1>2, <1>3, <1>4, <1>5 DEF Next, Store, Destroy, WaitForWriting, vars

-----------------------------------------------------------------------------
(* Each action in the eyes of the abstract queue. *)
Pending == InBatch \o mWriteSet

LEMMA BatchSame ==
  ASSUME UNCHANGED writer PROVE InBatch' = InBatch
  BY DEF InBatch

(* An object is appended behind the batch. *)
LEMMA StoreAppends ==
  ASSUME TypeOK, OneTask, NEW o \in Objects, Store(o)
  PROVE  /\ Pending' = Append(Pending, o) /\ Pending \in Seq(Objects)
         /\ backend' = backend /\ destructor' = destructor /\ mark' = mark
         /\ destructor = "away"
  <1>1. InBatch \in Seq(Objects) /\ mWriteSet \in Seq(Objects)
    BY BatchIsSeq DEF TypeOK
  <1>2. Pending' = InBatch \o Append(mWriteSet, o)
    BY BatchSame DEF Store, Pending
  <1>3. InBatch \o Append(mWriteSet, o) = Append(InBatch \o mWriteSet, o)
    BY <1>1
  <1>4. InBatch \o mWriteSet \in Seq(Objects)
    BY <1>1, ConcatProperties
  <1> QED BY <1>2, <1>3, <1>4 DEF Store, Pending

(* The batch becomes the part that is being written: nothing moves. *)
LEMMA TakeBatchKeeps ==
  ASSUME TypeOK, OneTask, OneTask', NEW w \in Workers, TakeBatch(w),
         \A x \in Workers : writer[x].at # "writing"
  PROVE  Pending' = Pending
  <1>1. mWriteSet \in Seq(Objects)
    BY DEF TypeOK
  <1>2. InBatch = <<>>
    BY NoBatch
  <1>3. CASE writer'[w].at = "writing"
    <2>1. writer'[w].set = mWriteSet /\ mWriteSet' = <<>>
      BY <1>3, TakeBatchWriters
    <2>2. InBatch' = mWriteSet
      BY <1>3, <2>1, BatchOfWriterNext
    <2> QED BY <1>1, <1>2, <2>1, <2>2, ConcatEmptySeq DEF Pending
  <1>4. CASE writer'[w].at # "writing"
    <2>1. mWriteSet = <<>> /\ mWriteSet' = <<>>
      BY <1>4, TakeBatchWriters
    <2>2. \A x \in Workers : writer'[x].at # "writing"
      BY <1>4, TakeBatchWriters
    <2>3. InBatch' = <<>>
      BY <2>2, NoBatchNext
    <2> QED BY <1>2, <2>1, <2>3 DEF Pending
  <1> QED BY <1>3, <1>4

(* The write takes the batch off the front. *)
LEMMA WriteTakesFront ==
  ASSUME TypeOK, OneTask, OneTask', BatchesHeld, NEW w \in Workers, TaskWrite(w)
  PROVE  /\ writer[w].set \in Seq(Objects) /\ writer[w].set # <<>>
         /\ Pending = writer[w].set \o mWriteSet /\ Pending' = mWriteSet
         /\ backend' = backend \o writer[w].set
         /\ destructor' = destructor /\ mark' = mark
  <1>1. writer[w].set \in Seq(Objects) /\ writer[w].set # <<>>
    BY DEF TaskWrite, TypeOK, BatchesHeld
  <1>2. InBatch = writer[w].set
    BY BatchOfWriter DEF TaskWrite
  <1>3. \A x \in Workers : writer'[x].at # "writing"
    BY DEF TaskWrite, TypeOK, OneTask
  <1>4. InBatch' = <<>> /\ mWriteSet' = mWriteSet
    BY <1>3, NoBatchNext DEF TaskWrite
  <1>5. mWriteSet \in Seq(Objects)
    BY DEF TypeOK
  <1> QED BY <1>1, <1>2, <1>4, <1>5, ConcatEmptySeq DEF TaskWrite, Pending

StoredSum ==
  /\ StoredSoFar = Len(backend) + Len(Pending)
  /\ Len(backend) \in Nat /\ Len(Pending) \in Nat
  /\ Pending \in Seq(Objects)

LEMMA StoredIsSum == TypeOK /\ OneTask => StoredSum
  <1> SUFFICES ASSUME TypeOK, OneTask PROVE StoredSum
    OBVIOUS
  <1>1. InBatch \in Seq(Objects) /\ mWriteSet \in Seq(Objects)
          /\ backend \in Seq(Objects)
    BY BatchIsSeq DEF TypeOK
  <1>2. Pending \in Seq(Objects) /\ Len(Pending) = Len(InBatch) + Len(mWriteSet)
    BY <1>1, ConcatProperties DEF Pending
  <1>3. Len(InBatch) \in Nat /\ Len(mWriteSet) \in Nat /\ Len(backend) \in Nat
    BY <1>1, LenProperties
  <1> QED BY <1>2, <1>3 DEF StoredSoFar, StoredSum

LEMMA StoredIsSumNext == TypeOK' /\ OneTask' => StoredSum'
  BY StoredIsSum, PTL

(* Only store changes how much was stored. *)
LEMMA StoredKept ==
  ASSUME QueueInv, TypeOK', OneTask', [Next]_vars
  PROVE  \/ \E o \in Objects : Store(o)
         \/ StoredSoFar' = StoredSoFar
  <1> USE DEF QueueInv
  <1>0. /\ StoredSoFar = Len(backend) + Len(Pending)
        /\ StoredSoFar' = Len(backend') + Len(Pending')
    BY StoredIsSum, StoredIsSumNext DEF StoredSum
  <1>2. ASSUME NEW w \in Workers, TaskStart(w) PROVE StoredSoFar' = StoredSoFar
    <2>1. TakeBatch(w) /\ backend' = backend
      BY <1>2 DEF TaskStart
    <2>2. \A x \in Workers : writer[x].at # "writing"
      BY <1>2 DEF TaskStart, OneTask
    <2>3. Pending' = Pending
      BY <2>1, <2>2, TakeBatchKeeps
    <2> QED BY <1>0, <2>1, <2>3
  <1>3. ASSUME NEW w \in Workers, TaskWrite(w) PROVE StoredSoFar' = StoredSoFar
    <2>1. /\ writer[w].set \in Seq(Objects)
          /\ Pending = writer[w].set \o mWriteSet /\ Pending' = mWriteSet
          /\ backend' = backend \o writer[w].set
      BY <1>3, WriteTakesFront
    <2>2. mWriteSet \in Seq(Objects) /\ backend \in Seq(Objects)
      BY DEF TypeOK
    <2>3. /\ Len(Pending) = Len(writer[w].set) + Len(Pending')
          /\ Len(backend') = Len(backend) + Len(writer[w].set)
      BY <2>1, <2>2, ConcatProperties
    <2>4. Len(writer[w].set) \in Nat /\ Len(backend) \in Nat
            /\ Len(mWriteSet) \in Nat
      BY <2>1, <2>2, LenProperties
    <2> QED BY <1>0, <2>1, <2>3, <2>4
  <1>4. ASSUME NEW w \in Workers, TaskLoop(w) PROVE StoredSoFar' = StoredSoFar
    <2>1. TakeBatch(w) /\ backend' = backend
      BY <1>4 DEF TaskLoop
    <2>2. \A x \in Workers : writer[x].at # "writing"
      BY <1>4 DEF TaskLoop, OneTask
    <2>3. Pending' = Pending
      BY <2>1, <2>2, TakeBatchKeeps
    <2> QED BY <1>0, <2>1, <2>3
  <1>5. CASE UNCHANGED <<writer, mWriteSet, backend>>
    BY <1>5, BatchSame DEF StoredSoFar
  <1> QED BY <1>2, <1>3, <1>4, <1>5 DEF Next, Destroy, WaitForWriting, vars

LEMMA MarkStep == QueueInv /\ TypeOK' /\ OneTask' /\ [Next]_vars => MarkExact'
  <1> SUFFICES ASSUME QueueInv, TypeOK', OneTask', [Next]_vars
               PROVE  MarkExact'
    OBVIOUS
  <1>1. ASSUME NEW o \in Objects, Store(o) PROVE MarkExact'
    BY <1>1 DEF Store, MarkExact, QueueInv
  <1>2. CASE StoredSoFar' = StoredSoFar
    <2>1. CASE Destroy
      BY <1>2, <2>1 DEF Destroy, MarkExact
    <2>2. CASE mark' = mark /\ (destructor' = "away" <=> destructor = "away")
      BY <1>2, <2>2 DEF MarkExact, QueueInv
    <2>3. CASE WaitForWriting
      BY <2>2, <2>3 DEF WaitForWriting, LeaveOrBlock
    <2>4. ASSUME NEW w \in Workers, TaskStart(w) \/ TaskLoop(w)
          PROVE  MarkExact'
      BY <2>2, <2>4, TakeBatchWriters DEF TaskStart, TaskLoop, QueueInv
    <2>5. ASSUME NEW w \in Workers, TaskWrite(w) PROVE MarkExact'
      BY <2>2, <2>5 DEF TaskWrite
    <2>6. CASE UNCHANGED vars
      BY <2>2, <2>6 DEF vars
    <2> QED BY <1>1, <2>1, <2>3, <2>4, <2>5, <2>6 DEF Next
  <1> QED BY <1>1, <1>2, StoredKept

LEMMA InvStep == QueueInv /\ [Next]_vars => QueueInv'
  BY TypeStep, OneTaskStep, BatchStep, MarkStep DEF QueueInv

(* For every set of objects and workers: one task at most is scheduled or  *)
(* running, and mWritePending says exactly whether there is one, so a      *)
(* store that finds mWritePending set needs to schedule nothing.           *)
THEOREM TaskCorrect == Spec => [](TypeOK /\ OneTask)
  <1>1. QueueInv => TypeOK /\ OneTask
    BY DEF QueueInv
  <1> QED BY InitInv, InvStep, <1>1, PTL DEF Spec

(* getWriteLoad, by which the server throttles itself, is at least half of *)
(* what is unwritten, in every state.                                      *)
THEOREM LoadCorrect == Spec => []WriteLoadSeen
  <1>1. QueueInv => WriteLoadSeen
    <2> SUFFICES ASSUME QueueInv PROVE WriteLoadSeen
      OBVIOUS
    <2>1. InBatch \in Seq(Objects) /\ mWriteSet \in Seq(Objects)
            /\ mWriteLoad \in Nat
      BY BatchIsSeq DEF TypeOK, QueueInv
    <2>2. Len(InBatch) \in Nat /\ Len(mWriteSet) \in Nat
      BY <2>1, LenProperties
    <2>3. mWriteLoad >= Len(InBatch)
      <3>1. CASE \E w \in Workers : writer[w].at = "writing"
        <4> PICK w \in Workers : writer[w].at = "writing"
          BY <3>1
        <4>1. InBatch = writer[w].set
          BY BatchOfWriter DEF QueueInv
        <4>2. mWriteLoad = Len(writer[w].set)
          BY DEF QueueInv, LoadIsBatch
        <4> QED BY <2>1, <2>2, <4>1, <4>2
      <3>2. CASE \A w \in Workers : writer[w].at # "writing"
        <4>1. InBatch = <<>>
          BY <3>2, NoBatch
        <4> QED BY <2>1, <4>1, EmptySeq
      <3> QED BY <3>1, <3>2
    <2> QED BY <2>1, <2>2, <2>3 DEF WriteLoadSeen, WriteLoad
  <1> QED BY InitInv, InvStep, <1>1, PTL DEF Spec

-----------------------------------------------------------------------------
(* Refinement: the initial state and every step, in the eyes of WB. *)
LEMMA InitRefines == Init => WB!Init
  <1> SUFFICES ASSUME Init PROVE WB!Init
    OBVIOUS
  <1>1. \A w \in Workers : writer[w].at # "writing"
    BY DEF Init, Idle
  <1>2. InBatch = <<>> /\ mWriteSet = <<>>
    BY <1>1, NoBatch DEF Init
  <1>3. InBatch \o mWriteSet = <<>>
    BY <1>2
  <1> QED BY <1>3 DEF Init, WB!Init, Waiter

(* A sequence to which one element is appended keeps its beginning. *)
LEMMA AppendKeeps ==
  ASSUME NEW S, NEW s \in Seq(S), NEW e \in S
  PROVE  /\ Append(s, e) \in Seq(S) /\ Len(Append(s, e)) >= Len(s)
         /\ SubSeq(Append(s, e), 1, Len(s)) = s
  <1>1. /\ Append(s, e) \in Seq(S) /\ Len(Append(s, e)) = Len(s) + 1
        /\ Len(s) \in Nat /\ \A i \in 1 .. Len(s) : Append(s, e)[i] = s[i]
    OBVIOUS
  <1>2. \A i \in 1 .. Len(s) : s[i] \in S
    BY ElementOfSeq
  <1>3. /\ SubSeq(Append(s, e), 1, Len(s)) \in Seq(S)
        /\ Len(SubSeq(Append(s, e), 1, Len(s))) = Len(s)
        /\ \A i \in 1 .. Len(s) : SubSeq(Append(s, e), 1, Len(s))[i] = s[i]
    BY <1>1, <1>2, SubSeqProperties
  <1>4. SubSeq(Append(s, e), 1, Len(s)) = s
    BY <1>3, SeqEqual
  <1> QED BY <1>1, <1>4

LEMMA PutStep ==
  ASSUME TypeOK, OneTask, NEW o \in Objects, Store(o) PROVE WB!Put
  <1>1. /\ Pending' = Append(Pending, o) /\ Pending \in Seq(Objects)
        /\ backend' = backend /\ destructor' = destructor /\ mark' = mark
    BY StoreAppends
  <1>2. /\ Pending' \in Seq(Objects) /\ Len(Pending') >= Len(Pending)
        /\ SubSeq(Pending', 1, Len(Pending)) = Pending
    BY <1>1, AppendKeeps
  <1>3. WB!Appended
    BY <1>2 DEF WB!Appended, Pending
  <1> QED BY <1>1, <1>3 DEF WB!Put, Waiter

LEMMA WriteStep ==
  ASSUME TypeOK, OneTask, OneTask', BatchesHeld, NEW w \in Workers, TaskWrite(w)
  PROVE  WB!Write
  <1> DEFINE set == writer[w].set
  <1>1. /\ set \in Seq(Objects) /\ set # <<>>
        /\ Pending = set \o mWriteSet /\ Pending' = mWriteSet
        /\ backend' = backend \o set
        /\ destructor' = destructor /\ mark' = mark
    BY WriteTakesFront
  <1>2. mWriteSet \in Seq(Objects)
    BY DEF TypeOK
  <1>3. /\ Len(set) \in Nat \ {0} /\ Len(mWriteSet) \in Nat
        /\ Len(Pending) = Len(set) + Len(mWriteSet)
    BY <1>1, <1>2, EmptySeq, LenProperties, ConcatProperties
  <1> HIDE DEF set
  <1>4. SubSeq(Pending, 1, Len(set)) = set
    <2>1. SubSeq(set \o mWriteSet, 1, Len(set)) = SubSeq(set, 1, Len(set))
      BY <1>1, <1>2, <1>3, SubSeqOfConcat1
    <2> QED BY <1>1, <2>1, SubSeqFull
  <1>5. SubSeq(Pending, Len(set) + 1, Len(Pending)) = mWriteSet
    <2>1. CASE mWriteSet = <<>>
      <3>1. Len(Pending) < Len(set) + 1
        BY <1>3, <2>1, EmptySeq
      <3> QED BY <1>3, <2>1, <3>1, SubSeqEmpty
    <2>2. CASE mWriteSet # <<>>
      <3>1. Len(mWriteSet) \in Nat \ {0}
        BY <1>2, <2>2, EmptySeq
      <3>2. SubSeq(set \o mWriteSet, Len(set) + 1, Len(set) + Len(mWriteSet))
              = SubSeq(mWriteSet, (Len(set) + 1) - Len(set),
                       (Len(set) + Len(mWriteSet)) - Len(set))
        BY <1>1, <1>2, <1>3, <3>1, SubSeqOfConcat2
      <3>3. (Len(set) + 1) - Len(set) = 1
              /\ (Len(set) + Len(mWriteSet)) - Len(set) = Len(mWriteSet)
        BY <1>3
      <3> QED BY <1>1, <1>2, <1>3, <3>2, <3>3, SubSeqFull
    <2> QED BY <2>1, <2>2
  <1>6. Len(set) \in 1 .. Len(Pending)
    BY <1>3
  <1>7. /\ backend' = backend \o SubSeq(Pending, 1, Len(set))
        /\ Pending' = SubSeq(Pending, Len(set) + 1, Len(Pending))
    BY <1>1, <1>4, <1>5
  <1>8. \E k \in 1 .. Len(Pending) :
          /\ backend' = backend \o SubSeq(Pending, 1, k)
          /\ Pending' = SubSeq(Pending, k + 1, Len(Pending))
    BY <1>6, <1>7
  <1> QED BY <1>1, <1>8 DEF WB!Write, Waiter, Pending

LEMMA WaitStep == ASSUME TypeOK, OneTask, Destroy PROVE WB!Wait
  <1>1. Pending \in Seq(Objects) /\ StoredSoFar = Len(backend) + Len(Pending)
    BY StoredIsSum DEF StoredSum
  <1>2. Pending' = Pending /\ backend' = backend /\ mark' = StoredSoFar
    BY BatchSame DEF Destroy, Pending
  <1>3. Len(Pending) >= Len(Pending) /\ SubSeq(Pending, 1, Len(Pending)) = Pending
    BY <1>1, LenProperties, SubSeqFull
  <1>4. WB!Appended
    BY <1>1, <1>2, <1>3 DEF WB!Appended, Pending
  <1>5. Waiter = "away" /\ Waiter' = "waiting"
    BY DEF Destroy, Waiter
  <1> QED BY <1>1, <1>2, <1>4, <1>5 DEF WB!Wait, Pending

(* The destructor that finds mWritePending clear finds no task, hence no   *)
(* batch and an empty vector.                                              *)
LEMMA ReturnStep ==
  ASSUME QueueInv, WaitForWriting, ~ mWritePending PROVE WB!Return
  <1> USE DEF QueueInv
  <1>1. mWriteSet = <<>> /\ \A w \in Workers : writer[w].at = "idle"
    BY DEF OneTask
  <1>2. InBatch = <<>>
    BY <1>1, NoBatch
  <1>3. mark = Len(backend) + Len(InBatch) + Len(mWriteSet)
    BY DEF WaitForWriting, MarkExact, StoredSoFar
  <1>4. Len(backend) \in Nat
    BY LenProperties DEF TypeOK
  <1>5. Len(backend) >= mark
    BY <1>1, <1>2, <1>3, <1>4, EmptySeq
  <1>6. InBatch' = InBatch
    BY BatchSame DEF WaitForWriting
  <1>7. Waiter = "waiting" /\ Waiter' = "returned"
    BY DEF WaitForWriting, LeaveOrBlock, Waiter
  <1> QED BY <1>5, <1>6, <1>7 DEF WB!Return, WaitForWriting

(* Taking a batch, blocking and being notified are invisible. *)
LEMMA TakeStutters ==
  ASSUME QueueInv, OneTask', NEW w \in Workers, TaskStart(w) \/ TaskLoop(w)
  PROVE  UNCHANGED WB!vars
  <1> USE DEF QueueInv
  <1>1. TakeBatch(w) /\ backend' = backend /\ mark' = mark
    BY DEF TaskStart, TaskLoop
  <1>2. \A x \in Workers : writer[x].at # "writing"
    BY DEF TaskStart, TaskLoop, OneTask
  <1>3. Pending' = Pending
    BY <1>1, <1>2, TakeBatchKeeps
  <1>4. \/ destructor' = destructor
        \/ destructor = "blocked" /\ destructor' = "woken"
    BY <1>1 DEF TakeBatch
  <1>5. Waiter' = Waiter
    BY <1>4 DEF Waiter
  <1> QED BY <1>1, <1>3, <1>5 DEF WB!vars, Pending

LEMMA StepRefines ==
  QueueInv /\ QueueInv' /\ [Next]_vars => [WB!Next]_(WB!vars)
  <1> SUFFICES ASSUME QueueInv, QueueInv', [Next]_vars
               PROVE  WB!Next \/ UNCHANGED WB!vars
    OBVIOUS
  <1>0. TypeOK /\ OneTask /\ OneTask' /\ BatchesHeld
    BY DEF QueueInv
  <1>1. ASSUME NEW o \in Objects, Store(o) PROVE WB!Next
    BY <1>0, <1>1, PutStep DEF WB!Next
  <1>2. ASSUME NEW w \in Workers, TaskStart(w) \/ TaskLoop(w)
        PROVE  UNCHANGED WB!vars
    BY <1>0, <1>2, TakeStutters
  <1>3. ASSUME NEW w \in Workers, TaskWrite(w) PROVE WB!Next
    BY <1>0, <1>3, WriteStep DEF WB!Next
  <1>4. CASE Destroy
    BY <1>0, <1>4, WaitStep DEF WB!Next
  <1>5. CASE WaitForWriting
    <2>1. CASE mWritePending
      <3>1. Waiter' = Waiter
        BY <1>5, <2>1 DEF WaitForWriting, LeaveOrBlock, Waiter
      <3>2. InBatch' = InBatch
        BY <1>5, BatchSame DEF WaitForWriting
      <3> QED BY <1>5, <3>1, <3>2 DEF WaitForWriting, WB!vars
    <2>2. CASE ~ mWritePending
      BY <1>5, <2>2, ReturnStep DEF WB!Next
    <2> QED BY <2>1, <2>2
  <1>6. CASE UNCHANGED vars
    <2>1. InBatch' = InBatch /\ Waiter' = Waiter
      BY <1>6, BatchSame DEF vars, Waiter
    <2> QED BY <1>6, <2>1 DEF vars, WB!vars
  <1> QED BY <1>1, <1>2, <1>3, <1>4, <1>5, <1>6 DEF Next

(* BatchWriter implements the abstract write-behind queue for every set of *)
(* objects, every number of worker threads and every number of calls of    *)
(* store: the backend receives the objects in the order of the store       *)
(* calls, each exactly once, and ~BatchWriter returns only when everything *)
(* stored before it is in the backend.                                     *)
THEOREM QueueRefines == Spec => ImplementsQueue
  <1>1. Spec => WB!Init /\ [][WB!Next]_(WB!vars)
    BY InitRefines, StepRefines, InitInv, InvStep, PTL DEF Spec
  <1> QED BY <1>1 DEF ImplementsQueue, WB!SafeSpec
==============================================================================
