-------------------------- MODULE Validations_proofs --------------------------
(* Proofs about the validation store: for every set of validators, ledgers, *)
(* threads and workers, there is one writer and nothing is stranded.        *)
EXTENDS Validations, TLAPS, FiniteSetTheorems, SequenceTheorems

(* The empty vector is a vector of validations. *)
LEMMA EmptyIsSeq == <<>> \in Seq(Validation)
  OBVIOUS

(* Any order in which the entries of a set of validations are pushed back  *)
(* is a sequence of validations.                                           *)
LEMMA OrderIsSeq ==
  ASSUME NEW S, IsFiniteSet(S), S \subseteq Validation,
         NEW order \in SetToSeqs(S)
  PROVE  order \in Seq(Validation)
<1>1. Cardinality(S) \in Nat
  BY FS_CardinalityType
<1>2. order \in [1 .. Cardinality(S) -> Validation]
  BY DEF SetToSeqs
<1> QED
  BY <1>1, <1>2

(* The values of any set of nodes that hold a current validation form a    *)
(* finite set of validations.                                              *)
LEMMA ValuesOfType ==
  ASSUME TypeOK, NEW S \in SUBSET Nodes,
         \A n \in S : mCurrentValidations[n] # NoVal
  PROVE  IsFiniteSet(ValuesOf(S)) /\ ValuesOf(S) \subseteq Validation
<1>1. IsFiniteSet(S)
  BY NodesAssumption, FS_Subset
<1>2. IsFiniteSet(ValuesOf(S))
  <2> DEFINE f == [n \in S |-> mCurrentValidations[n].val]
  <2>1. f \in Surjection(S, ValuesOf(S))
    BY DEF Surjection, ValuesOf
  <2> QED
    BY <1>1, <2>1, FS_Surjection
<1>3. ValuesOf(S) \subseteq Validation
  BY DEF ValuesOf, TypeOK, Current
<1> QED
  BY <1>2, <1>3

(* The type invariant is inductive. *)
LEMMA TypeInductive == TypeOK /\ [Next]_vars => TypeOK'
<1> SUFFICES ASSUME TypeOK, [Next]_vars PROVE TypeOK'
  OBVIOUS
<1> USE TimesAssumption, NodesAssumption, NullAssumption
<1>1. CASE UNCHANGED vars
  BY <1>1 DEF vars, TypeOK
<1>2. ASSUME NEW t \in Threads, NEW n \in Nodes, NEW h \in Ledgers,
             NEW st \in SignTimes, NEW offset \in CloseOffsets,
             Receive(t, n, h, st, offset)
      PROVE  TypeOK'
  <2>1. arrivals' \in 0 .. MaxArrivals /\ arrivals + 1 \in 1 .. MaxArrivals
    BY <1>2 DEF Receive, TypeOK
  <2>2. adding' \in [Threads -> AddCall]
    BY <1>2, <2>1 DEF Receive, TypeOK, AddCall, Validation
  <2> QED
    BY <1>2, <2>1, <2>2 DEF Receive, TypeOK
<1>3. ASSUME NEW t \in Threads, AddValidation(t)
      PROVE  TypeOK'
  <2> DEFINE val == adding[t].val
  <2>1. val \in Validation
    BY <1>3 DEF AddValidation, TypeOK, AddCall, Idle
  <2>2. val.hash \in Ledgers /\ val.node \in Nodes
    BY <2>1 DEF Validation
  <2>3. mCurrentValidations[val.node] \in Current \cup {NoVal}
    BY <2>2 DEF TypeOK
  <2>4. mCurrentValidations[val.node] # NoVal =>
          /\ mCurrentValidations[val.node].val \in Validation
          /\ mCurrentValidations[val.node].val.hash \in Ledgers
    BY <2>3 DEF Current, Validation
  <2>5. adding' \in [Threads -> AddCall]
    BY <1>3 DEF AddValidation, TypeOK, AddCall
  <2>6. [val |-> val, prev |-> NoHash] \in Current
    BY <2>1 DEF Current
  <2>7. mCurrentValidations[val.node] # NoVal =>
          [val |-> val, prev |-> mCurrentValidations[val.node].val.hash]
             \in Current
    BY <2>1, <2>4 DEF Current
  <2> HIDE DEF val
  <2>8. CASE AddDuplicate(t, val)
    BY <2>8, <2>5, <1>3 DEF AddDuplicate, AddValidation, TypeOK
  <2>9. CASE AddFirst(t, val)
    BY <2>9, <2>1, <2>2, <2>5, <2>6, <1>3 DEF AddFirst, AddValidation, TypeOK
  <2>10. CASE AddNewer(t, val)
    <3>1. mStaleValidations' \in Seq(Validation)
      BY <2>10, <2>4 DEF AddNewer, TypeOK
    <3>2. mCurrentValidations' \in [Nodes -> Current \cup {NoVal}]
      BY <2>10, <2>7 DEF AddNewer, TypeOK, Supersede
    <3>3. mWriting' \in BOOLEAN /\ queuedWrites' \in Nat
      BY <2>10 DEF AddNewer, TypeOK, CondWrite
    <3>4. mValidations' \in [Ledgers -> SUBSET Validation]
           /\ accepted' \subseteq Validation
      BY <2>10, <2>1 DEF AddNewer, TypeOK
    <3> QED
      BY <3>1, <3>2, <3>3, <3>4, <2>5, <1>3 DEF AddValidation, TypeOK
  <2>11. CASE AddOlder(t, val)
    BY <2>11, <2>1, <2>2, <2>5, <1>3 DEF AddOlder, AddValidation, TypeOK
  <2> QED
    BY <1>3, <2>8, <2>9, <2>10, <2>11 DEF AddValidation, val
<1>4. CASE GetCurrentValidations
  <2> DEFINE gone == {n \in Nodes : Expired(n)}
  <2>1. IsFiniteSet(ValuesOf(gone)) /\ ValuesOf(gone) \subseteq Validation
    BY ValuesOfType DEF Expired
  <2>2. mStaleValidations' \in Seq(Validation)
    <3>1. PICK order \in SetToSeqs(ValuesOf(gone)) :
                 mStaleValidations' = mStaleValidations \o order
      BY <1>4 DEF GetCurrentValidations
    <3>2. order \in Seq(Validation)
      BY <2>1, OrderIsSeq
    <3> QED
      BY <3>1, <3>2 DEF TypeOK
  <2>3. mWriting' \in BOOLEAN /\ queuedWrites' \in Nat
    BY <1>4 DEF GetCurrentValidations, TypeOK, CondWrite
  <2>4. mCurrentValidations' \in [Nodes -> Current \cup {NoVal}]
    BY <1>4 DEF GetCurrentValidations, TypeOK
  <2> QED
    BY <1>4, <2>2, <2>3, <2>4 DEF GetCurrentValidations, TypeOK
<1>5. CASE Sweep
  <2>1. mValidations' \in [Ledgers -> SUBSET Validation]
    BY <1>5 DEF Sweep, TypeOK
  <2> QED
    BY <1>5, <2>1 DEF Sweep, TypeOK
<1>6. ASSUME NEW w \in Workers, DoWriteStart(w) \/ DoWriteLoop(w)
      PROVE  TypeOK'
  <2>1. TakeBatch(w)
    BY <1>6 DEF DoWriteStart, DoWriteLoop
  <2>2. writer' \in [Workers -> WriteCall]
    BY <2>1 DEF TakeBatch, TypeOK, WriteCall
  <2>3. mStaleValidations' \in Seq(Validation)
    BY <2>1, EmptyIsSeq, Zenon DEF TakeBatch, TypeOK
  <2>3a. mWriting' \in BOOLEAN
    BY <2>1, Zenon DEF TakeBatch, TypeOK
  <2>4. queuedWrites' \in Nat
    BY <1>6 DEF DoWriteStart, DoWriteLoop, TypeOK
  <2> QED
    BY <1>6, <2>2, <2>3, <2>3a, <2>4 DEF DoWriteStart, DoWriteLoop, TypeOK
<1>7. ASSUME NEW w \in Workers, DoWriteCommit(w)
      PROVE  TypeOK'
  <2>1. writer[w] \in [at: {"writing", "written"}, batch: Seq(Validation)]
    BY <1>7 DEF DoWriteCommit, TypeOK, WriteCall, Idle
  <2>2. db' \in Seq(Validation)
    BY <1>7, <2>1 DEF DoWriteCommit, TypeOK
  <2>3. writer' \in [Workers -> WriteCall]
    BY <1>7, <2>1 DEF DoWriteCommit, TypeOK, WriteCall
  <2> QED
    BY <1>7, <2>2, <2>3 DEF DoWriteCommit, TypeOK
<1>8. CASE FlushStart
  <2>1. IsFiniteSet(ValuesOf(Held)) /\ ValuesOf(Held) \subseteq Validation
    BY ValuesOfType DEF Held
  <2>2. mStaleValidations' \in Seq(Validation)
    <3>1. PICK order \in SetToSeqs(ValuesOf(Held)) :
                 mStaleValidations' = mStaleValidations \o order
      BY <1>8 DEF FlushStart
    <3>2. order \in Seq(Validation)
      BY <2>1, OrderIsSeq
    <3> QED
      BY <3>1, <3>2 DEF TypeOK
  <2>3. mWriting' \in BOOLEAN
    BY <1>8, Zenon DEF FlushStart, TypeOK, CondWrite
  <2>3a. queuedWrites' \in Nat
    BY <1>8 DEF FlushStart, TypeOK, CondWrite
  <2>4. Batch \in Seq(Validation)
    <3>1. \A x \in Workers : writer[x].at = "writing" =>
             writer[x].batch \in Seq(Validation)
      BY DEF TypeOK, WriteCall, Idle
    <3> QED
      BY <3>1, EmptyIsSeq DEF Batch
  <2>5. Len(db) \in Nat /\ Len(Batch) \in Nat /\ Len(mStaleValidations') \in Nat
    BY <2>2, <2>4 DEF TypeOK
  <2>6. toFlush' \in Nat
    BY <1>8, <2>5 DEF FlushStart
  <2>7. mCurrentValidations' \in [Nodes -> Current \cup {NoVal}]
    BY <1>8 DEF FlushStart
  <2> QED
    BY <1>8, <2>2, <2>3, <2>3a, <2>6, <2>7 DEF FlushStart, TypeOK
<1>9. CASE FlushDone
  BY <1>9 DEF FlushDone, TypeOK
<1>10. CASE Tick
  BY <1>10 DEF Tick, TypeOK
<1> QED
  BY <1>1, <1>2, <1>3, <1>4, <1>5, <1>6, <1>7, <1>8, <1>9, <1>10 DEF Next

(* The writer protocol is inductive: a job is queued only when there is    *)
(* none, and the flag is cleared only by the one that finds nothing left.  *)
WriterInv == OneWriter /\ NoStranded

LEMMA WriterInductive ==
  TypeOK /\ WriterInv /\ [Next]_vars => WriterInv'
<1> SUFFICES ASSUME TypeOK, WriterInv, [Next]_vars PROVE WriterInv'
  OBVIOUS
<1> USE DEF WriterInv, Running
<1>1. ASSUME UNCHANGED <<mStaleValidations, mWriting, queuedWrites, writer>>
      PROVE  WriterInv'
  BY <1>1 DEF OneWriter, NoStranded
<1>2. ASSUME CondWrite, UNCHANGED writer
      PROVE  WriterInv'
  <2>1. OneWriter'
    BY <1>2 DEF CondWrite, OneWriter
  <2> QED
    BY <1>2, <2>1 DEF CondWrite, NoStranded
<1>3. ASSUME NEW w \in Workers, DoWriteStart(w)
      PROVE  WriterInv'
  <2>1. queuedWrites = 1 /\ queuedWrites' = 0 /\ mWriting
        /\ \A x \in Workers : ~Running(x)
    BY <1>3 DEF DoWriteStart, OneWriter
  <2>2. \A x \in Workers : x # w => writer'[x] = writer[x]
    BY <1>3 DEF DoWriteStart, TakeBatch, TypeOK
  <2>3. CASE mStaleValidations # <<>>
    <3>1. writer'[w].at = "writing" /\ mWriting' = mWriting
          /\ mStaleValidations' = <<>>
      BY <1>3, <2>3 DEF DoWriteStart, TakeBatch, TypeOK
    <3> QED
      BY <2>1, <2>2, <3>1 DEF OneWriter, NoStranded
  <2>4. CASE mStaleValidations = <<>>
    <3>1. writer'[w].at = "idle" /\ mWriting' = FALSE
          /\ mStaleValidations' = <<>>
      BY <1>3, <2>4 DEF DoWriteStart, TakeBatch, TypeOK, Idle
    <3> QED
      BY <2>1, <2>2, <3>1 DEF OneWriter, NoStranded
  <2> QED
    BY <2>3, <2>4
<1>4. ASSUME NEW w \in Workers, DoWriteLoop(w)
      PROVE  WriterInv'
  <2>1. queuedWrites = 0 /\ queuedWrites' = 0 /\ mWriting
        /\ \A x \in Workers : Running(x) => x = w
    BY <1>4 DEF DoWriteLoop, OneWriter
  <2>2. \A x \in Workers : x # w => writer'[x] = writer[x]
    BY <1>4 DEF DoWriteLoop, TakeBatch, TypeOK
  <2>3. CASE mStaleValidations # <<>>
    <3>1. writer'[w].at = "writing" /\ mWriting' = mWriting
          /\ mStaleValidations' = <<>>
      BY <1>4, <2>3 DEF DoWriteLoop, TakeBatch, TypeOK
    <3> QED
      BY <2>1, <2>2, <3>1 DEF OneWriter, NoStranded
  <2>4. CASE mStaleValidations = <<>>
    <3>1. writer'[w].at = "idle" /\ mWriting' = FALSE
          /\ mStaleValidations' = <<>>
      BY <1>4, <2>4 DEF DoWriteLoop, TakeBatch, TypeOK, Idle
    <3> QED
      BY <2>1, <2>2, <3>1 DEF OneWriter, NoStranded
  <2> QED
    BY <2>3, <2>4
<1>5. ASSUME NEW w \in Workers, DoWriteCommit(w)
      PROVE  WriterInv'
  <2>1. \A x \in Workers : Running(x)' <=> Running(x)
    BY <1>5 DEF DoWriteCommit, TypeOK, WriteCall, Idle
  <2> QED
    BY <1>5, <2>1 DEF DoWriteCommit, OneWriter, NoStranded
<1>6. ASSUME NEW t \in Threads, AddValidation(t)
      PROVE  WriterInv'
  BY <1>6, <1>1, <1>2 DEF AddValidation, AddDuplicate, AddFirst, AddNewer,
                          AddOlder
<1>7. CASE FlushStart
  <2>1. CASE Held # {}
    BY <1>2, <1>7, <2>1 DEF FlushStart
  <2>2. CASE Held = {}
    <3>1. ValuesOf(Held) = {}
      BY <2>2 DEF ValuesOf
    <3>2. mStaleValidations' = mStaleValidations
      <4>1. PICK order \in SetToSeqs({}) :
              mStaleValidations' = mStaleValidations \o order
        BY <1>7, <3>1 DEF FlushStart
      <4>2. Cardinality({}) = 0
        BY FS_EmptySet
      <4>3. order \in [1 .. 0 -> {}]
        BY <4>1, <4>2 DEF SetToSeqs
      <4>4. order = <<>>
        BY <4>3
      <4> QED
        BY <4>1, <4>4 DEF TypeOK
    <3> QED
      BY <1>1, <1>7, <2>2, <3>2 DEF FlushStart
  <2> QED
    BY <2>1, <2>2
<1> QED
  BY <1>1, <1>2, <1>3, <1>4, <1>5, <1>6, <1>7
     DEF Next, vars, Receive, GetCurrentValidations, Sweep, FlushDone, Tick

(* Whatever the numbers of validators, threads and workers, every state of *)
(* the validation store is well typed.                                     *)
THEOREM TypeCorrect == Spec => []TypeOK
<1>1. Init => TypeOK
  <2> SUFFICES ASSUME Init PROVE TypeOK
    OBVIOUS
  <2>1. adding \in [Threads -> AddCall] /\ writer \in [Workers -> WriteCall]
    BY DEF Init, AddCall, WriteCall
  <2>2. mStaleValidations \in Seq(Validation) /\ db \in Seq(Validation)
    BY EmptyIsSeq, Zenon DEF Init
  <2>3. mWriting \in BOOLEAN
    BY Zenon DEF Init
  <2>4. mCurrentValidations \in [Nodes -> Current \cup {NoVal}]
    BY DEF Init
  <2> QED
    BY TimesAssumption, <2>1, <2>2, <2>3, <2>4 DEF Init, TypeOK
<1> QED
  BY <1>1, TypeInductive, PTL DEF Spec

(* mWriting is true exactly while the one doWrite job is queued or runs,   *)
(* and no stale validation is left without a job that will write it.       *)
THEOREM WriterCorrect == Spec => [](OneWriter /\ NoStranded)
<1>1. Init => WriterInv
  BY DEF Init, WriterInv, OneWriter, NoStranded, Running, Idle
<1>2. WriterInv => OneWriter /\ NoStranded
  BY DEF WriterInv
<1> QED
  BY <1>1, <1>2, TypeCorrect, WriterInductive, PTL DEF Spec

-----------------------------------------------------------------------------
(* Every current validation is an accepted one of the node it is held for, *)
(* which makes PreviousIsOlder inductive: the validation that addValidation *)
(* displaces is the accepted one whose hash becomes the previous hash.     *)
CurrentAccepted ==
  \A n \in Nodes : mCurrentValidations[n] # NoVal =>
    /\ mCurrentValidations[n].val \in accepted
    /\ mCurrentValidations[n].val.node = n

PreviousInv == CurrentAccepted /\ PreviousIsOlder

(* What a step may do to the entry of one node: leave it, erase it, fill   *)
(* it, or replace it by a newer one that remembers what it replaced.       *)
EntryStep(n) ==
  \/ mCurrentValidations'[n] = mCurrentValidations[n]
  \/ mCurrentValidations'[n] = NoVal
  \/ \E val \in accepted' :
       /\ val.node = n
       /\ mCurrentValidations'[n] = [val |-> val, prev |-> NoHash]
  \/ \E val \in accepted' :
       /\ val.node = n
       /\ mCurrentValidations[n] # NoVal
       /\ val.signTime > mCurrentValidations[n].val.signTime
       /\ mCurrentValidations'[n] =
            [val |-> val, prev |-> mCurrentValidations[n].val.hash]

LEMMA EntrySteps ==
  ASSUME TypeOK, [Next]_vars, NEW n \in Nodes
  PROVE  EntryStep(n) /\ accepted \subseteq accepted'
<1>1. ASSUME NEW t \in Threads, AddValidation(t)
      PROVE  EntryStep(n) /\ accepted \subseteq accepted'
  <2> DEFINE val == adding[t].val
  <2>1. val \in Validation /\ val.node \in Nodes
    BY <1>1 DEF AddValidation, TypeOK, AddCall, Idle, Validation
  <2>2. AddDuplicate(t, val) \/ AddFirst(t, val) \/ AddNewer(t, val)
          \/ AddOlder(t, val)
    BY <1>1 DEF AddValidation
  <2> HIDE DEF val
  <2>3. CASE AddDuplicate(t, val) \/ AddOlder(t, val)
    BY <2>3 DEF AddDuplicate, AddOlder, EntryStep
  <2>4. CASE AddFirst(t, val)
    <3>1. accepted' = accepted \cup {val}
      BY <2>4 DEF AddFirst
    <3>2. CASE n = val.node
      <4>1. mCurrentValidations'[n] = [val |-> val, prev |-> NoHash]
        BY <2>1, <2>4, <3>2 DEF AddFirst, TypeOK
      <4> QED BY <3>1, <3>2, <4>1 DEF EntryStep
    <3>3. CASE n # val.node
      <4>1. mCurrentValidations'[n] = mCurrentValidations[n]
        BY <2>1, <2>4, <3>3 DEF AddFirst, TypeOK
      <4> QED BY <3>1, <4>1 DEF EntryStep
    <3> QED BY <3>2, <3>3
  <2>5. CASE AddNewer(t, val)
    <3>1. accepted' = accepted \cup {val}
      BY <2>5 DEF AddNewer
    <3>2. CASE n = val.node
      <4>1. /\ mCurrentValidations[n] # NoVal
            /\ val.signTime > mCurrentValidations[n].val.signTime
            /\ mCurrentValidations'[n] =
                 [val |-> val, prev |-> mCurrentValidations[n].val.hash]
        BY <2>1, <2>5, <3>2 DEF AddNewer, TypeOK, Supersede, IsNewer
      <4> QED BY <3>1, <3>2, <4>1 DEF EntryStep
    <3>3. CASE n # val.node
      <4>1. mCurrentValidations'[n] = mCurrentValidations[n]
        BY <2>1, <2>5, <3>3 DEF AddNewer, TypeOK
      <4> QED BY <3>1, <4>1 DEF EntryStep
    <3> QED BY <3>2, <3>3
  <2> QED BY <2>2, <2>3, <2>4, <2>5
<1>2. CASE UNCHANGED <<mCurrentValidations, accepted>>
  BY <1>2 DEF EntryStep
<1>3. CASE GetCurrentValidations
  <2>1. \/ mCurrentValidations'[n] = mCurrentValidations[n]
        \/ mCurrentValidations'[n] = NoVal
    BY <1>3 DEF GetCurrentValidations
  <2> QED BY <1>3, <2>1 DEF GetCurrentValidations, EntryStep
<1>4. CASE FlushStart
  BY <1>4 DEF FlushStart, EntryStep
<1> QED
  BY <1>1, <1>2, <1>3, <1>4
     DEF Next, vars, Receive, Sweep, DoWriteStart, DoWriteCommit, DoWriteLoop,
         FlushDone, Tick

LEMMA PreviousInductive ==
  TypeOK /\ TypeOK' /\ PreviousInv /\ [Next]_vars => PreviousInv'
<1> SUFFICES ASSUME TypeOK, TypeOK', PreviousInv, [Next]_vars, NEW n \in Nodes,
                    mCurrentValidations'[n] # NoVal
             PROVE  /\ mCurrentValidations'[n].val \in accepted'
                    /\ mCurrentValidations'[n].val.node = n
                    /\ mCurrentValidations'[n].prev # NoHash =>
                         \E v \in accepted' :
                           /\ v.node = n
                           /\ v.hash = mCurrentValidations'[n].prev
                           /\ v.signTime < mCurrentValidations'[n].val.signTime
  BY DEF PreviousInv, CurrentAccepted, PreviousIsOlder
<1>1. EntryStep(n) /\ accepted \subseteq accepted'
  BY EntrySteps
<1>2. CASE mCurrentValidations'[n] = mCurrentValidations[n]
  <2>1. /\ mCurrentValidations[n].val \in accepted
        /\ mCurrentValidations[n].val.node = n
        /\ mCurrentValidations[n].prev # NoHash =>
             \E v \in accepted :
               /\ v.node = n
               /\ v.hash = mCurrentValidations[n].prev
               /\ v.signTime < mCurrentValidations[n].val.signTime
    BY <1>2 DEF PreviousInv, CurrentAccepted, PreviousIsOlder
  <2> QED BY <1>1, <1>2, <2>1
<1>3. ASSUME NEW val \in accepted', val.node = n,
             mCurrentValidations'[n] = [val |-> val, prev |-> NoHash]
      PROVE  /\ mCurrentValidations'[n].val \in accepted'
             /\ mCurrentValidations'[n].val.node = n
             /\ mCurrentValidations'[n].prev = NoHash
  BY <1>3
<1>4. ASSUME NEW val \in accepted', val.node = n,
             mCurrentValidations[n] # NoVal,
             val.signTime > mCurrentValidations[n].val.signTime,
             mCurrentValidations'[n] =
               [val |-> val, prev |-> mCurrentValidations[n].val.hash]
      PROVE  /\ mCurrentValidations'[n].val \in accepted'
             /\ mCurrentValidations'[n].val.node = n
             /\ \E v \in accepted' :
                  /\ v.node = n
                  /\ v.hash = mCurrentValidations'[n].prev
                  /\ v.signTime < mCurrentValidations'[n].val.signTime
  <2> DEFINE old == mCurrentValidations[n].val
  <2>1. old \in accepted /\ old.node = n
    BY <1>4 DEF PreviousInv, CurrentAccepted
  <2>2. old \in Validation /\ val \in Validation /\ old \in accepted'
    BY <1>1, <2>1 DEF TypeOK
  <2>3. old.signTime \in Nat /\ val.signTime \in Nat
    <3>1. SignTimes \subseteq Nat
      BY TimesAssumption
    <3>2. \A v \in Validation : v.signTime \in SignTimes
      BY DEF Validation
    <3> QED BY <2>2, <3>1, <3>2
  <2>4. /\ mCurrentValidations'[n].val = val
        /\ mCurrentValidations'[n].prev = old.hash
    BY <1>4
  <2>5. val.signTime > old.signTime
    BY <1>4
  <2> HIDE DEF old
  <2>6. old.signTime < val.signTime
    BY <2>3, <2>5
  <2> QED BY <1>4, <2>1, <2>2, <2>4, <2>6
<1> QED BY <1>1, <1>2, <1>3, <1>4 DEF EntryStep

(* For any number of validators and threads and any sign times, the        *)
(* previous hash that getNodesAfter compares with is that of an accepted   *)
(* validation which the same validator signed before its current one.      *)
THEOREM PreviousCorrect == Spec => []PreviousIsOlder
<1>1. Init => PreviousInv
  BY DEF Init, PreviousInv, CurrentAccepted, PreviousIsOlder
<1>2. PreviousInv => PreviousIsOlder
  BY DEF PreviousInv
<1> QED
  BY <1>1, <1>2, TypeCorrect, PreviousInductive, PTL DEF Spec

-----------------------------------------------------------------------------
(* Refinement.  What the abstract queue holds is the batch that doWrite is *)
(* inserting, followed by what was pushed back behind it.                  *)
Pending == Batch \o mStaleValidations
PutSoFar == Len(db) + Len(Batch) + Len(mStaleValidations)

(* A batch that is being written is not empty. *)
BatchHeld ==
  \A w \in Workers : writer[w].at = "writing" => writer[w].batch # <<>>

(* flush() waits for nothing that was not put. *)
MarkInv == flusher # "running" => toFlush =< PutSoFar

QueueInv == TypeOK /\ WriterInv /\ BatchHeld /\ MarkInv

LEMMA BatchOfWriter ==
  ASSUME WriterInv, NEW w \in Workers, writer[w].at = "writing"
  PROVE  Batch = writer[w].batch
<1>1. (CHOOSE x \in Workers : writer[x].at = "writing") = w
  BY DEF WriterInv, OneWriter, Running
<1> QED BY <1>1 DEF Batch

LEMMA NoBatch ==
  ASSUME \A w \in Workers : writer[w].at # "writing"
  PROVE  Batch = <<>>
  BY DEF Batch

LEMMA BatchOfWriterNext ==
  ASSUME WriterInv', NEW w \in Workers, writer'[w].at = "writing"
  PROVE  Batch' = writer'[w].batch
<1>1. (CHOOSE x \in Workers : writer'[x].at = "writing") = w
  BY DEF WriterInv, OneWriter, Running
<1> QED BY <1>1 DEF Batch

LEMMA NoBatchNext ==
  ASSUME \A w \in Workers : writer'[w].at # "writing"
  PROVE  Batch' = <<>>
  BY DEF Batch

LEMMA BatchSame == ASSUME UNCHANGED writer PROVE Batch' = Batch
  BY DEF Batch

LEMMA BatchIsSeq == TypeOK => Batch \in Seq(Validation)
<1> SUFFICES ASSUME TypeOK PROVE Batch \in Seq(Validation)
  OBVIOUS
<1>1. \A x \in Workers : writer[x].at = "writing" =>
         writer[x].batch \in Seq(Validation)
  BY DEF TypeOK, WriteCall, Idle
<1> QED BY <1>1, EmptyIsSeq DEF Batch

LEMMA BatchIsSeqNext == TypeOK' => Batch' \in Seq(Validation)
<1> SUFFICES ASSUME TypeOK' PROVE Batch' \in Seq(Validation)
  OBVIOUS
<1>1. \A x \in Workers : writer'[x].at = "writing" =>
         writer'[x].batch \in Seq(Validation)
  BY DEF TypeOK, WriteCall, Idle
<1> QED BY <1>1, EmptyIsSeq DEF Batch

(* What is put behind a sequence keeps it as a prefix. *)
LEMMA PutKeeps ==
  ASSUME NEW b \in Seq(Validation), NEW s \in Seq(Validation),
         NEW t \in Seq(Validation)
  PROVE  /\ b \o (s \o t) \in Seq(Validation)
         /\ Len(b \o (s \o t)) >= Len(b \o s)
         /\ SubSeq(b \o (s \o t), 1, Len(b \o s)) = b \o s
         /\ Len(s \o t) >= Len(s)
<1>1. b \o (s \o t) = (b \o s) \o t
  BY ConcatAssociative
<1> DEFINE p == b \o s
<1>2. p \in Seq(Validation) /\ s \o t \in Seq(Validation)
  BY ConcatProperties
<1>3. Len(p) \in Nat /\ Len(t) \in Nat /\ Len(s) \in Nat
  BY <1>2, LenProperties
<1>4. Len(s \o t) = Len(s) + Len(t)
  BY ConcatProperties
<1> HIDE DEF p
<1>5. p \o t \in Seq(Validation) /\ Len(p \o t) = Len(p) + Len(t)
  BY <1>2, ConcatProperties
<1>6. SubSeq(p \o t, 1, Len(p)) = p
  <2>1. CASE p = <<>>
    <3>1. Len(p) = 0
      BY <2>1, EmptySeq
    <3> QED BY <2>1, <3>1, SubSeqEmpty
  <2>2. CASE p # <<>>
    <3>1. Len(p) \in Nat \ {0}
      BY <1>2, <2>2, EmptySeq
    <3>2. SubSeq(p \o t, 1, Len(p)) = SubSeq(p, 1, Len(p))
      BY <1>2, <1>3, <3>1, SubSeqOfConcat1
    <3> QED BY <1>2, <3>2, SubSeqFull
  <2> QED BY <2>1, <2>2
<1>7. Len(p \o t) >= Len(p)
  BY <1>3, <1>5
<1>8. Len(s \o t) >= Len(s)
  BY <1>3, <1>4
<1> QED BY <1>1, <1>5, <1>6, <1>7, <1>8 DEF p

(* addValidation, getCurrentValidations and flush push stale validations   *)
(* back and touch neither the writer nor the table.                        *)
PushBack ==
  /\ \E order \in Seq(Validation) :
       mStaleValidations' = mStaleValidations \o order
  /\ UNCHANGED <<writer, db>>

LEMMA PushBackSteps ==
  ASSUME TypeOK,
         (\E t \in Threads : AddValidation(t)) \/ GetCurrentValidations
           \/ FlushStart
  PROVE  PushBack
<1>0. mStaleValidations \in Seq(Validation)
  BY DEF TypeOK
<1>1. ASSUME NEW t \in Threads, AddValidation(t) PROVE PushBack
  <2> DEFINE val == adding[t].val
  <2>1. val \in Validation /\ val.node \in Nodes
    BY <1>1 DEF AddValidation, TypeOK, AddCall, Idle, Validation
  <2>2. AddDuplicate(t, val) \/ AddFirst(t, val) \/ AddNewer(t, val)
          \/ AddOlder(t, val)
    BY <1>1 DEF AddValidation
  <2>3. UNCHANGED <<writer, db>>
    BY <1>1 DEF AddValidation
  <2> HIDE DEF val
  <2>4. CASE mStaleValidations' = mStaleValidations
    <3>1. mStaleValidations \o <<>> = mStaleValidations
      BY <1>0, ConcatEmptySeq
    <3> QED BY <2>3, <2>4, <3>1, EmptyIsSeq DEF PushBack
  <2>5. CASE AddNewer(t, val)
    <3> DEFINE old == mCurrentValidations[val.node].val
    <3>1. old \in Validation
      BY <2>1, <2>5 DEF AddNewer, TypeOK, Current
    <3>2. mStaleValidations' = Append(mStaleValidations, old)
      BY <2>5 DEF AddNewer
    <3> HIDE DEF old
    <3>3. Append(mStaleValidations, old) = mStaleValidations \o <<old>>
      BY <1>0, <3>1, AppendIsConcat
    <3>4. <<old>> \in Seq(Validation)
      BY <3>1
    <3> QED BY <2>3, <3>2, <3>3, <3>4 DEF PushBack
  <2> QED BY <2>2, <2>4, <2>5 DEF AddDuplicate, AddFirst, AddOlder
<1>2. CASE GetCurrentValidations
  <2> DEFINE gone == {n \in Nodes : Expired(n)}
  <2>1. IsFiniteSet(ValuesOf(gone)) /\ ValuesOf(gone) \subseteq Validation
    BY ValuesOfType DEF Expired
  <2>2. PICK order \in SetToSeqs(ValuesOf(gone)) :
               mStaleValidations' = mStaleValidations \o order
    BY <1>2 DEF GetCurrentValidations
  <2>3. order \in Seq(Validation)
    BY <2>1, OrderIsSeq
  <2> QED BY <1>2, <2>2, <2>3 DEF PushBack, GetCurrentValidations
<1>3. CASE FlushStart
  <2>1. IsFiniteSet(ValuesOf(Held)) /\ ValuesOf(Held) \subseteq Validation
    BY ValuesOfType DEF Held
  <2>2. PICK order \in SetToSeqs(ValuesOf(Held)) :
               mStaleValidations' = mStaleValidations \o order
    BY <1>3 DEF FlushStart
  <2>3. order \in Seq(Validation)
    BY <2>1, OrderIsSeq
  <2> QED BY <1>3, <2>2, <2>3 DEF PushBack, FlushStart
<1> QED BY <1>1, <1>2, <1>3

(* What is pushed back is put behind what was pending. *)
LEMMA PushBackAppends ==
  ASSUME TypeOK, PushBack
  PROVE  /\ Pending' \in Seq(Validation) /\ Len(Pending') >= Len(Pending)
         /\ SubSeq(Pending', 1, Len(Pending)) = Pending
         /\ PutSoFar' >= PutSoFar
<1>1. Batch' = Batch /\ db' = db
  BY BatchSame DEF PushBack
<1>2. Batch \in Seq(Validation) /\ mStaleValidations \in Seq(Validation)
        /\ db \in Seq(Validation)
  BY BatchIsSeq DEF TypeOK
<1>3. PICK order \in Seq(Validation) :
             mStaleValidations' = mStaleValidations \o order
  BY DEF PushBack
<1>4. Pending' = Batch \o (mStaleValidations \o order)
  BY <1>1, <1>3 DEF Pending
<1>5. /\ Pending' \in Seq(Validation) /\ Len(Pending') >= Len(Pending)
      /\ SubSeq(Pending', 1, Len(Pending)) = Pending
      /\ Len(mStaleValidations') >= Len(mStaleValidations)
  <2>1. /\ Batch \o (mStaleValidations \o order) \in Seq(Validation)
        /\ Len(Batch \o (mStaleValidations \o order))
             >= Len(Batch \o mStaleValidations)
        /\ SubSeq(Batch \o (mStaleValidations \o order), 1,
                  Len(Batch \o mStaleValidations)) = Batch \o mStaleValidations
        /\ Len(mStaleValidations \o order) >= Len(mStaleValidations)
    BY <1>2, <1>3, PutKeeps
  <2>2. Pending = Batch \o mStaleValidations
    BY DEF Pending
  <2> QED BY <1>3, <1>4, <2>1, <2>2
<1>6. /\ Len(db) \in Nat /\ Len(Batch) \in Nat /\ Len(mStaleValidations) \in Nat
      /\ Len(mStaleValidations') \in Nat
  <2>1. mStaleValidations' \in Seq(Validation)
    BY <1>2, <1>3, ConcatProperties
  <2> QED BY <1>2, <2>1, LenProperties
<1>7. PutSoFar' >= PutSoFar
  BY <1>1, <1>5, <1>6 DEF PutSoFar
<1> QED BY <1>5, <1>7

(* Taking a batch moves it from the vector to the writer: nothing is put   *)
(* or written.                                                             *)
LEMMA TakeBatchWriters ==
  ASSUME TypeOK, NEW w \in Workers, TakeBatch(w)
  PROVE  /\ \A x \in Workers : x # w => writer'[x] = writer[x]
         /\ mStaleValidations' = <<>>
         /\ \/ /\ mStaleValidations # <<>>
               /\ writer'[w].at = "writing"
               /\ writer'[w].batch = mStaleValidations
            \/ /\ mStaleValidations = <<>>
               /\ writer'[w].at = "idle"
  BY DEF TakeBatch, TypeOK, Idle

LEMMA TakeBatchKeeps ==
  ASSUME TypeOK, WriterInv', NEW w \in Workers, TakeBatch(w),
         \A x \in Workers : writer[x].at # "writing"
  PROVE  /\ Pending' = Pending
         /\ Len(Batch') + Len(mStaleValidations')
              = Len(Batch) + Len(mStaleValidations)
<1>1. mStaleValidations \in Seq(Validation)
  BY DEF TypeOK
<1>2. Batch = <<>>
  BY NoBatch
<1>3. CASE mStaleValidations # <<>>
  <2>1. /\ writer'[w].at = "writing" /\ writer'[w].batch = mStaleValidations
        /\ mStaleValidations' = <<>>
    BY <1>3, TakeBatchWriters
  <2>2. Batch' = mStaleValidations
    BY <2>1, BatchOfWriterNext
  <2>3. Pending' = Pending
    BY <1>1, <1>2, <2>1, <2>2, ConcatEmptySeq DEF Pending
  <2>4. Len(<<>>) = 0 /\ Len(mStaleValidations) \in Nat
    BY <1>1, EmptySeq, LenProperties
  <2> QED BY <1>2, <2>1, <2>2, <2>3, <2>4
<1>4. CASE mStaleValidations = <<>>
  <2>1. /\ mStaleValidations' = <<>>
        /\ \A x \in Workers : writer'[x].at # "writing"
    BY <1>4, TakeBatchWriters
  <2>2. Batch' = <<>>
    BY <2>1, NoBatchNext
  <2> QED BY <1>2, <1>4, <2>1, <2>2 DEF Pending
<1> QED BY <1>3, <1>4

LEMMA TakeSteps ==
  ASSUME TypeOK, WriterInv, NEW w \in Workers, DoWriteStart(w) \/ DoWriteLoop(w)
  PROVE  /\ TakeBatch(w) /\ UNCHANGED <<db, flusher, toFlush>>
         /\ \A x \in Workers : writer[x].at # "writing"
<1>1. CASE DoWriteStart(w)
  BY <1>1 DEF DoWriteStart, WriterInv, OneWriter, Running
<1>2. CASE DoWriteLoop(w)
  BY <1>2 DEF DoWriteLoop, WriterInv, OneWriter, Running
<1> QED BY <1>1, <1>2

(* The transaction takes the batch off the front. *)
LEMMA CommitTakesFront ==
  ASSUME QueueInv, NEW w \in Workers, DoWriteCommit(w)
  PROVE  /\ writer[w].batch \in Seq(Validation) /\ writer[w].batch # <<>>
         /\ Batch = writer[w].batch /\ Batch' = <<>>
         /\ mStaleValidations' = mStaleValidations
         /\ Pending = writer[w].batch \o mStaleValidations
         /\ Pending' = mStaleValidations
         /\ db' = db \o writer[w].batch
         /\ flusher' = flusher /\ toFlush' = toFlush
<1> USE DEF QueueInv
<1>1. writer[w].batch \in Seq(Validation) /\ writer[w].batch # <<>>
  BY DEF DoWriteCommit, TypeOK, WriteCall, Idle, BatchHeld
<1>2. Batch = writer[w].batch
  BY BatchOfWriter DEF DoWriteCommit
<1>3. \A x \in Workers : x # w => writer[x].at # "writing"
  BY DEF DoWriteCommit, WriterInv, OneWriter, Running
<1>4. writer[w] \in [at: {"writing", "written"}, batch: Seq(Validation)]
  BY DEF DoWriteCommit, TypeOK, WriteCall, Idle
<1>5. \A x \in Workers : writer'[x].at # "writing"
  BY <1>3, <1>4 DEF DoWriteCommit, TypeOK
<1>6. Batch' = <<>> /\ mStaleValidations' = mStaleValidations
  BY <1>5, NoBatchNext DEF DoWriteCommit
<1>7. mStaleValidations \in Seq(Validation)
  BY DEF TypeOK
<1> QED BY <1>1, <1>2, <1>6, <1>7, ConcatEmptySeq DEF DoWriteCommit, Pending

LEMMA BatchHeldStep ==
  TypeOK /\ BatchHeld /\ [Next]_vars => BatchHeld'
<1> SUFFICES ASSUME TypeOK, BatchHeld, [Next]_vars PROVE BatchHeld'
  OBVIOUS
<1>1. CASE UNCHANGED writer
  BY <1>1 DEF BatchHeld
<1>2. ASSUME NEW w \in Workers, DoWriteStart(w) \/ DoWriteLoop(w)
      PROVE  BatchHeld'
  BY <1>2, TakeBatchWriters DEF DoWriteStart, DoWriteLoop, BatchHeld
<1>3. ASSUME NEW w \in Workers, DoWriteCommit(w)
      PROVE  BatchHeld'
  <2>1. writer[w] \in [at: {"writing", "written"}, batch: Seq(Validation)]
    BY <1>3 DEF DoWriteCommit, TypeOK, WriteCall, Idle
  <2>2. writer'[w].at = "written"
          /\ \A x \in Workers : x # w => writer'[x] = writer[x]
    BY <1>3, <2>1 DEF DoWriteCommit, TypeOK
  <2> QED BY <2>2 DEF BatchHeld
<1> QED
  BY <1>1, <1>2, <1>3
     DEF Next, vars, Receive, AddValidation, GetCurrentValidations, Sweep,
         FlushStart, FlushDone, Tick

LEMMA MarkStep ==
  QueueInv /\ TypeOK' /\ WriterInv' /\ [Next]_vars => MarkInv'
<1> SUFFICES ASSUME QueueInv, TypeOK', WriterInv', [Next]_vars PROVE MarkInv'
  OBVIOUS
<1>0. TypeOK /\ WriterInv /\ MarkInv
  BY DEF QueueInv
<1>1. PutSoFar \in Nat /\ PutSoFar' \in Nat /\ toFlush \in Nat
  <2>1. /\ Batch \in Seq(Validation) /\ Batch' \in Seq(Validation)
        /\ db \in Seq(Validation) /\ db' \in Seq(Validation)
        /\ mStaleValidations \in Seq(Validation)
        /\ mStaleValidations' \in Seq(Validation)
        /\ toFlush \in Nat
    BY <1>0, BatchIsSeq, BatchIsSeqNext DEF TypeOK
  <2>2. /\ Len(Batch) \in Nat /\ Len(Batch') \in Nat
        /\ Len(db) \in Nat /\ Len(db') \in Nat
        /\ Len(mStaleValidations) \in Nat /\ Len(mStaleValidations') \in Nat
    BY <2>1, LenProperties
  <2> QED BY <2>1, <2>2 DEF PutSoFar
<1>2. ASSUME PutSoFar' >= PutSoFar, toFlush' = toFlush,
             flusher' = "running" <=> flusher = "running"
      PROVE  MarkInv'
  BY <1>0, <1>1, <1>2 DEF MarkInv
<1>3. ASSUME NEW t \in Threads, AddValidation(t) PROVE MarkInv'
  <2>1. PutSoFar' >= PutSoFar
    BY <1>0, <1>3, PushBackSteps, PushBackAppends
  <2> QED BY <1>2, <1>3, <2>1 DEF AddValidation
<1>4. CASE GetCurrentValidations
  <2>1. PutSoFar' >= PutSoFar
    BY <1>0, <1>4, PushBackSteps, PushBackAppends
  <2> QED BY <1>2, <1>4, <2>1 DEF GetCurrentValidations
<1>5. CASE FlushStart
  <2>1. Batch' = Batch
    BY <1>5, BatchSame DEF FlushStart
  <2>2. toFlush' = PutSoFar'
    BY <1>5, <2>1 DEF FlushStart, PutSoFar
  <2> QED BY <1>1, <2>2 DEF MarkInv
<1>6. ASSUME NEW w \in Workers, DoWriteStart(w) \/ DoWriteLoop(w)
      PROVE  MarkInv'
  <2>1. /\ TakeBatch(w) /\ UNCHANGED <<db, flusher, toFlush>>
        /\ \A x \in Workers : writer[x].at # "writing"
    BY <1>0, <1>6, TakeSteps
  <2>2. Len(Batch') + Len(mStaleValidations')
          = Len(Batch) + Len(mStaleValidations)
    BY <1>0, <2>1, TakeBatchKeeps
  <2>3. /\ Len(Batch) \in Nat /\ Len(mStaleValidations) \in Nat
        /\ Len(Batch') \in Nat /\ Len(mStaleValidations') \in Nat
        /\ Len(db) \in Nat
    <3>1. /\ Batch \in Seq(Validation) /\ mStaleValidations \in Seq(Validation)
          /\ Batch' \in Seq(Validation) /\ db \in Seq(Validation)
          /\ mStaleValidations' \in Seq(Validation)
      BY <1>0, BatchIsSeq, BatchIsSeqNext DEF TypeOK
    <3> QED BY <3>1, LenProperties
  <2>4. PutSoFar' = PutSoFar
    BY <2>1, <2>2, <2>3 DEF PutSoFar
  <2> QED BY <1>1, <1>2, <2>1, <2>4
<1>7. ASSUME NEW w \in Workers, DoWriteCommit(w) PROVE MarkInv'
  <2> DEFINE b == writer[w].batch
  <2>1. /\ b \in Seq(Validation) /\ Batch = b /\ Batch' = <<>>
        /\ mStaleValidations' = mStaleValidations /\ db' = db \o b
        /\ flusher' = flusher /\ toFlush' = toFlush
    BY <1>7, CommitTakesFront
  <2> HIDE DEF b
  <2>2. db \in Seq(Validation) /\ mStaleValidations \in Seq(Validation)
    BY <1>0 DEF TypeOK
  <2>3. Len(db \o b) = Len(db) + Len(b) /\ Len(<<>>) = 0
    BY <2>1, <2>2, ConcatProperties, EmptySeq
  <2>4. Len(db) \in Nat /\ Len(b) \in Nat /\ Len(mStaleValidations) \in Nat
    BY <2>1, <2>2, LenProperties
  <2>5. PutSoFar' = PutSoFar
    BY <2>1, <2>3, <2>4 DEF PutSoFar
  <2> QED BY <1>1, <1>2, <2>1, <2>5
<1>8. CASE UNCHANGED <<writer, db, mStaleValidations, toFlush>>
           /\ (flusher' = "running" <=> flusher = "running")
  <2>1. PutSoFar' = PutSoFar
    BY <1>8, BatchSame DEF PutSoFar
  <2> QED BY <1>1, <1>2, <1>8, <2>1
<1> QED
  BY <1>3, <1>4, <1>5, <1>6, <1>7, <1>8
     DEF Next, vars, Receive, Sweep, FlushDone, Tick

LEMMA QueueInductive == QueueInv /\ [Next]_vars => QueueInv'
  BY TypeInductive, WriterInductive, BatchHeldStep, MarkStep DEF QueueInv

LEMMA QueueInit == Spec => QueueInv
<1>1. Init => WriterInv /\ BatchHeld /\ MarkInv
  BY DEF Init, WriterInv, OneWriter, NoStranded, Running, Idle, BatchHeld,
         MarkInv
<1> QED BY <1>1, TypeCorrect, PTL DEF Spec, QueueInv

(* Every step, in the eyes of WB. *)
LEMMA InitRefines == Init => WB!Init
<1> SUFFICES ASSUME Init PROVE WB!Init
  OBVIOUS
<1>1. \A w \in Workers : writer[w].at # "writing"
  BY DEF Init, Idle
<1>2. Batch = <<>> /\ mStaleValidations = <<>>
  BY <1>1, NoBatch DEF Init
<1>3. Batch \o mStaleValidations = <<>>
  BY <1>2
<1> QED BY <1>3 DEF Init, WB!Init, Waiter

LEMMA PutStep ==
  ASSUME TypeOK,
         (\E t \in Threads : AddValidation(t)) \/ GetCurrentValidations
  PROVE  WB!Put
<1>1. PushBack
  BY PushBackSteps
<1>2. WB!Appended
  BY <1>1, PushBackAppends DEF WB!Appended, Pending
<1>3. UNCHANGED <<db, flusher, toFlush>>
  BY DEF AddValidation, GetCurrentValidations
<1> QED BY <1>2, <1>3 DEF WB!Put, Waiter

LEMMA WriteStep ==
  ASSUME QueueInv, NEW w \in Workers, DoWriteCommit(w) PROVE WB!Write
<1> DEFINE b == writer[w].batch
<1>1. /\ b \in Seq(Validation) /\ b # <<>>
      /\ Pending = b \o mStaleValidations /\ Pending' = mStaleValidations
      /\ db' = db \o b /\ flusher' = flusher /\ toFlush' = toFlush
  BY CommitTakesFront
<1>2. mStaleValidations \in Seq(Validation)
  BY DEF QueueInv, TypeOK
<1> HIDE DEF b
<1>3. /\ Len(b) \in Nat \ {0} /\ Len(mStaleValidations) \in Nat
      /\ Len(Pending) = Len(b) + Len(mStaleValidations)
  BY <1>1, <1>2, EmptySeq, LenProperties, ConcatProperties
<1>4. SubSeq(Pending, 1, Len(b)) = b
  <2>1. SubSeq(b \o mStaleValidations, 1, Len(b)) = SubSeq(b, 1, Len(b))
    BY <1>1, <1>2, <1>3, SubSeqOfConcat1
  <2> QED BY <1>1, <2>1, SubSeqFull
<1>5. SubSeq(Pending, Len(b) + 1, Len(Pending)) = mStaleValidations
  <2>1. CASE mStaleValidations = <<>>
    <3>1. Len(Pending) < Len(b) + 1
      BY <1>3, <2>1, EmptySeq
    <3> QED BY <1>3, <2>1, <3>1, SubSeqEmpty
  <2>2. CASE mStaleValidations # <<>>
    <3>1. Len(mStaleValidations) \in Nat \ {0}
      BY <1>2, <2>2, EmptySeq
    <3>2. SubSeq(b \o mStaleValidations, Len(b) + 1,
                 Len(b) + Len(mStaleValidations))
            = SubSeq(mStaleValidations, (Len(b) + 1) - Len(b),
                     (Len(b) + Len(mStaleValidations)) - Len(b))
      BY <1>1, <1>2, <1>3, <3>1, SubSeqOfConcat2
    <3>3. (Len(b) + 1) - Len(b) = 1
            /\ (Len(b) + Len(mStaleValidations)) - Len(b)
                 = Len(mStaleValidations)
      BY <1>3
    <3> QED BY <1>1, <1>2, <1>3, <3>2, <3>3, SubSeqFull
  <2> QED BY <2>1, <2>2
<1>6. \E k \in 1 .. Len(Pending) :
        /\ db' = db \o SubSeq(Pending, 1, k)
        /\ Pending' = SubSeq(Pending, k + 1, Len(Pending))
  <2>1. Len(b) \in 1 .. Len(Pending)
    BY <1>3
  <2>2. /\ db' = db \o SubSeq(Pending, 1, Len(b))
        /\ Pending' = SubSeq(Pending, Len(b) + 1, Len(Pending))
    BY <1>1, <1>4, <1>5
  <2> QED BY <2>1, <2>2
<1> QED BY <1>1, <1>6 DEF WB!Write, Waiter, Pending

LEMMA WaitStep == ASSUME TypeOK, FlushStart PROVE WB!Wait
<1>1. PushBack
  BY PushBackSteps
<1>2. WB!Appended
  BY <1>1, PushBackAppends DEF WB!Appended, Pending
<1>3. Batch' = Batch /\ db' = db
  BY BatchSame DEF FlushStart
<1>4. mStaleValidations' \in Seq(Validation) /\ Batch \in Seq(Validation)
        /\ db \in Seq(Validation)
  <2>1. PICK order \in Seq(Validation) :
               mStaleValidations' = mStaleValidations \o order
    BY <1>1 DEF PushBack
  <2> QED BY <2>1, BatchIsSeq, ConcatProperties DEF TypeOK
<1>5. Len(Pending') = Len(Batch) + Len(mStaleValidations')
  BY <1>3, <1>4, ConcatProperties DEF Pending
<1>6. Len(db) \in Nat /\ Len(Batch) \in Nat /\ Len(mStaleValidations') \in Nat
  BY <1>4, LenProperties
<1>7. toFlush' = Len(db) + Len(Batch) + Len(mStaleValidations')
  BY DEF FlushStart
<1>8. toFlush' = Len(db) + Len(Pending')
  BY <1>5, <1>6, <1>7
<1>9. Waiter = "away" /\ Waiter' = "waiting"
  BY DEF FlushStart, Waiter
<1> QED BY <1>2, <1>3, <1>8, <1>9 DEF WB!Wait, Pending

(* flush() that finds mWriting clear finds no doWrite, hence no batch and  *)
(* an empty vector: everything put has its row.                            *)
LEMMA ReturnStep == ASSUME QueueInv, FlushDone PROVE WB!Return
<1> USE DEF QueueInv
<1>1. mStaleValidations = <<>> /\ \A w \in Workers : writer[w].at = "idle"
  BY DEF WriterInv, OneWriter, NoStranded, Running, FlushDone
<1>2. Batch = <<>>
  BY <1>1, NoBatch
<1>3. toFlush =< Len(db) + Len(Batch) + Len(mStaleValidations)
  BY DEF FlushDone, MarkInv, PutSoFar
<1>4. Len(db) \in Nat /\ toFlush \in Nat
  BY LenProperties DEF TypeOK
<1>5. Len(db) >= toFlush
  BY <1>1, <1>2, <1>3, <1>4, EmptySeq
<1>6. Batch' = Batch
  BY BatchSame DEF FlushDone
<1>7. Waiter = "waiting" /\ Waiter' = "returned"
  BY DEF FlushDone, Waiter
<1> QED BY <1>5, <1>6, <1>7 DEF WB!Return, FlushDone

LEMMA StepRefines ==
  QueueInv /\ QueueInv' /\ [Next]_vars => [WB!Next]_(WB!vars)
<1> SUFFICES ASSUME QueueInv, QueueInv', [Next]_vars
             PROVE  WB!Next \/ UNCHANGED WB!vars
  OBVIOUS
<1>0. TypeOK /\ WriterInv /\ WriterInv'
  BY DEF QueueInv
<1>1. CASE (\E t \in Threads : AddValidation(t)) \/ GetCurrentValidations
  BY <1>0, <1>1, PutStep DEF WB!Next
<1>2. ASSUME NEW w \in Workers, DoWriteStart(w) \/ DoWriteLoop(w)
      PROVE  UNCHANGED WB!vars
  <2>1. /\ TakeBatch(w) /\ UNCHANGED <<db, flusher, toFlush>>
        /\ \A x \in Workers : writer[x].at # "writing"
    BY <1>0, <1>2, TakeSteps
  <2>2. Pending' = Pending
    BY <1>0, <2>1, TakeBatchKeeps
  <2> QED BY <2>1, <2>2 DEF WB!vars, Pending, Waiter
<1>3. ASSUME NEW w \in Workers, DoWriteCommit(w) PROVE WB!Next
  BY <1>3, WriteStep DEF WB!Next
<1>4. CASE FlushStart
  BY <1>0, <1>4, WaitStep DEF WB!Next
<1>5. CASE FlushDone
  BY <1>5, ReturnStep DEF WB!Next
<1>6. CASE UNCHANGED <<writer, mStaleValidations, db, flusher, toFlush>>
  <2>1. Batch' = Batch /\ Waiter' = Waiter
    BY <1>6, BatchSame DEF Waiter
  <2> QED BY <1>6, <2>1 DEF WB!vars
<1> QED
  BY <1>1, <1>2, <1>3, <1>4, <1>5, <1>6 DEF Next, vars, Receive, Sweep, Tick

(* The validation store implements the abstract write-behind queue for     *)
(* every set of validators, threads and workers: displaced and expired     *)
(* validations reach the Validations table in the order in which they      *)
(* became stale, each exactly once, and flush() returns only when          *)
(* everything it found unwritten has its row.                              *)
THEOREM QueueRefines == Spec => ImplementsQueue
<1>1. Spec => WB!Init /\ [][WB!Next]_(WB!vars)
  BY InitRefines, StepRefines, QueueInit, QueueInductive, PTL DEF Spec
<1> QED BY <1>1 DEF ImplementsQueue, WB!SafeSpec
==============================================================================
