-------------------------- MODULE SHAMapStore_proofs -------------------------
(***************************************************************************)
(* Proofs about SHAMapStore for any number of rotations, crashes, readers  *)
(* and ledgers: a start finds its databases (StartSucceeds), the tables    *)
(* follow the rotations (RowsFollow), no node of a kept ledger is lost     *)
(* (NodesKept), and no fetch misses one (FetchFinds).                      *)
(***************************************************************************)
EXTENDS SHAMapStore, TLAPS

wdb == state_db.writableDb
adb == state_db.archiveDb

(* The directories the saved state names exist; the open backends are      *)
(* those, and differ from them only while run() exchanges them.            *)
NamesInv ==
  /\ pc # "error"
  /\ wdb = None <=> adb = None
  /\ wdb # None => wdb # adb /\ {wdb, adb} \subseteq DOMAIN disk
  /\ Running => wdb # None
  /\ pc = "setState" => /\ {writableBackend, archiveBackend} \subseteq DOMAIN disk
                        /\ writableBackend # archiveBackend
                        /\ wdb # None => writableBackend = wdb /\ archiveBackend = adb
  /\ Running /\ ~ Locked => writableBackend = wdb /\ archiveBackend = adb
  /\ pc \in {"save", "rotating", "swapping"} =>
       /\ backends.new \in DOMAIN disk
       /\ backends.new \notin {writableBackend, archiveBackend}
       /\ disk[backends.new] = {} /\ pending[backends.new] = {}
  /\ Locked => wdb = backends.new /\ adb = writableBackend
  /\ pc = "rotating" => /\ archiveBackend \in DOMAIN disk
                        /\ archiveBackend # writableBackend
  /\ pc = "swapping" => archiveBackend = writableBackend
  /\ pc \in {"swapping", "delete"} => backends.old \notin {wdb, adb}
  /\ pc \in Rotating \ {"save", "rotating", "swapping"} => Fresh # {}

(* The deletion is done: run() may go on to copy, or has gone on. *)
RowsGone ==
  \/ pc = "cleared" /\ healthy /\ ~ stop
  \/ pc \in {"copy", "copied", "freshen", "fresh", "newBackend", "save"}

(* The ledgers of the tables, and the numbers run() works with. *)
SqlInv ==
  /\ \A s \in saved : s >= state_db.lastRotated => s \in sql
  /\ RowsGone => \A s \in sql \ late : s >= lastRotated
  /\ Running => lastRotated = state_db.lastRotated
  /\ lastRotated <= validated /\ state_db.lastRotated <= validated
  /\ validatedLedger <= validated
  /\ wdb = None => validated = 0
  /\ newLedger \in {None, validated}
  /\ pc \in Rotating => /\ validatedLedger # 0
                        /\ pc \notin {"rotating", "swapping"} =>
                             state_db.lastRotated <= validatedLedger

(* What a crash may lose is not counted. *)
Safe == batched => crashes = 0

In(d) == disk[d] \cup pending[d]
Stored == In(wdb) \cup In(adb)

(* Where the nodes of the ledger under construction go. *)
BuilderInv ==
  /\ ~ batched => \A d \in DOMAIN disk : pending[d] = {}
  /\ builder.unsaved \subseteq NewNodes(validated + 1)
  /\ ~ Running => builder.unsaved = NewNodes(validated + 1)
  /\ builder.target # None => /\ Running /\ builder.unsaved # {}
                              /\ builder.target \in {wdb, adb}

(* Every node of a kept ledger is in one of the two databases the saved    *)
(* state names, whether the server runs or not.                            *)
LedgersInv ==
  Safe /\ wdb # None =>
    /\ \A s \in 1 .. validated :
         s >= state_db.lastRotated => StateMap[s] \subseteq Stored
    /\ NewNodes(validated + 1) \subseteq builder.unsaved \cup Stored

(* run() was woken by a ledger that was closed while it waited, or works   *)
(* on a rotation, up to the exchange.                                      *)
InRotation ==
  \/ pc = "woken" /\ ~ stop /\ newLedger # None
  \/ pc \in Rotating

(* The ledgers from the one that is copied on. *)
Since(S) == \A s \in 1 .. validated : s >= validatedLedger => StateMap[s] \subseteq S

(* Before the exchange, what is stored goes to the writable backend. *)
CopyTarget ==
  /\ InRotation =>
       /\ builder.target \in {None, writableBackend}
       /\ Safe => NewNodes(validated + 1) \subseteq
                    builder.unsaved \cup In(writableBackend)
  /\ pc \in Rotating \ {"swapping"} => pending[archiveBackend] = {}

(* What the writable backend holds of the ledger that is copied and of all *)
(* later ones: everything, when the copying is done.                       *)
CopyDone ==
  \/ pc = "copied" /\ healthy /\ ~ stop
  \/ pc \in {"freshen", "fresh", "newBackend", "save", "rotating"}

CopyData ==
  Safe =>
    /\ pc \in {"clearPrior", "clearSql", "cleared"} =>
         Since(In(writableBackend) \cup StateMap[validatedLedger])
    /\ pc = "copy" => /\ toCopy \subseteq StateMap[validatedLedger]
                      /\ Since(In(writableBackend) \cup toCopy)
    /\ CopyDone => Since(In(writableBackend))

CopyInv == CopyTarget /\ CopyData

(* A fetch under way: a node that is kept is where it will look next. *)
FetchInv ==
  \A r \in Readers :
    /\ reader[r].at # "idle" => Running
    /\ ~ batched /\ reader[r].held =>
         /\ reader[r].node \in Stored
         /\ Locked => reader[r].node \in Kept(state_db.lastRotated)
         /\ reader[r].at = "archive" => reader[r].node \in disk[archiveBackend]
         /\ reader[r].at # "recheck"

StoreInv ==
  TypeOK /\ NamesInv /\ SqlInv /\ BuilderInv /\ LedgersInv /\ CopyInv /\ FetchInv

-----------------------------------------------------------------------------
(* The operators of the model. *)

LEMMA ConfigType == TypeOK => batched \in BOOLEAN /\ advisoryDelete \in BOOLEAN
  BY StoreAssumption DEF TypeOK, config

LEMMA DirsType == Dirs \subseteq Nat /\ None \notin Dirs
  BY StoreAssumption

(* The nodes of a ledger are those of the one before and the new ones. *)
LEMMA NewNodesOf ==
  ASSUME NEW s \in Nat, s >= 1
  PROVE  /\ NewNodes(s) \subseteq Nodes
         /\ s <= LastSeq => StateMap[s] \subseteq Nodes
         /\ s = 1 /\ s <= LastSeq => StateMap[s] \subseteq NewNodes(s)
         /\ s > 1 /\ s <= LastSeq =>
              StateMap[s] \subseteq StateMap[s - 1] \cup NewNodes(s)
  <1>1. LastSeq \in Nat /\ StateMap \in [1 .. LastSeq -> SUBSET Nodes]
    BY StoreAssumption
  <1>2. s <= LastSeq => StateMap[s] \subseteq Nodes
    BY <1>1
  <1>3. s > 1 /\ s <= LastSeq => NewNodes(s) = StateMap[s] \ StateMap[s - 1]
    BY <1>1 DEF NewNodes
  <1>4. s = 1 /\ s <= LastSeq => NewNodes(s) = StateMap[s]
    BY <1>1 DEF NewNodes
  <1>5. s > LastSeq => NewNodes(s) = {}
    BY <1>1 DEF NewNodes
  <1> QED BY <1>1, <1>2, <1>3, <1>4, <1>5

(* A health check lets the thread go on only if it is not stopped and no   *)
(* earlier check failed.                                                   *)
LEMMA HealthEffect ==
  ASSUME healthy \in BOOLEAN, stop \in BOOLEAN, NEW ok, NEW bad, Health(ok, bad)
  PROVE  /\ healthy' \in BOOLEAN
         /\ \/ pc' = ok /\ ~ stop /\ healthy /\ healthy'
            \/ pc' = bad /\ (stop \/ ~ healthy')
  <1> PICK fine \in BOOLEAN :
        /\ healthy' = (healthy /\ (fine \/ stop))
        /\ pc' = IF ~stop /\ healthy /\ fine THEN ok ELSE bad
    BY DEF Health
  <1>1. CASE ~stop /\ healthy /\ fine
    BY <1>1
  <1>2. CASE ~ (~stop /\ healthy /\ fine)
    BY <1>2
  <1> QED BY <1>1, <1>2

LEMMA SwitchEffect ==
  ASSUME healthy \in BOOLEAN, stop \in BOOLEAN, NEW ok, HealthSwitch(ok)
  PROVE  /\ healthy' \in BOOLEAN
         /\ \/ pc' = ok /\ ~ stop /\ healthy
            \/ pc' \in {"stopped", "top"}
  <1> DEFINE bad == IF stop THEN "stopped" ELSE "top"
  <1>1. bad \in {"stopped", "top"} /\ Health(ok, bad)
    BY DEF HealthSwitch
  <1> HIDE DEF bad
  <1> QED BY <1>1, HealthEffect

(* What is stored in a directory goes there and nowhere else. *)
LEMMA StoreEffect ==
  ASSUME TypeOK, NEW d \in DOMAIN disk, NEW n \in Nodes, BackendStore(d, n)
  PROVE  /\ disk' \in [DOMAIN disk -> SUBSET Nodes]
         /\ pending' \in [DOMAIN disk -> SUBSET Nodes]
         /\ n \in disk'[d] \cup pending'[d]
         /\ \A e \in DOMAIN disk :
              /\ disk[e] \subseteq disk'[e] /\ pending[e] \subseteq pending'[e]
              /\ e # d => disk'[e] = disk[e] /\ pending'[e] = pending[e]
              /\ ~ batched => pending'[e] = pending[e]
  <1>1. /\ disk \in [DOMAIN disk -> SUBSET Nodes]
        /\ pending \in [DOMAIN disk -> SUBSET Nodes]
    BY DEF TypeOK
  <1>2. CASE batched
    BY <1>1, <1>2 DEF BackendStore
  <1>3. CASE ~ batched
    BY <1>1, <1>3 DEF BackendStore
  <1> QED BY <1>2, <1>3, ConfigType

(* A step that leaves the backends, and adds nodes to one of them at most. *)
Grown(d) ==
  /\ disk' \in [DOMAIN disk -> SUBSET Nodes]
  /\ pending' \in [DOMAIN disk -> SUBSET Nodes]
  /\ \A e \in DOMAIN disk :
       /\ disk[e] \subseteq disk'[e]
       /\ disk[e] \cup pending[e] \subseteq disk'[e] \cup pending'[e]
       /\ e # d => disk'[e] = disk[e] /\ pending'[e] = pending[e]
       /\ ~ batched /\ pending[e] = {} => pending'[e] = {}

LEMMA StoreGrown ==
  ASSUME TypeOK, NEW d \in DOMAIN disk, NEW n \in Nodes, BackendStore(d, n)
  PROVE  Grown(d)
  BY StoreEffect DEF Grown

LEMMA WriteGrown ==
  ASSUME TypeOK, NEW d \in DOMAIN disk, WriteBatch(d)
  PROVE  /\ Grown(d)
         /\ disk'[d] \cup pending'[d] = disk[d] \cup pending[d]
         /\ pending'[d] = {}
  <1>1. /\ disk \in [DOMAIN disk -> SUBSET Nodes]
        /\ pending \in [DOMAIN disk -> SUBSET Nodes]
    BY DEF TypeOK
  <1> QED BY <1>1 DEF WriteBatch, Grown

(* The saves of validated ledgers. *)
Saving == SetFullLedger \/ \E s \in saving : SaveLedger(s)

(* The steps of Next. *)
LEMMA NextCases ==
  ASSUME [Next]_vars
  PROVE  \/ Top \/ TakeLedger \/ WakeWithoutLedger \/ ClearPrior \/ ClearSql
         \/ Cleared \/ CopyNode \/ Copied \/ Visit("freshen", "fresh")
         \/ NothingToVisit \/ Freshened \/ NewBackend \/ Save \/ Rotate
         \/ DeleteOld \/ StoreBegin \/ StoreEnd \/ OnLedgerClosed \/ Saving
         \/ (\E r \in Readers : Fetching(r))
         \/ (\E r \in Readers : \E n \in Nodes : FetchBegin(r, n))
         \/ (\E d \in DOMAIN disk : WriteBatch(d))
         \/ (\E seq \in CanDeletes : SetCanDelete(seq))
         \/ OnStop \/ Exit \/ Crash \/ DbPaths \/ MakeDatabase \/ StartRun
         \/ UNCHANGED vars
  <1> USE DEF RotationThread, FreshenCaches, Startup, Saving
  <1> QED BY DEF Next

(* A step beside the node store and the rotation thread. *)
Aside ==
  UNCHANGED <<config, disk, state_db, nodeStore, thread, canDelete, newLedger,
              stop, validated, builder, crashes>>

(* A fetch changes only its own record, and stores at most one node. *)
OnlyReader == Aside /\ UNCHANGED <<sql, complete, saves>>

LEMMA FetchCases ==
  ASSUME NEW r \in Readers, Fetching(r)
  PROVE  \/ /\ OnlyReader /\ Aside
            /\ FetchWritable(r) \/ FetchArchive(r) \/ FetchGiveUp(r)
         \/ FetchStore(r)
  BY DEF Fetching, FetchWritable, FetchArchive, FetchGiveUp, OnlyReader, Aside, nodeStore

LEMMA BeginOnlyReader ==
  ASSUME NEW r, NEW n, FetchBegin(r, n)
  PROVE  OnlyReader /\ Aside
  BY DEF FetchBegin, OnlyReader, Aside

LEMMA SavingAside == Saving => Aside /\ UNCHANGED reader
  BY DEF Saving, SetFullLedger, SaveLedger, Aside

LEMMA FetchStoreEffect ==
  ASSUME StoreInv, NEW r \in Readers, FetchStore(r)
  PROVE  /\ reader[r].node \in Nodes
         /\ Running /\ ~ Locked /\ writableBackend \in DOMAIN disk
         /\ Grown(writableBackend)
         /\ reader' = [reader EXCEPT ![r] = NoFetch]
         /\ UNCHANGED <<config, state_db, sql, writableBackend, archiveBackend,
                 thread, canDelete, newLedger, stop,
                 complete, validated, saves, builder, crashes>>
  <1>1. reader[r].at = "store" /\ ~ Locked
    BY DEF FetchStore
  <1>2. reader[r].node \in Nodes
    BY <1>1 DEF StoreInv, TypeOK, NoFetch
  <1>3. Running
    BY <1>1 DEF StoreInv, FetchInv
  <1>4. writableBackend \in DOMAIN disk
    BY <1>1, <1>3 DEF StoreInv, NamesInv
  <1>5. Grown(writableBackend)
    BY <1>2, <1>4, StoreGrown DEF FetchStore, StoreInv
  <1> QED BY <1>1, <1>2, <1>3, <1>4, <1>5 DEF FetchStore, Return

(* Storing a node of the ledger under construction. *)
LEMMA StoreEndEffect ==
  ASSUME StoreInv, StoreEnd
  PROVE  \E n \in builder.unsaved :
           /\ n \in Nodes
           /\ builder.target \in DOMAIN disk /\ Grown(builder.target)
           /\ n \in disk'[builder.target] \cup pending'[builder.target]
           /\ builder' = [unsaved |-> builder.unsaved \ {n}, target |-> None]
  <1> DEFINE n == CHOOSE x \in builder.unsaved : TRUE
  <1>1. builder.target # None /\ builder.unsaved # {} /\ builder.target \in {wdb, adb}
        /\ Running
    BY DEF StoreEnd, StoreInv, BuilderInv
  <1>2. n \in builder.unsaved
    BY <1>1
  <1>3. n \in Nodes
    BY <1>2 DEF StoreInv, TypeOK
  <1>4. builder.target \in DOMAIN disk
    BY <1>1 DEF StoreInv, NamesInv
  <1>5. /\ BackendStore(builder.target, n)
        /\ builder' = [unsaved |-> builder.unsaved \ {n}, target |-> None]
    BY DEF StoreEnd
  <1> HIDE DEF n
  <1> QED BY <1>2, <1>3, <1>4, <1>5, StoreGrown, StoreEffect DEF StoreInv

(* Copying, or freshening, one node. *)
LEMMA VisitEffect ==
  ASSUME StoreInv, NEW here \in {"copy", "freshen"}, NEW done, Visit(here, done)
  PROVE  /\ writableBackend \in DOMAIN disk /\ archiveBackend \in DOMAIN disk
         /\ writableBackend # archiveBackend
         /\ Grown(writableBackend)
         /\ healthy' \in BOOLEAN
         /\ \E n \in toCopy :
              /\ toCopy' = toCopy \ {n}
              /\ n \in disk[archiveBackend] =>
                   n \in disk'[writableBackend] \cup pending'[writableBackend]
         /\ \/ toCopy' = {} /\ pc' = done
            \/ toCopy' # {} /\ pc' = here
            \/ pc' = done /\ (stop \/ ~ healthy')
         /\ UNCHANGED <<config, state_db, sql, writableBackend, archiveBackend,
                 lastRotated, validatedLedger, backends, canDelete,
                 newLedger, stop, server>>
  <1> DEFINE n == CHOOSE x \in toCopy : TRUE
  <1> DEFINE next == IF toCopy' = {} THEN done ELSE here
  <1>1. /\ n \in toCopy /\ n \in Nodes /\ pc = here
        /\ FetchNode(n) /\ toCopy' = toCopy \ {n}
        /\ Health(next, done) \/ (pc' = next /\ UNCHANGED healthy)
    BY DEF Visit, StoreInv, TypeOK
  <1>2. /\ writableBackend \in DOMAIN disk /\ archiveBackend \in DOMAIN disk
        /\ writableBackend # archiveBackend
    BY <1>1 DEF StoreInv, NamesInv, Running, Locked
  <1> HIDE DEF n
  <1>3. /\ Grown(writableBackend)
        /\ n \in disk[archiveBackend] =>
             n \in disk'[writableBackend] \cup pending'[writableBackend]
    <2>1. CASE n \notin disk[writableBackend] /\ n \in disk[archiveBackend]
      BY <1>1, <1>2, <2>1, StoreGrown, StoreEffect DEF FetchNode, StoreInv
    <2>2. CASE ~ (n \notin disk[writableBackend] /\ n \in disk[archiveBackend])
      BY <1>1, <1>2, <2>2 DEF FetchNode, Grown, StoreInv, TypeOK
    <2> QED BY <2>1, <2>2
  <1>4. healthy \in BOOLEAN /\ stop \in BOOLEAN
    BY DEF StoreInv, TypeOK
  <1>5. /\ healthy' \in BOOLEAN
        /\ pc' = next \/ (pc' = done /\ (stop \/ ~ healthy'))
    <2> HIDE DEF next
    <2> QED BY <1>1, <1>4, HealthEffect
  <1>6. /\ UNCHANGED <<config, state_db, sql, writableBackend, archiveBackend,
                 lastRotated, validatedLedger, backends, canDelete,
                 newLedger, stop, server>>
    BY DEF Visit
  <1>7. CASE toCopy' = {}
    BY <1>1, <1>2, <1>3, <1>5, <1>6, <1>7
  <1>8. CASE toCopy' # {}
    BY <1>1, <1>2, <1>3, <1>5, <1>6, <1>8
  <1> QED BY <1>7, <1>8

(* Directories removed: the others keep what they hold. *)
LEMMA WithoutDirsEffect ==
  ASSUME NEW f, f \in [DOMAIN f -> SUBSET Nodes], NEW ds
  PROVE  /\ WithoutDirs(f, ds) \in [DOMAIN f \ ds -> SUBSET Nodes]
         /\ \A d \in DOMAIN f : d \notin ds => WithoutDirs(f, ds)[d] = f[d]
  BY DEF WithoutDirs

LEMMA DiskType ==
  TypeOK => /\ disk \in [DOMAIN disk -> SUBSET Nodes]
            /\ pending \in [DOMAIN disk -> SUBSET Nodes]
            /\ DOMAIN pending = DOMAIN disk
            /\ pending \in [DOMAIN pending -> SUBSET Nodes]
            /\ DOMAIN disk \subseteq Dirs
  BY DEF TypeOK

LEMMA NewBackendEffect ==
  ASSUME StoreInv, NewBackend
  PROVE  /\ FreshDir \in Dirs /\ FreshDir \notin DOMAIN disk
         /\ disk' \in [DOMAIN disk \cup {FreshDir} -> SUBSET Nodes]
         /\ pending' \in [DOMAIN disk \cup {FreshDir} -> SUBSET Nodes]
         /\ disk'[FreshDir] = {} /\ pending'[FreshDir] = {}
         /\ \A d \in DOMAIN disk : disk'[d] = disk[d] /\ pending'[d] = pending[d]
         /\ healthy' \in BOOLEAN
         /\ \/ pc' = "save" /\ ~ stop /\ healthy
               /\ backends' = [new |-> FreshDir, old |-> None]
            \/ pc' \in {"stopped", "top"} /\ backends' = NoBackends
  <1>1. pc = "newBackend" /\ HealthSwitch("save")
        /\ disk' = WithDirs(disk, {FreshDir}) /\ pending' = WithDirs(pending, {FreshDir})
        /\ backends' = IF pc' = "save" THEN [new |-> FreshDir, old |-> None]
                                       ELSE NoBackends
    BY DEF NewBackend
  <1>2. Fresh # {}
    BY <1>1 DEF StoreInv, NamesInv, Rotating
  <1>3. FreshDir \in Fresh
    BY <1>2 DEF FreshDir
  <1>4. FreshDir \in Dirs /\ FreshDir \notin DOMAIN disk
    BY <1>3 DEF Fresh
  <1>5. TypeOK /\ healthy \in BOOLEAN /\ stop \in BOOLEAN
    BY DEF StoreInv, TypeOK
  <1>6. /\ healthy' \in BOOLEAN
        /\ (pc' = "save" /\ ~ stop /\ healthy) \/ pc' \in {"stopped", "top"}
    BY <1>1, <1>5, SwitchEffect
  <1>7. /\ disk' \in [DOMAIN disk \cup {FreshDir} -> SUBSET Nodes]
        /\ disk'[FreshDir] = {}
        /\ \A d \in DOMAIN disk : disk'[d] = disk[d]
    <2>1. disk \in [DOMAIN disk -> SUBSET Nodes]
      BY <1>5, DiskType
    <2> QED BY <1>1, <1>4, <2>1 DEF WithDirs
  <1>8. /\ pending' \in [DOMAIN disk \cup {FreshDir} -> SUBSET Nodes]
        /\ pending'[FreshDir] = {}
        /\ \A d \in DOMAIN disk : pending'[d] = pending[d]
    <2>1. pending \in [DOMAIN disk -> SUBSET Nodes]
      BY <1>5, DiskType
    <2> QED BY <1>1, <1>4, <2>1 DEF WithDirs
  <1>9. \/ (pc' = "save" /\ ~ stop /\ healthy
               /\ backends' = [new |-> FreshDir, old |-> None])
        \/ (pc' \in {"stopped", "top"} /\ backends' = NoBackends)
    BY <1>1, <1>6
  <1> QED BY <1>4, <1>6, <1>7, <1>8, <1>9

(* The directories a start or a rotation removes are not the named ones. *)
LEMMA DeleteEffect ==
  ASSUME StoreInv, DeleteOld
  PROVE  /\ pc = "delete" /\ backends.old \notin {wdb, adb}
         /\ disk' \in [DOMAIN disk \ {backends.old} -> SUBSET Nodes]
         /\ pending' \in [DOMAIN disk \ {backends.old} -> SUBSET Nodes]
         /\ \A d \in DOMAIN disk \ {backends.old} :
              disk'[d] = disk[d] /\ pending'[d] = pending[d]
  <1>1. pc = "delete" /\ backends.old \notin {wdb, adb}
    BY DEF StoreInv, NamesInv, DeleteOld
  <1>2. /\ disk \in [DOMAIN disk -> SUBSET Nodes]
        /\ pending \in [DOMAIN disk -> SUBSET Nodes]
    BY DiskType DEF StoreInv
  <1> QED BY <1>1, <1>2 DEF DeleteOld, WithoutDirs

LEMMA DbPathsEffect ==
  ASSUME StoreInv, DbPaths
  PROVE  /\ pc = "down" /\ pc' = "make"
         /\ wdb # None => {wdb, adb} \subseteq DOMAIN disk'
         /\ DOMAIN disk' \subseteq DOMAIN disk
         /\ disk' \in [DOMAIN disk' -> SUBSET Nodes]
         /\ pending' \in [DOMAIN disk' -> SUBSET Nodes]
         /\ \A d \in DOMAIN disk' : disk'[d] = disk[d] /\ pending'[d] = pending[d]
  <1> DEFINE gone == DOMAIN disk \ Named
  <1>1. /\ disk' = WithoutDirs(disk, gone) /\ pending' = WithoutDirs(pending, gone)
        /\ pc = "down"
    BY DEF DbPaths
  <1>2. Named \subseteq DOMAIN disk /\ (wdb = None <=> adb = None)
    BY DEF StoreInv, NamesInv, Named, wdb, adb
  <1>3. pc' = "make"
    BY <1>2 DEF DbPaths, wdb, adb
  <1>4. wdb # None => {wdb, adb} \subseteq DOMAIN disk \ gone
    BY <1>2 DEF Named, wdb, adb
  <1> HIDE DEF gone
  <1>5. /\ disk' \in [DOMAIN disk \ gone -> SUBSET Nodes]
        /\ \A d \in DOMAIN disk \ gone : disk'[d] = disk[d]
    BY <1>1, WithoutDirsEffect, DiskType DEF StoreInv
  <1>6. /\ pending' \in [DOMAIN disk \ gone -> SUBSET Nodes]
        /\ \A d \in DOMAIN disk \ gone : pending'[d] = pending[d]
    BY <1>1, WithoutDirsEffect, DiskType DEF StoreInv
  <1> QED BY <1>1, <1>3, <1>4, <1>5, <1>6

LEMMA MakeEffect ==
  ASSUME StoreInv, MakeDatabase
  PROVE  /\ pc = "make" /\ pc' = "setState"
         /\ writableBackend' \in DOMAIN disk' /\ archiveBackend' \in DOMAIN disk'
         /\ writableBackend' # archiveBackend'
         /\ wdb # None => writableBackend' = wdb /\ archiveBackend' = adb
         /\ DOMAIN disk \subseteq DOMAIN disk' /\ DOMAIN disk' \subseteq Dirs
         /\ disk' \in [DOMAIN disk' -> SUBSET Nodes]
         /\ pending' \in [DOMAIN disk' -> SUBSET Nodes]
         /\ \A d \in DOMAIN disk : disk'[d] = disk[d] /\ pending'[d] = pending[d]
         /\ ~ batched => \A d \in DOMAIN disk' : pending'[d] = {}
  <1>1. wdb = None <=> adb = None
    BY DEF StoreInv, NamesInv
  <1>2. CASE OpenBackends
    <2>1. wdb # None
      BY <1>1, <1>2 DEF OpenBackends, Named, wdb, adb
    <2>2. wdb # adb /\ {wdb, adb} \subseteq DOMAIN disk
      BY <2>1 DEF StoreInv, NamesInv
    <2> QED BY <1>2, <2>1, <2>2, DiskType
            DEF OpenBackends, StoreInv, BuilderInv, wdb, adb
  <1>3. CASE CreateBackends
    <2>1. wdb = None
      BY <1>1, <1>3 DEF CreateBackends, Named, wdb, adb
    <2>2. PICK d \in Fresh, e \in Fresh :
            /\ d < e /\ writableBackend' = d /\ archiveBackend' = e
            /\ disk' = WithDirs(disk, {d, e}) /\ pending' = WithDirs(pending, {d, e})
      BY <1>3 DEF CreateBackends
    <2>3. d \in Dirs /\ e \in Dirs /\ d \notin DOMAIN disk /\ e \notin DOMAIN disk
      BY DEF Fresh
    <2>4. d # e
      BY <2>2, <2>3, DirsType
    <2> DEFINE ds == {d, e}
    <2>5. d \in ds /\ e \in ds /\ ds \subseteq Dirs /\ ds \cap DOMAIN disk = {}
      BY <2>3
    <2>6. disk' = WithDirs(disk, ds) /\ pending' = WithDirs(pending, ds)
      BY <2>2
    <2> HIDE DEF ds
    <2>7. /\ disk' \in [DOMAIN disk \cup ds -> SUBSET Nodes]
          /\ \A x \in DOMAIN disk : disk'[x] = disk[x]
      <3>1. disk \in [DOMAIN disk -> SUBSET Nodes]
        BY DiskType DEF StoreInv
      <3> QED BY <2>5, <2>6, <3>1 DEF WithDirs
    <2>8. /\ pending' \in [DOMAIN disk \cup ds -> SUBSET Nodes]
          /\ \A x \in DOMAIN disk : pending'[x] = pending[x]
          /\ \A x \in ds : pending'[x] = {}
      <3>1. pending \in [DOMAIN disk -> SUBSET Nodes]
        BY DiskType DEF StoreInv
      <3> QED BY <2>5, <2>6, <3>1 DEF WithDirs
    <2>9. ~ batched => \A x \in DOMAIN disk : pending[x] = {}
      BY DEF StoreInv, BuilderInv
    <2>10. DOMAIN disk \subseteq Dirs
      BY DiskType DEF StoreInv
    <2> QED BY <1>3, <2>1, <2>2, <2>4, <2>5, <2>7, <2>8, <2>9, <2>10
            DEF CreateBackends
  <1> QED BY <1>2, <1>3 DEF MakeDatabase

(* The end of a process: what was written stays. *)
Ending == Exit \/ Crash

LEMMA EndEffect ==
  ASSUME StoreInv, Ending
  PROVE  /\ MemoryLost /\ crashes' = crashes + 1 /\ crashes < MaxCrashes[batched]
         /\ disk' \in [DOMAIN disk -> SUBSET Nodes]
         /\ pending' \in [DOMAIN disk -> SUBSET Nodes]
         /\ \A d \in DOMAIN disk : pending'[d] = {} /\ disk[d] \subseteq disk'[d]
         /\ ~ batched => \A d \in DOMAIN disk :
              disk'[d] \cup pending'[d] = disk[d] \cup pending[d]
  <1>1. /\ disk \in [DOMAIN disk -> SUBSET Nodes]
        /\ pending \in [DOMAIN disk -> SUBSET Nodes]
        /\ ~ batched => \A d \in DOMAIN disk : pending[d] = {}
    BY DiskType DEF StoreInv, BuilderInv
  <1>2. MemoryLost /\ crashes' = crashes + 1 /\ crashes < MaxCrashes[batched]
    BY DEF Ending, Exit, Crash
  <1>3. /\ pending' \in [DOMAIN disk -> SUBSET Nodes]
        /\ \A d \in DOMAIN disk : pending'[d] = {}
    BY <1>2 DEF MemoryLost
  <1>4. CASE Crash
    <2>1. disk' = disk
      BY <1>4 DEF Crash
    <2> QED BY <1>1, <1>2, <1>3, <2>1
  <1>5. CASE Exit
    <2>1. PICK inTime \in BOOLEAN :
            disk' = [d \in DOMAIN disk |->
                       disk[d] \cup (IF inTime THEN pending[d] ELSE {})]
      BY <1>5 DEF Exit
    <2>2. CASE inTime
      BY <1>1, <1>2, <1>3, <2>1, <2>2
    <2>3. CASE ~ inTime
      BY <1>1, <1>2, <1>3, <2>1, <2>3
    <2> QED BY <2>2, <2>3
  <1> QED BY <1>4, <1>5 DEF Ending

-----------------------------------------------------------------------------
(* The names. *)

(* A step of the rotation thread, or a call, that leaves the backends and  *)
(* their directories alone and does not reach or leave the exchange.       *)
LEMMA NamesQuiet ==
  ASSUME NamesInv, UNCHANGED <<state_db, writableBackend, archiveBackend, backends>>,
         DOMAIN disk' = DOMAIN disk,
         \/ pc' = pc
         \/ /\ Running /\ Running' /\ pc \notin {"save", "rotating", "swapping"}
            /\ pc' \notin {"save", "rotating", "swapping", "delete"}
            /\ pc' \in Rotating => pc \in Rotating,
         pc \in {"save", "rotating", "swapping"} =>
           disk'[backends.new] = {} /\ pending'[backends.new] = {}
  PROVE  NamesInv'
  BY DEF NamesInv, wdb, adb, Fresh, Locked, Running, Rotating

(* Nothing is stored in the new backend before the exchange. *)
LEMMA NamesGrown ==
  ASSUME NamesInv, UNCHANGED <<pc, state_db, writableBackend, archiveBackend, backends>>,
         NEW d \in DOMAIN disk, Grown(d),
         pc \in {"save", "rotating", "swapping"} => d # backends.new
  PROVE  NamesInv'
  <1>1. DOMAIN disk' = DOMAIN disk
    BY DEF Grown
  <1>2. pc \in {"save", "rotating", "swapping"} =>
          disk'[backends.new] = {} /\ pending'[backends.new] = {}
    BY DEF Grown, NamesInv
  <1> QED BY <1>1, <1>2, NamesQuiet

LEMMA NamesStep == ASSUME StoreInv, [Next]_vars PROVE NamesInv'
  <1> USE DEF StoreInv
  <1>t. healthy \in BOOLEAN /\ stop \in BOOLEAN
    BY DEF TypeOK
  <1>1. CASE Top \/ WakeWithoutLedger \/ NothingToVisit
    <2>1. \/ pc' = pc
          \/ /\ Running /\ Running' /\ pc \notin {"save", "rotating", "swapping"}
             /\ pc' \notin {"save", "rotating", "swapping", "delete"}
             /\ pc' \in Rotating => pc \in Rotating
      BY <1>1 DEF Top, TopStep, WakeWithoutLedger, NothingToVisit, Running, Rotating
    <2>2. UNCHANGED <<disk, pending, state_db, writableBackend, archiveBackend, backends>>
      BY <1>1 DEF Top, WakeWithoutLedger, NothingToVisit, nodeStore
    <2> QED BY <2>1, <2>2, NamesQuiet DEF NamesInv
  <1>2. CASE ClearPrior \/ ClearSql \/ Cleared \/ Copied \/ Freshened
    <2>1. /\ pc \in {"clearPrior", "clearSql", "cleared", "copied", "fresh"}
          /\ pc' \in {"clearSql", "cleared", "copy", "freshen", "newBackend",
                      "stopped", "top"}
      <3>1. CASE ClearPrior
        BY <1>t, <3>1, HealthEffect DEF ClearPrior
      <3>2. CASE ClearSql
        BY <1>t, <3>2, HealthEffect DEF ClearSql
      <3>3. CASE Cleared \/ Copied \/ Freshened
        BY <1>t, <3>3, SwitchEffect DEF Cleared, Copied, Freshened
      <3> QED BY <1>2, <3>1, <3>2, <3>3
    <2>2. UNCHANGED <<disk, pending, state_db, writableBackend, archiveBackend, backends>>
      BY <1>2 DEF ClearPrior, ClearSql, Cleared, Copied, Freshened, nodeStore
    <2>3. /\ Running /\ Running' /\ pc \notin {"save", "rotating", "swapping"}
          /\ pc' \notin {"save", "rotating", "swapping", "delete"}
          /\ pc \in Rotating
      BY <2>1 DEF Running, Rotating
    <2> QED BY <2>2, <2>3, NamesQuiet
  <1>3. CASE TakeLedger
    <2> DEFINE go == ShouldRotate(newLedger, lastRotated') /\ Fresh # {}
    <2>1. /\ pc = "woken"
          /\ IF go THEN HealthSwitch("clearPrior") ELSE pc' = "top"
      BY <1>3 DEF TakeLedger
    <2>2. pc' \in {"top", "stopped"} \/ (pc' = "clearPrior" /\ Fresh # {})
      <3>1. CASE go
        BY <1>t, <2>1, <3>1, SwitchEffect
      <3>2. CASE ~ go
        BY <2>1, <3>2
      <3> QED BY <3>1, <3>2
    <2>3. /\ UNCHANGED <<disk, pending, writableBackend, archiveBackend, backends>>
          /\ wdb' = wdb /\ adb' = adb
      BY <1>3 DEF TakeLedger, TypeOK, nodeStore, wdb, adb
    <2> QED BY <2>1, <2>2, <2>3 DEF NamesInv, Running, Locked, Rotating, Fresh
  <1>4. ASSUME NEW here \in {"copy", "freshen"}, NEW done \in {"copied", "fresh"},
               Visit(here, done)
        PROVE  NamesInv'
    <2>1. /\ pc = here /\ pc' \in {here, done}
          /\ DOMAIN disk' = DOMAIN disk
          /\ UNCHANGED <<state_db, writableBackend, archiveBackend, backends>>
      BY <1>4, VisitEffect DEF Visit, Grown
    <2>2. /\ Running /\ Running' /\ pc \notin {"save", "rotating", "swapping"}
          /\ pc' \notin {"save", "rotating", "swapping", "delete"}
          /\ pc \in Rotating
      BY <2>1 DEF Running, Rotating
    <2> QED BY <2>1, <2>2, NamesQuiet
  <1>5. CASE NewBackend
    <2>1. UNCHANGED <<state_db, writableBackend, archiveBackend>> /\ pc = "newBackend"
      BY <1>5 DEF NewBackend
    <2>2. /\ FreshDir \in Dirs /\ FreshDir \notin DOMAIN disk
          /\ DOMAIN disk' = DOMAIN disk \cup {FreshDir}
          /\ disk'[FreshDir] = {} /\ pending'[FreshDir] = {}
          /\ \/ pc' = "save" /\ backends' = [new |-> FreshDir, old |-> None]
             \/ pc' \in {"stopped", "top"}
      BY <1>5, NewBackendEffect
    <2>3. backends' = [new |-> FreshDir, old |-> None] => backends'.new = FreshDir
      OBVIOUS
    <2> HIDE DEF FreshDir
    <2>4. CASE pc' = "save" /\ backends'.new = FreshDir
      BY <2>1, <2>2, <2>4 DEF NamesInv, Running, Locked, Rotating, wdb, adb
    <2>5. CASE pc' \in {"stopped", "top"}
      BY <2>1, <2>2, <2>5 DEF NamesInv, Running, Locked, Rotating, wdb, adb
    <2> QED BY <2>2, <2>3, <2>4, <2>5
  <1>6. CASE Save
    <2>1. /\ pc = "save" /\ pc' = "rotating"
          /\ UNCHANGED <<disk, pending, writableBackend, archiveBackend, backends>>
          /\ wdb' = backends.new /\ adb' = writableBackend
      BY <1>6 DEF Save, SavedAfterRotation, TypeOK, nodeStore, wdb, adb
    <2>2. backends.new # None
      BY <2>1, DirsType DEF NamesInv, TypeOK
    <2>3. writableBackend # None /\ writableBackend \in DOMAIN disk
          /\ archiveBackend \in DOMAIN disk /\ archiveBackend # writableBackend
      BY <2>1, DirsType DEF NamesInv, TypeOK, Running, Locked
    <2> QED BY <2>1, <2>2, <2>3 DEF NamesInv, Running, Locked, Rotating, Fresh
  <1>7. CASE Rotate
    <2>1. UNCHANGED <<disk, pending, state_db>>
      BY <1>7 DEF Rotate
    <2>2. CASE pc = "rotating"
      <3>1. /\ pc' = "swapping" /\ archiveBackend' = writableBackend
            /\ backends'.old = archiveBackend /\ backends'.new = backends.new
            /\ writableBackend' = writableBackend
        BY <1>7, <2>2 DEF Rotate, RotateBackends, TypeOK
      <3> QED BY <2>1, <2>2, <3>1 DEF NamesInv, Running, Locked, Rotating, Fresh, wdb, adb
    <2>3. CASE pc = "swapping"
      <3>1. /\ pc' = "delete" /\ writableBackend' = backends.new
            /\ UNCHANGED <<archiveBackend, backends>>
        BY <1>7, <2>3 DEF Rotate, RotateBackends
      <3> QED BY <2>1, <2>3, <3>1 DEF NamesInv, Running, Locked, Rotating, Fresh, wdb, adb
    <2> QED BY <1>7, <2>2, <2>3 DEF Rotate, RotateBackends
  <1>8. CASE DeleteOld
    <2>1. /\ pc = "delete" /\ backends.old \notin {wdb, adb}
          /\ DOMAIN disk' = DOMAIN disk \ {backends.old}
          /\ pc' = "top" /\ UNCHANGED <<state_db, writableBackend, archiveBackend>>
      BY <1>8, DeleteEffect DEF DeleteOld
    <2> QED BY <2>1 DEF NamesInv, Running, Locked, Rotating, wdb, adb
  <1>9. CASE StoreBegin \/ OnStop \/ OnLedgerClosed \/ Aside
    <2>1. UNCHANGED <<disk, pending, state_db, writableBackend, archiveBackend, backends>>
      BY <1>9 DEF StoreBegin, OnStop, OnLedgerClosed, Aside, nodeStore, thread
    <2>2. pc' = pc \/ (pc = "waiting" /\ pc' = "woken")
      BY <1>9 DEF StoreBegin, OnStop, OnLedgerClosed, Aside, thread
    <2>3. \/ pc' = pc
          \/ /\ Running /\ Running' /\ pc \notin {"save", "rotating", "swapping"}
             /\ pc' \notin {"save", "rotating", "swapping", "delete"}
             /\ pc' \in Rotating => pc \in Rotating
      BY <2>2 DEF Running, Rotating
    <2> QED BY <2>1, <2>3, NamesQuiet DEF NamesInv
  <1>10. CASE StoreEnd
    <2>1. builder.target \in DOMAIN disk /\ Grown(builder.target)
      BY <1>10, StoreEndEffect
    <2>2. UNCHANGED <<pc, state_db, writableBackend, archiveBackend, backends>>
      BY <1>10 DEF StoreEnd, thread
    <2>3. pc \in {"save", "rotating", "swapping"} => builder.target # backends.new
      BY <1>10 DEF StoreEnd, CopyInv, CopyTarget, InRotation, Rotating, NamesInv
    <2> QED BY <2>1, <2>2, <2>3, NamesGrown
  <1>11. ASSUME NEW r \in Readers, FetchStore(r) PROVE NamesInv'
    <2>1. /\ writableBackend \in DOMAIN disk /\ Grown(writableBackend)
          /\ UNCHANGED <<pc, state_db, writableBackend, archiveBackend, backends>>
      BY <1>11, FetchStoreEffect DEF thread
    <2>2. pc \in {"save", "rotating", "swapping"} => writableBackend # backends.new
      BY DEF NamesInv
    <2> QED BY <2>1, <2>2, NamesGrown
  <1>12. ASSUME NEW d \in DOMAIN disk, WriteBatch(d) PROVE NamesInv'
    <2>1. /\ Grown(d) /\ pending[d] # {}
          /\ UNCHANGED <<pc, state_db, writableBackend, archiveBackend, backends>>
      BY <1>12, WriteGrown DEF WriteBatch, thread
    <2>2. pc \in {"save", "rotating", "swapping"} => d # backends.new
      BY <2>1 DEF NamesInv
    <2> QED BY <2>1, <2>2, NamesGrown
  <1>13. ASSUME NEW seq \in CanDeletes, SetCanDelete(seq) PROVE NamesInv'
    <2>1. /\ UNCHANGED <<disk, pending, pc, writableBackend, archiveBackend, backends>>
          /\ wdb' = wdb /\ adb' = adb
      BY <1>13 DEF SetCanDelete, nodeStore, thread, TypeOK, wdb, adb
    <2> QED BY <2>1 DEF NamesInv, Running, Locked, Rotating, Fresh
  <1>14. CASE Ending
    <2>1. DOMAIN disk' = DOMAIN disk /\ pc' = "down" /\ UNCHANGED state_db
      BY <1>14, EndEffect DEF MemoryLost
    <2> QED BY <2>1 DEF NamesInv, Running, Locked, Rotating, wdb, adb
  <1>15. CASE DbPaths
    <2>1. /\ pc' = "make" /\ (wdb # None => {wdb, adb} \subseteq DOMAIN disk')
          /\ UNCHANGED state_db
      BY <1>15, DbPathsEffect DEF DbPaths
    <2> QED BY <2>1 DEF NamesInv, Running, Locked, Rotating, wdb, adb
  <1>16. CASE MakeDatabase
    <2>1. /\ pc' = "setState" /\ UNCHANGED state_db
          /\ writableBackend' \in DOMAIN disk' /\ archiveBackend' \in DOMAIN disk'
          /\ writableBackend' # archiveBackend'
          /\ wdb # None => writableBackend' = wdb /\ archiveBackend' = adb
          /\ DOMAIN disk \subseteq DOMAIN disk'
      BY <1>16, MakeEffect DEF MakeDatabase
    <2> QED BY <2>1 DEF NamesInv, Running, Locked, Rotating, wdb, adb
  <1>17. CASE StartRun
    <2>1. /\ pc = "setState" /\ pc' = "top"
          /\ UNCHANGED <<disk, pending, writableBackend, archiveBackend, backends>>
      BY <1>17 DEF StartRun, nodeStore
    <2>2. /\ writableBackend \in DOMAIN disk /\ archiveBackend \in DOMAIN disk
          /\ writableBackend # archiveBackend
          /\ wdb # None => writableBackend = wdb /\ archiveBackend = adb
          /\ writableBackend # None /\ archiveBackend # None
      BY <2>1, DiskType, DirsType DEF NamesInv
    <2>3. wdb' = writableBackend /\ adb' = archiveBackend
      <3>1. CASE wdb # None
        BY <1>17, <2>2, <3>1 DEF StartRun, wdb, adb
      <3>2. CASE wdb = None
        BY <1>17, <3>2 DEF StartRun, TypeOK, wdb, adb
      <3> QED BY <3>1, <3>2
    <2> QED BY <2>1, <2>2, <2>3 DEF NamesInv, Running, Locked, Rotating
  <1>18. CASE UNCHANGED vars
    <2>1. Aside
      BY <1>18 DEF vars, Aside, server
    <2> QED BY <2>1, <1>9
  <1> QED BY <1>1, <1>2, <1>3, <1>4, <1>5, <1>6, <1>7, <1>8, <1>9, <1>10, <1>11,
             <1>12, <1>13, <1>14, <1>15, <1>16, <1>17, <1>18, NextCases,
             FetchCases, BeginOnlyReader, SavingAside DEF CopyNode, Ending

-----------------------------------------------------------------------------
(* The types. *)

LEMMA SeqType == LastSeq \in Nat /\ 0 \in 0 .. LastSeq /\ LastSeq \in 0 .. LastSeq
  BY StoreAssumption

LEMMA TypeStep == ASSUME StoreInv, [Next]_vars PROVE TypeOK'
  <1> TypeOK
    BY DEF StoreInv
  <1>t. /\ healthy \in BOOLEAN /\ stop \in BOOLEAN
        /\ disk \in [DOMAIN disk -> SUBSET Nodes]
        /\ pending \in [DOMAIN disk -> SUBSET Nodes]
        /\ DOMAIN disk \subseteq Dirs
    BY DEF TypeOK
  <1>n. NewNodes(validated + 1) \subseteq Nodes /\ validated \in Nat
    <2>1. validated \in Nat /\ validated + 1 \in Nat /\ validated + 1 >= 1
      BY SeqType DEF TypeOK
    <2> QED BY <2>1, NewNodesOf
  <1>1. CASE Top
    BY <1>1, SeqType DEF TypeOK, Top, TopStep, config, nodeStore, server, saves, None
  <1>2. CASE WakeWithoutLedger \/ NothingToVisit
    BY <1>2 DEF TypeOK, WakeWithoutLedger, NothingToVisit, config, nodeStore,
       server, saves, Rotating
  <1>3. CASE TakeLedger
    <2> DEFINE go == ShouldRotate(newLedger, lastRotated') /\ Fresh # {}
    <2>1. IF go THEN HealthSwitch("clearPrior") ELSE pc' = "top" /\ UNCHANGED healthy
      BY <1>3 DEF TakeLedger
    <2>2. pc' \in {"top", "stopped", "clearPrior"} /\ healthy' \in BOOLEAN
      <3>1. CASE go
        BY <1>t, <2>1, <3>1, SwitchEffect
      <3>2. CASE ~ go
        BY <1>t, <2>1, <3>2
      <3> QED BY <3>1, <3>2
    <2>3. lastRotated' \in 0 .. LastSeq /\ state_db'.lastRotated \in 0 .. LastSeq
          /\ state_db' = [state_db EXCEPT !.lastRotated = state_db'.lastRotated]
      BY <1>3 DEF TakeLedger, TypeOK
    <2>4. state_db' \in [writableDb : Dirs \cup {None}, archiveDb : Dirs \cup {None},
                   lastRotated : 0 .. LastSeq, canDelete : 0 .. LastSeq]
      BY <2>3 DEF TypeOK
    <2> QED BY <1>3, <2>2, <2>3, <2>4, SeqType
            DEF TypeOK, TakeLedger, config, nodeStore, server, saves, None, Rotating
  <1>4. CASE ClearPrior
    <2>1. pc' \in {"clearSql", "cleared"} /\ healthy' \in BOOLEAN
      BY <1>t, <1>4, HealthEffect DEF ClearPrior
    <2> QED BY <1>4, <2>1 DEF TypeOK, ClearPrior, saves, config, nodeStore, Rotating
  <1>5. CASE ClearSql
    <2>1. pc' \in {"clearSql", "cleared"} /\ healthy' \in BOOLEAN
      BY <1>t, <1>5, HealthEffect DEF ClearSql
    <2>2. sql' \subseteq sql
      BY <1>5 DEF ClearSql, RowsAfter
    <2> QED BY <1>5, <2>1, <2>2 DEF TypeOK, ClearSql, config, nodeStore, server, saves, Rotating
  <1>6. CASE Cleared
    <2>1. pc' \in {"copy", "stopped", "top"} /\ healthy' \in BOOLEAN
      BY <1>t, <1>6, SwitchEffect DEF Cleared
    <2>2. validatedLedger \in 1 .. LastSeq
      BY <1>6 DEF Cleared, TypeOK, StoreInv, SqlInv, Rotating
    <2>3. toCopy' \subseteq Nodes
      BY <1>6, <2>2, StoreAssumption DEF Cleared
    <2> QED BY <1>6, <2>1, <2>3 DEF TypeOK, Cleared, config, nodeStore, server, saves, Rotating
  <1>7. CASE Copied
    <2>1. pc' \in {"freshen", "stopped", "top"} /\ healthy' \in BOOLEAN
      BY <1>t, <1>7, SwitchEffect DEF Copied
    <2> QED BY <1>7, <2>1 DEF TypeOK, Copied, config, nodeStore, server, saves, Rotating
  <1>8. CASE Freshened
    <2>1. pc' \in {"newBackend", "stopped", "top"} /\ healthy' \in BOOLEAN
      BY <1>t, <1>8, SwitchEffect DEF Freshened
    <2> QED BY <1>8, <2>1 DEF TypeOK, Freshened, config, nodeStore, server, saves, Rotating
  <1>9. ASSUME NEW here \in {"copy", "freshen"}, NEW done \in {"copied", "fresh"},
               Visit(here, done)
        PROVE  TypeOK'
    <2>1. /\ pc' \in {here, done} /\ healthy' \in BOOLEAN
          /\ toCopy' \subseteq toCopy
          /\ Grown(writableBackend)
          /\ UNCHANGED <<config, state_db, sql, writableBackend, archiveBackend,
                 lastRotated, validatedLedger, backends, canDelete,
                 newLedger, stop, server>>
      BY <1>9, VisitEffect
    <2>2. /\ disk' \in [DOMAIN disk -> SUBSET Nodes]
          /\ pending' \in [DOMAIN disk -> SUBSET Nodes]
      BY <2>1 DEF Grown
    <2> QED BY <1>t, <2>1, <2>2 DEF TypeOK, config, server, saves, Rotating
  <1>10. CASE NewBackend
    <2>1. /\ FreshDir \in Dirs
          /\ disk' \in [DOMAIN disk \cup {FreshDir} -> SUBSET Nodes]
          /\ pending' \in [DOMAIN disk \cup {FreshDir} -> SUBSET Nodes]
          /\ healthy' \in BOOLEAN /\ pc' \in {"save", "stopped", "top"}
          /\ \/ backends' = [new |-> FreshDir, old |-> None]
             \/ backends' = NoBackends
      BY <1>10, NewBackendEffect
    <2>2. UNCHANGED <<config, state_db, sql, writableBackend, archiveBackend,
                 lastRotated, validatedLedger, toCopy,
                 canDelete, newLedger, stop, server>>
      BY <1>10 DEF NewBackend
    <2> HIDE DEF FreshDir
    <2>3. /\ backends' \in [new : Dirs \cup {None}, old : Dirs \cup {None}]
          /\ DOMAIN disk' \subseteq Dirs
          /\ disk' \in [DOMAIN disk' -> SUBSET Nodes]
          /\ pending' \in [DOMAIN disk' -> SUBSET Nodes]
      BY <1>t, <2>1 DEF NoBackends
    <2> QED BY <2>1, <2>2, <2>3 DEF TypeOK, config, server, saves, Rotating
  <1>11. CASE Save
    <2>1. state_db' \in [writableDb : Dirs \cup {None}, archiveDb : Dirs \cup {None},
                   lastRotated : 0 .. LastSeq, canDelete : 0 .. LastSeq]
      BY <1>11 DEF Save, SavedAfterRotation, TypeOK
    <2>2. reader' \in [Readers -> {NoFetch} \cup
                   [at : {"writable", "archive", "store", "recheck"},
                    node : Nodes, held : BOOLEAN]]
      <3> SUFFICES ASSUME NEW r \in Readers
                   PROVE  reader'[r] \in {NoFetch} \cup
                     [at : {"writable", "archive", "store", "recheck"},
                      node : Nodes, held : BOOLEAN]
        BY <1>11 DEF Save
      <3> DEFINE h == reader[r].held /\ reader[r].node \in Kept(validatedLedger)
      <3>1. reader'[r] = [reader[r] EXCEPT !.held = h]
        BY <1>11 DEF Save
      <3>2. CASE reader[r] = NoFetch
        <4>1. h = FALSE
          BY <3>2 DEF NoFetch
        <4> HIDE DEF h
        <4>2. reader'[r] = [NoFetch EXCEPT !.held = FALSE]
          BY <3>1, <3>2, <4>1
        <4>3. NoFetch.held = FALSE /\ NoFetch \in [at : {"idle"}, node : {None}, held : BOOLEAN]
          BY DEF NoFetch
        <4>4. [NoFetch EXCEPT !.held = FALSE] = NoFetch
          BY <4>3, Zenon
        <4> QED BY <4>2, <4>4
      <3>3. CASE reader[r] # NoFetch
        <4>1. reader[r] \in [at : {"writable", "archive", "store", "recheck"},
                      node : Nodes, held : BOOLEAN]
          BY <3>3 DEF TypeOK
        <4>2. h \in BOOLEAN
          OBVIOUS
        <4> HIDE DEF h
        <4> QED BY <3>1, <4>1, <4>2
      <3> QED BY <3>2, <3>3
    <2> QED BY <1>11, <2>1, <2>2 DEF TypeOK, Save, saves, config, nodeStore, Rotating
  <1>12. CASE Rotate
    <2>1. /\ pc' \in {"swapping", "delete"}
          /\ writableBackend' \in Dirs \cup {None}
          /\ archiveBackend' \in Dirs \cup {None}
          /\ backends' \in [new : Dirs \cup {None}, old : Dirs \cup {None}]
      BY <1>12 DEF Rotate, RotateBackends, TypeOK
    <2> QED BY <1>12, <2>1 DEF TypeOK, Rotate, config, server, saves, Rotating
  <1>13. CASE DeleteOld
    <2>1. /\ disk' \in [DOMAIN disk \ {backends.old} -> SUBSET Nodes]
          /\ pending' \in [DOMAIN disk \ {backends.old} -> SUBSET Nodes]
      BY <1>13, DeleteEffect
    <2>2. backends' \in [new : Dirs \cup {None}, old : Dirs \cup {None}] /\ pc' = "top"
      BY <1>13 DEF DeleteOld, NoBackends
    <2>3. /\ DOMAIN disk' \subseteq Dirs
          /\ disk' \in [DOMAIN disk' -> SUBSET Nodes]
          /\ pending' \in [DOMAIN disk' -> SUBSET Nodes]
      BY <1>t, <2>1
    <2> QED BY <1>13, <2>2, <2>3 DEF TypeOK, DeleteOld, config, server, saves
  <1>14. CASE StoreBegin
    <2>1. builder' \in [unsaved : SUBSET Nodes, target : Dirs \cup {None}]
      BY <1>14 DEF StoreBegin, TypeOK
    <2> QED BY <1>14, <2>1 DEF TypeOK, StoreBegin, saves, config, thread
  <1>15. CASE StoreEnd
    <2>1. PICK n \in builder.unsaved :
            /\ Grown(builder.target)
            /\ builder' = [unsaved |-> builder.unsaved \ {n}, target |-> None]
      BY <1>15, StoreEndEffect
    <2>2. /\ builder' \in [unsaved : SUBSET Nodes, target : Dirs \cup {None}]
          /\ disk' \in [DOMAIN disk -> SUBSET Nodes]
          /\ pending' \in [DOMAIN disk -> SUBSET Nodes]
      BY <2>1 DEF TypeOK, Grown
    <2> QED BY <1>t, <1>15, <2>2 DEF TypeOK, StoreEnd, saves, config, thread
  <1>16. CASE OnLedgerClosed
    <2>1. validated' \in 1 .. LastSeq /\ NewNodes(validated' + 1) \subseteq Nodes
      <3>1. validated' = validated + 1 /\ validated' <= LastSeq
        BY <1>n, <1>16, SeqType DEF OnLedgerClosed
      <3>2. validated' \in 1 .. LastSeq /\ validated' + 1 \in Nat /\ validated' + 1 >= 1
        BY <1>n, <3>1, SeqType
      <3> QED BY <3>2, NewNodesOf
    <2>2. builder' \in [unsaved : SUBSET Nodes, target : Dirs \cup {None}]
      BY <1>16, <2>1 DEF OnLedgerClosed, TypeOK
    <2> QED BY <1>16, <2>1, <2>2, SeqType DEF TypeOK, OnLedgerClosed, saves, config, nodeStore
  <1>17. ASSUME NEW r \in Readers, NEW n \in Nodes, FetchBegin(r, n) PROVE TypeOK'
    <2> DEFINE h == n \in Kept(state_db.lastRotated)
    <2>1. h \in BOOLEAN /\ reader' = [reader EXCEPT ![r] =
                                   [at |-> "writable", node |-> n, held |-> h]]
      BY <1>17 DEF FetchBegin
    <2> HIDE DEF h
    <2>2. reader' \in [Readers -> {NoFetch} \cup
                   [at : {"writable", "archive", "store", "recheck"},
                    node : Nodes, held : BOOLEAN]]
      BY <2>1 DEF TypeOK
    <2> QED BY <1>17, <2>2 DEF TypeOK, FetchBegin, saves, config, nodeStore, thread
  <1>18. ASSUME NEW r \in Readers, OnlyReader,
                FetchWritable(r) \/ FetchArchive(r) \/ FetchGiveUp(r)
         PROVE  TypeOK'
    <2>1. reader[r].at \in {"writable", "archive", "recheck"}
      BY <1>18 DEF FetchWritable, FetchArchive, FetchGiveUp
    <2>2. reader[r] \in [at : {"writable", "archive", "store", "recheck"},
                    node : Nodes, held : BOOLEAN]
      BY <2>1 DEF TypeOK, NoFetch
    <2>3. \/ reader' = [reader EXCEPT ![r] = NoFetch]
          \/ \E at \in {"archive", "store", "recheck"} :
               reader' = [reader EXCEPT ![r].at = at]
      BY <1>18 DEF FetchWritable, FetchArchive, FetchGiveUp, Return, Goto
    <2>4. reader' \in [Readers -> {NoFetch} \cup
                   [at : {"writable", "archive", "store", "recheck"},
                    node : Nodes, held : BOOLEAN]]
      BY <2>2, <2>3 DEF TypeOK
    <2> QED BY <1>18, <2>4 DEF TypeOK, OnlyReader, Aside, saves, config, nodeStore, thread
  <1>19. ASSUME NEW r \in Readers, FetchStore(r) PROVE TypeOK'
    <2>1. /\ reader' = [reader EXCEPT ![r] = NoFetch]
          /\ disk' \in [DOMAIN disk -> SUBSET Nodes]
          /\ pending' \in [DOMAIN disk -> SUBSET Nodes]
          /\ UNCHANGED <<config, state_db, sql, writableBackend, archiveBackend,
                 thread, canDelete, newLedger, stop,
                 complete, validated, saves, builder, crashes>>
      BY <1>19, FetchStoreEffect DEF Grown
    <2>2. reader' \in [Readers -> {NoFetch} \cup
                   [at : {"writable", "archive", "store", "recheck"},
                    node : Nodes, held : BOOLEAN]]
      BY <2>1 DEF TypeOK
    <2> QED BY <1>t, <2>1, <2>2 DEF TypeOK, saves, config, thread
  <1>20. ASSUME NEW d \in DOMAIN disk, WriteBatch(d) PROVE TypeOK'
    <2>1. /\ disk' \in [DOMAIN disk -> SUBSET Nodes]
          /\ pending' \in [DOMAIN disk -> SUBSET Nodes]
      BY <1>20, WriteGrown DEF Grown
    <2> QED BY <1>t, <1>20, <2>1 DEF TypeOK, WriteBatch, config, thread, server, saves
  <1>21. ASSUME NEW seq \in CanDeletes, SetCanDelete(seq) PROVE TypeOK'
    <2>1. seq \in 0 .. LastSeq
      BY StoreAssumption
    <2>2. state_db' \in [writableDb : Dirs \cup {None}, archiveDb : Dirs \cup {None},
                   lastRotated : 0 .. LastSeq, canDelete : 0 .. LastSeq]
      BY <1>21, <2>1 DEF SetCanDelete, TypeOK
    <2> QED BY <1>21, <2>1, <2>2 DEF TypeOK, SetCanDelete, config, nodeStore, thread, server, saves
  <1>22. CASE OnStop
    BY <1>22 DEF TypeOK, OnStop, config, nodeStore, server, saves
  <1>23. CASE Ending
    <2>1. /\ MemoryLost /\ crashes' = crashes + 1 /\ crashes < MaxCrashes[batched]
          /\ disk' \in [DOMAIN disk -> SUBSET Nodes]
          /\ pending' \in [DOMAIN disk -> SUBSET Nodes]
      BY <1>23, EndEffect
    <2>2. crashes' \in 0 .. MaxCrashes[batched]
      <3>1. MaxCrashes[batched] \in Nat /\ crashes \in 0 .. MaxCrashes[batched]
        BY StoreAssumption, ConfigType DEF TypeOK
      <3> QED BY <2>1, <3>1
    <2>3. /\ builder' \in [unsaved : SUBSET Nodes, target : Dirs \cup {None}]
          /\ backends' \in [new : Dirs \cup {None}, old : Dirs \cup {None}]
          /\ reader' \in [Readers -> {NoFetch} \cup
                   [at : {"writable", "archive", "store", "recheck"},
                    node : Nodes, held : BOOLEAN]]
      BY <1>n, <2>1 DEF MemoryLost, NoBackends
    <2>4. UNION {sql', complete', saving', saved', late'} \subseteq 1 .. LastSeq
      BY <2>1 DEF MemoryLost, TypeOK
    <2>5. config' = config /\ batched' = batched
      BY <2>1 DEF MemoryLost, config
    <2> QED BY <1>t, <2>1, <2>2, <2>3, <2>4, <2>5, SeqType DEF TypeOK, MemoryLost, None
  <1>24. CASE DbPaths
    <2>1. /\ pc' = "make" /\ DOMAIN disk' \subseteq DOMAIN disk
          /\ disk' \in [DOMAIN disk' -> SUBSET Nodes]
          /\ pending' \in [DOMAIN disk' -> SUBSET Nodes]
      BY <1>24, DbPathsEffect
    <2> QED BY <1>24, <2>1 DEF TypeOK, DbPaths, config, server, saves
  <1>25. CASE MakeDatabase
    <2>1. /\ pc' = "setState" /\ DOMAIN disk' \subseteq Dirs
          /\ writableBackend' \in DOMAIN disk' /\ archiveBackend' \in DOMAIN disk'
          /\ disk' \in [DOMAIN disk' -> SUBSET Nodes]
          /\ pending' \in [DOMAIN disk' -> SUBSET Nodes]
      BY <1>25, MakeEffect
    <2> QED BY <1>25, <2>1 DEF TypeOK, MakeDatabase, config, server, saves
  <1>26. CASE StartRun
    <2>1. state_db' \in [writableDb : Dirs \cup {None}, archiveDb : Dirs \cup {None},
                   lastRotated : 0 .. LastSeq, canDelete : 0 .. LastSeq]
      <3>1. CASE state_db.writableDb # None
        BY <1>26, <3>1 DEF StartRun, TypeOK
      <3>2. CASE state_db.writableDb = None
        BY <1>26, <3>2 DEF StartRun, TypeOK
      <3> QED BY <3>1, <3>2
    <2>2. lastRotated' \in 0 .. LastSeq /\ canDelete' \in 0 .. LastSeq
      BY <1>26, SeqType DEF StartRun, TypeOK
    <2> QED BY <1>26, <2>1, <2>2 DEF TypeOK, StartRun, config, nodeStore, server, saves
  <1>28. CASE Saving
    <2>1. Aside /\ UNCHANGED reader
      BY <1>28, SavingAside
    <2>2. /\ published' \in 0 .. LastSeq
          /\ UNION {sql', complete', saving', saved', late'} \subseteq 1 .. LastSeq
      <3>1. CASE SetFullLedger
        <4>1. published \in 0 .. LastSeq /\ validated \in 0 .. LastSeq
          BY DEF TypeOK
        <4>2. published' \in 1 .. LastSeq
          BY <3>1, <4>1, SeqType DEF SetFullLedger
        <4> QED BY <3>1, <4>2, SeqType DEF SetFullLedger, TypeOK
      <3>2. ASSUME NEW s \in saving, SaveLedger(s)
            PROVE  /\ published' \in 0 .. LastSeq
                   /\ UNION {sql', complete', saving', saved', late'} \subseteq 1 .. LastSeq
        <4>1. s \in 1 .. LastSeq /\ published' = published
          BY <3>2 DEF SaveLedger, TypeOK
        <4>2. /\ sql' \subseteq sql \cup {s} /\ saved' \subseteq saved \cup {s}
              /\ late' \subseteq late \cup {s} /\ complete' \subseteq complete
              /\ saving' \subseteq saving
          BY <3>2 DEF SaveLedger
        <4> QED BY <4>1, <4>2 DEF TypeOK
      <3> QED BY <1>28, <3>1, <3>2 DEF Saving
    <2> QED BY <1>t, <2>1, <2>2 DEF TypeOK, Aside, config, nodeStore, thread
  <1>27. CASE UNCHANGED vars
    BY <1>27 DEF TypeOK, vars, config, nodeStore, thread, server, saves
  <1> QED BY <1>1, <1>2, <1>3, <1>4, <1>5, <1>6, <1>7, <1>8, <1>9, <1>10, <1>11,
             <1>12, <1>13, <1>14, <1>15, <1>16, <1>17, <1>18, <1>19, <1>20, <1>21,
             <1>22, <1>23, <1>24, <1>25, <1>26, <1>27, <1>28, NextCases, FetchCases
          DEF CopyNode, Ending

-----------------------------------------------------------------------------
(* The tables. *)

LEMMA NatType ==
  TypeOK => /\ validated \in Nat /\ lastRotated \in Nat
            /\ state_db.lastRotated \in Nat
            /\ newLedger \in Nat /\ validatedLedger \in Nat
            /\ sql \subseteq Nat /\ saved \subseteq Nat
  BY SeqType DEF TypeOK

(* A step that changes neither tables nor numbers, and ends no deletion. *)
LEMMA SqlQuiet ==
  ASSUME SqlInv,
         UNCHANGED <<validated, sql, saved, late, lastRotated, newLedger, validatedLedger>>,
         state_db'.lastRotated = state_db.lastRotated,
         wdb' = None => wdb = None,
         Running' => Running,
         RowsGone' => RowsGone,
         \/ pc' = pc
         \/ pc' \notin Rotating
         \/ pc \in Rotating \ {"rotating", "swapping"}
  PROVE  SqlInv'
  <1>1. pc' \in Rotating => pc \in Rotating
    OBVIOUS
  <1>3. pc' \in Rotating \ {"rotating", "swapping"} =>
          pc \in Rotating \ {"rotating", "swapping"}
    BY DEF Rotating
  <1> QED BY <1>1, <1>3 DEF SqlInv

LEMMA SqlStep == ASSUME StoreInv, [Next]_vars PROVE SqlInv'
  <1> USE DEF StoreInv
  <1>t. healthy \in BOOLEAN /\ stop \in BOOLEAN
    BY DEF TypeOK
  <1>1. CASE Top
    <2>1. /\ pc' \notin Rotating /\ validatedLedger' = 0
          /\ UNCHANGED <<validated, sql, saved, late, lastRotated, newLedger, state_db>>
      BY <1>1 DEF Top, TopStep, Rotating, server, saves, None
    <2>2. Running /\ ~ RowsGone'
      BY <1>1 DEF Top, TopStep, Running, RowsGone
    <2> QED BY <2>1, <2>2, NatType DEF SqlInv, wdb
  <1>2. CASE WakeWithoutLedger \/ NothingToVisit \/ Cleared \/ Copied \/ Freshened
             \/ NewBackend \/ DeleteOld \/ OnStop \/ StoreBegin \/ StoreEnd
             \/ OnlyReader \/ DbPaths \/ MakeDatabase
    <2>1. UNCHANGED <<validated, sql, saved, late, lastRotated, newLedger,
                      validatedLedger, state_db>>
      BY <1>2 DEF WakeWithoutLedger, NothingToVisit, Cleared, Copied, Freshened,
         NewBackend, DeleteOld, OnStop, StoreBegin, StoreEnd, OnlyReader, Aside,
         DbPaths, MakeDatabase, server, saves, thread
    <2>2. /\ \/ pc' = pc \/ pc' \notin Rotating
             \/ pc \in Rotating \ {"rotating", "swapping"}
          /\ Running' => Running
          /\ RowsGone' => RowsGone
      <3> USE DEF Rotating, Running, RowsGone
      <3>1. CASE WakeWithoutLedger \/ NothingToVisit \/ DeleteOld \/ OnStop
                 \/ StoreBegin \/ StoreEnd \/ OnlyReader
        BY <1>t, <3>1 DEF WakeWithoutLedger, NothingToVisit, DeleteOld, OnStop,
           StoreBegin, StoreEnd, OnlyReader, Aside, thread
      <3>2. CASE Cleared \/ Copied \/ Freshened
        BY <1>t, <3>2, SwitchEffect DEF Cleared, Copied, Freshened
      <3>3. CASE NewBackend
        <4>1. pc = "newBackend" /\ pc' \in {"save", "stopped", "top"}
          BY <3>3, NewBackendEffect DEF NewBackend
        <4> QED BY <4>1
      <3>4. CASE DbPaths \/ MakeDatabase
        BY <3>4, DbPathsEffect, MakeEffect
      <3> QED BY <1>2, <3>1, <3>2, <3>3, <3>4
    <2> QED BY <2>1, <2>2, SqlQuiet DEF wdb
  <1>3. CASE TakeLedger
    <2>1. /\ newLedger = validated /\ newLedger # 0
      BY <1>3 DEF TakeLedger, SqlInv, None
    <2>2. /\ validatedLedger' = validated /\ newLedger' = None
          /\ UNCHANGED <<validated, sql, saved, late>> /\ wdb' = wdb
      BY <1>3, <2>1 DEF TakeLedger, server, saves, TypeOK, wdb
    <2>3. /\ Running /\ lastRotated = state_db.lastRotated
          /\ lastRotated' = state_db'.lastRotated
          /\ \/ lastRotated = 0 /\ lastRotated' = validated
             \/ lastRotated' = lastRotated
      <3>1. Running /\ lastRotated = state_db.lastRotated
        BY <1>3 DEF TakeLedger, Running, SqlInv
      <3> QED BY <1>3, <2>1, <3>1 DEF TakeLedger, TypeOK
    <2>4. pc' \in {"clearPrior", "stopped", "top"}
      <3>1. CASE ShouldRotate(newLedger, lastRotated') /\ Fresh # {}
        BY <1>3, <1>t, <3>1, SwitchEffect DEF TakeLedger
      <3>2. CASE ~ (ShouldRotate(newLedger, lastRotated') /\ Fresh # {})
        BY <1>3, <3>2 DEF TakeLedger
      <3> QED BY <3>1, <3>2
    <2>5. ~ RowsGone'
      BY <2>4 DEF RowsGone
    <2>6. \A s \in saved' : s >= state_db'.lastRotated => s \in sql'
      BY <2>2, <2>3, NatType DEF SqlInv
    <2>7. lastRotated' <= validated' /\ state_db'.lastRotated <= validated'
          /\ state_db'.lastRotated <= validatedLedger'
      BY <2>2, <2>3, NatType DEF SqlInv
    <2> QED BY <2>1, <2>2, <2>3, <2>5, <2>6, <2>7, NatType DEF SqlInv
  <1>4. CASE ClearPrior
    <2>1. /\ pc = "clearPrior"
          /\ pc' = "clearSql" \/ (pc' = "cleared" /\ (stop \/ ~ healthy'))
          /\ UNCHANGED <<validated, sql, saved, late, lastRotated, newLedger,
                         validatedLedger, state_db, stop>>
      BY <1>4, <1>t, HealthEffect DEF ClearPrior, saves
    <2>2. pc \in Rotating \ {"rotating", "swapping"} /\ Running /\ ~ RowsGone'
      BY <2>1 DEF Rotating, Running, RowsGone
    <2> QED BY <2>1, <2>2, SqlQuiet DEF wdb
  <1>5. CASE ClearSql
    <2> DEFINE next == IF \E s \in sql' : s < lastRotated THEN "clearSql" ELSE "cleared"
    <2>1. /\ pc = "clearSql" /\ Health(next, "cleared") /\ sql' = RowsAfter
          /\ UNCHANGED <<validated, saved, late, lastRotated, newLedger,
                         validatedLedger, state_db, stop>>
      BY <1>5 DEF ClearSql, server, saves
    <2>2. \/ pc' = next
          \/ pc' = "cleared" /\ (stop \/ ~ healthy')
      <3> HIDE DEF next
      <3> QED BY <1>t, <2>1, HealthEffect
    <2>3. /\ pc \in Rotating \ {"rotating", "swapping"} /\ Running
          /\ pc' \in Rotating \ {"rotating", "swapping"} /\ Running'
      BY <2>1, <2>2 DEF Rotating, Running
    <2>4. lastRotated = state_db.lastRotated
      BY <2>3 DEF SqlInv
    <2>5. \A s \in saved : s >= lastRotated => s \in sql'
      BY <2>1, <2>4 DEF RowsAfter, SqlInv
    <2>6. RowsGone' => \A s \in sql' : s >= lastRotated
      <3>1. RowsGone' => ~ \E s \in sql' : s < lastRotated
        BY <2>1, <2>2 DEF RowsGone
      <3>2. sql' \subseteq Nat /\ lastRotated \in Nat
        BY <2>1, NatType DEF RowsAfter
      <3> QED BY <3>1, <3>2
    <2> QED BY <2>1, <2>3, <2>4, <2>5, <2>6 DEF SqlInv, wdb
  <1>6. ASSUME NEW here \in {"copy", "freshen"}, NEW done \in {"copied", "fresh"},
               Visit(here, done)
        PROVE  SqlInv'
    <2>1. /\ pc = here /\ pc' \in {here, done}
          /\ UNCHANGED <<validated, sql, saved, late, lastRotated, newLedger,
                         validatedLedger, state_db>>
      BY <1>6, VisitEffect DEF Visit, server, saves
    <2>2. pc \in Rotating \ {"rotating", "swapping"} /\ Running /\ RowsGone
      BY <2>1 DEF Rotating, Running, RowsGone
    <2> QED BY <2>1, <2>2, SqlQuiet DEF wdb
  <1>7. CASE Save
    <2>1. /\ pc = "save" /\ pc' = "rotating"
          /\ lastRotated' = validatedLedger /\ state_db'.lastRotated = validatedLedger
          /\ UNCHANGED <<validated, sql, saved, late, newLedger, validatedLedger>>
      BY <1>7 DEF Save, SavedAfterRotation, TypeOK, saves
    <2>2. /\ validatedLedger # 0 /\ wdb # None /\ ~ RowsGone'
          /\ state_db.lastRotated <= validatedLedger
      BY <2>1 DEF SqlInv, Rotating, NamesInv, Running, RowsGone
    <2>4. \A s \in saved : s >= validatedLedger => s \in sql
      BY <2>2, NatType DEF SqlInv
    <2>3. wdb' # None
      BY <1>7, <2>1, DirsType, DiskType DEF Save, SavedAfterRotation, TypeOK, NamesInv, wdb
    <2> QED BY <2>1, <2>2, <2>3, <2>4 DEF SqlInv
  <1>8. CASE Rotate
    <2>1. /\ pc \in {"rotating", "swapping"}
          /\ UNCHANGED <<validated, sql, saved, late, lastRotated, newLedger,
                         validatedLedger, state_db>>
      BY <1>8 DEF Rotate, RotateBackends, server, saves
    <2>2. pc' \in {"swapping", "delete"} /\ Running /\ ~ RowsGone'
      BY <1>8 DEF Rotate, RotateBackends, Running, RowsGone
    <2> QED BY <2>1, <2>2 DEF SqlInv, Rotating, wdb
  <1>9. CASE OnLedgerClosed
    <2>1. /\ validated' = validated + 1
          /\ newLedger' = validated' /\ Running
          /\ pc' = pc \/ pc' = "woken"
          /\ UNCHANGED <<sql, saved, late, lastRotated, validatedLedger, state_db,
                         healthy, stop>>
      BY <1>9 DEF OnLedgerClosed, saves
    <2>2. wdb # None
      BY <1>9 DEF OnLedgerClosed, NamesInv
    <2>3. "woken" \notin Rotating /\ (RowsGone' => RowsGone)
      BY <2>1 DEF Rotating, RowsGone
    <2> QED BY <2>1, <2>2, <2>3, NatType DEF SqlInv, wdb
  <1>10. ASSUME NEW r \in Readers, FetchStore(r) PROVE SqlInv'
    <2>1. UNCHANGED <<validated, sql, saved, late, lastRotated, newLedger,
                      validatedLedger, state_db, pc, healthy, stop>>
      BY <1>10, FetchStoreEffect DEF thread, saves
    <2> QED BY <2>1, SqlQuiet DEF wdb, Running, RowsGone
  <1>11. ASSUME NEW d \in DOMAIN disk, WriteBatch(d) PROVE SqlInv'
    <2>1. UNCHANGED <<validated, sql, saved, late, lastRotated, newLedger,
                      validatedLedger, state_db, pc, healthy, stop>>
      BY <1>11 DEF WriteBatch, thread, server, saves
    <2> QED BY <2>1, SqlQuiet DEF wdb, Running, RowsGone
  <1>12. ASSUME NEW seq \in CanDeletes, SetCanDelete(seq) PROVE SqlInv'
    <2>1. /\ UNCHANGED <<validated, sql, saved, late, lastRotated, newLedger,
                         validatedLedger, pc, healthy, stop>>
          /\ state_db'.lastRotated = state_db.lastRotated /\ wdb' = wdb
      BY <1>12 DEF SetCanDelete, thread, server, saves, TypeOK, wdb
    <2> QED BY <2>1, SqlQuiet DEF Running, RowsGone
  <1>13. CASE Ending
    <2>1. /\ pc' = "down" /\ lastRotated' = 0 /\ newLedger' = None
          /\ validatedLedger' = 0
          /\ UNCHANGED <<sql, saved, late, validated, state_db>>
      BY <1>13, EndEffect DEF MemoryLost, None
    <2>2. ~ Running' /\ ~ RowsGone'
      BY <2>1 DEF Running, RowsGone
    <2> QED BY <2>1, <2>2, NatType DEF SqlInv, Rotating, wdb
  <1>14. CASE StartRun
    <2>1. /\ pc' = "top" /\ lastRotated' = state_db.lastRotated
          /\ state_db'.lastRotated = state_db.lastRotated
          /\ UNCHANGED <<sql, saved, late, validated, newLedger, validatedLedger>>
      <3>1. CASE state_db.writableDb # None
        BY <1>14, <3>1 DEF StartRun, server, saves
      <3>2. CASE state_db.writableDb = None
        BY <1>14, <3>2 DEF StartRun, TypeOK, server, saves
      <3> QED BY <3>1, <3>2
    <2>2. wdb' = None => wdb = None
      BY <1>14 DEF StartRun, wdb
    <2>3. ~ RowsGone'
      BY <2>1 DEF RowsGone
    <2> QED BY <2>1, <2>2, <2>3 DEF SqlInv, Rotating
  <1>16. CASE Saving
    <2>1. /\ Aside
          /\ UNCHANGED <<validated, lastRotated, newLedger, validatedLedger, state_db,
                         pc, healthy, stop>>
      BY <1>16, SavingAside DEF Aside, thread
    <2>2. CASE SetFullLedger
      <3>1. UNCHANGED <<sql, saved, late>>
        BY <2>2 DEF SetFullLedger
      <3> QED BY <2>1, <3>1, SqlQuiet DEF wdb, Running, RowsGone
    <2>3. ASSUME NEW s \in saving, SaveLedger(s)
          PROVE  SqlInv'
      <3>1. CASE UNCHANGED <<sql, saved, late>>
        BY <2>1, <3>1, SqlQuiet DEF wdb, Running, RowsGone
      <3>2. CASE ~ UNCHANGED <<sql, saved, late>>
        <4>1. /\ sql' = sql \cup {s} /\ saved' = saved \cup {s}
              /\ late' = IF s < state_db.lastRotated THEN late \cup {s} ELSE late
          BY <2>3, <3>2 DEF SaveLedger
        <4>2. s \in Nat /\ state_db.lastRotated \in Nat
          BY <2>3, SeqType, NatType DEF SaveLedger, TypeOK
        <4>3. RowsGone => Running /\ lastRotated = state_db.lastRotated
          BY DEF RowsGone, Running, SqlInv
        <4>4. RowsGone => \A q \in sql' \ late' : q >= lastRotated
          BY <4>1, <4>2, <4>3 DEF SqlInv
        <4>5. \A q \in saved' : q >= state_db.lastRotated => q \in sql'
          BY <4>1 DEF SqlInv
        <4>6. (RowsGone' <=> RowsGone) /\ (Running' <=> Running) /\ wdb' = wdb
          BY <2>1 DEF RowsGone, Running, wdb
        <4> QED BY <2>1, <4>4, <4>5, <4>6 DEF SqlInv
      <3> QED BY <3>1, <3>2
    <2> QED BY <1>16, <2>2, <2>3 DEF Saving
  <1>15. CASE UNCHANGED vars
    <2>1. OnlyReader
      BY <1>15 DEF vars, OnlyReader, Aside, server, saves
    <2> QED BY <2>1, <1>2
  <1> QED BY <1>1, <1>2, <1>3, <1>4, <1>5, <1>6, <1>7, <1>8, <1>9, <1>10, <1>11,
             <1>12, <1>13, <1>14, <1>15, <1>16, NextCases, FetchCases, BeginOnlyReader
          DEF CopyNode, Ending

-----------------------------------------------------------------------------
(* The builder. *)

LEMMA BuilderQuiet ==
  ASSUME BuilderInv, UNCHANGED <<builder, validated, batched>>,
         wdb' = wdb, adb' = adb, Running' <=> Running,
         ~ batched /\ (\A d \in DOMAIN disk : pending[d] = {}) =>
           \A d \in DOMAIN disk' : pending'[d] = {}
  PROVE  BuilderInv'
  <1>1. NewNodes(validated + 1)' = NewNodes(validated + 1)
    BY DEF NewNodes
  <1> QED BY <1>1 DEF BuilderInv

LEMMA GrownPending ==
  ASSUME NEW d \in DOMAIN disk, Grown(d), ~ batched, \A e \in DOMAIN disk : pending[e] = {}
  PROVE  \A e \in DOMAIN disk' : pending'[e] = {}
  BY DEF Grown

LEMMA BuilderStep == ASSUME StoreInv, [Next]_vars PROVE BuilderInv'
  <1> USE DEF StoreInv
  <1>t. healthy \in BOOLEAN /\ stop \in BOOLEAN
    BY DEF TypeOK
  <1>1. CASE Top \/ TakeLedger \/ WakeWithoutLedger \/ ClearPrior \/ ClearSql
             \/ Cleared \/ Copied \/ NothingToVisit \/ Freshened \/ Rotate
             \/ OnStop \/ Aside \/ (\E seq \in CanDeletes : SetCanDelete(seq))
    <2>1. UNCHANGED <<builder, validated, batched, disk, pending>>
      BY <1>1 DEF Top, TakeLedger, WakeWithoutLedger, ClearPrior, ClearSql, Cleared,
         Copied, NothingToVisit, Freshened, Rotate, OnStop, Aside,
         SetCanDelete, server, nodeStore, config
    <2>2. wdb' = wdb /\ adb' = adb
      BY <1>1 DEF Top, TakeLedger, WakeWithoutLedger, ClearPrior, ClearSql, Cleared,
         Copied, NothingToVisit, Freshened, Rotate, OnStop, Aside,
         SetCanDelete, wdb, adb, TypeOK
    <2>3. Running' <=> Running
      <3>1. CASE Top \/ WakeWithoutLedger \/ NothingToVisit \/ Rotate
                 \/ OnStop \/ Aside \/ (\E seq \in CanDeletes : SetCanDelete(seq))
        BY <3>1 DEF Top, TopStep, WakeWithoutLedger, NothingToVisit, Rotate,
           RotateBackends, OnStop, Aside, SetCanDelete, thread, Running
      <3>2. CASE ClearPrior
        BY <1>t, <3>2, HealthEffect DEF ClearPrior, Running
      <3>3. CASE ClearSql
        BY <1>t, <3>3, HealthEffect DEF ClearSql, Running
      <3>4. CASE Cleared \/ Copied \/ Freshened
        BY <1>t, <3>4, SwitchEffect DEF Cleared, Copied, Freshened, Running
      <3>5. CASE TakeLedger
        <4>1. CASE ShouldRotate(newLedger, lastRotated') /\ Fresh # {}
          BY <3>5, <1>t, <4>1, SwitchEffect DEF TakeLedger, Running
        <4>2. CASE ~ (ShouldRotate(newLedger, lastRotated') /\ Fresh # {})
          BY <3>5, <4>2 DEF TakeLedger, Running
        <4> QED BY <4>1, <4>2
      <3> QED BY <1>1, <3>1, <3>2, <3>3, <3>4, <3>5
    <2> QED BY <2>1, <2>2, <2>3, BuilderQuiet
  <1>2. ASSUME NEW here \in {"copy", "freshen"}, NEW done \in {"copied", "fresh"},
               Visit(here, done)
        PROVE  BuilderInv'
    <2>1. /\ pc = here /\ pc' \in {here, done}
          /\ writableBackend \in DOMAIN disk /\ Grown(writableBackend)
          /\ UNCHANGED <<builder, validated, batched, state_db>>
      BY <1>2, VisitEffect DEF Visit, server, config
    <2>2. Running' <=> Running
      BY <2>1 DEF Running
    <2> QED BY <2>1, <2>2, BuilderQuiet, GrownPending DEF wdb, adb
  <1>3. CASE NewBackend
    <2>1. UNCHANGED <<builder, validated, batched, state_db>> /\ pc = "newBackend"
      BY <1>3 DEF NewBackend, server, config
    <2>2. /\ pc' \in {"save", "stopped", "top"}
          /\ DOMAIN disk' = DOMAIN disk \cup {FreshDir}
          /\ pending'[FreshDir] = {}
          /\ \A d \in DOMAIN disk : pending'[d] = pending[d]
      BY <1>3, NewBackendEffect
    <2>3. Running' <=> Running
      BY <2>1, <2>2 DEF Running
    <2> QED BY <2>1, <2>2, <2>3, BuilderQuiet DEF wdb, adb
  <1>4. CASE Save
    <2>1. /\ pc = "save" /\ pc' = "rotating"
          /\ UNCHANGED <<disk, pending, builder, validated, batched>>
          /\ adb' = writableBackend
      BY <1>4 DEF Save, SavedAfterRotation, TypeOK, nodeStore, config, wdb, adb
    <2>2. builder.target \in {None, writableBackend}
      BY <2>1 DEF CopyInv, CopyTarget, InRotation, Rotating
    <2>3. NewNodes(validated + 1)' = NewNodes(validated + 1)
      BY <2>1 DEF NewNodes
    <2>4. Running /\ Running'
      BY <2>1 DEF Running
    <2> QED BY <2>1, <2>2, <2>3, <2>4 DEF BuilderInv
  <1>5. CASE DeleteOld
    <2>1. /\ pc = "delete" /\ pc' = "top"
          /\ UNCHANGED <<builder, validated, batched, state_db>>
          /\ DOMAIN disk' \subseteq DOMAIN disk
          /\ \A d \in DOMAIN disk' : pending'[d] = pending[d]
      BY <1>5, DeleteEffect DEF DeleteOld, server, config
    <2>2. Running' <=> Running
      BY <2>1 DEF Running
    <2> QED BY <2>1, <2>2, BuilderQuiet DEF wdb, adb
  <1>6. CASE StoreBegin
    <2>1. /\ Running /\ ~ Locked /\ builder.unsaved # {}
          /\ UNCHANGED <<disk, pending, validated, batched, state_db, pc>>
          /\ builder'.unsaved = builder.unsaved /\ builder'.target = writableBackend
      BY <1>6 DEF StoreBegin, TypeOK, config, thread
    <2>2. writableBackend = wdb
      BY <2>1 DEF NamesInv
    <2>3. NewNodes(validated + 1)' = NewNodes(validated + 1)
      BY <2>1 DEF NewNodes
    <2> QED BY <2>1, <2>2, <2>3 DEF BuilderInv, wdb, adb, Running
  <1>7. CASE StoreEnd
    <2>1. PICK n \in builder.unsaved :
            /\ builder.target \in DOMAIN disk /\ Grown(builder.target)
            /\ builder' = [unsaved |-> builder.unsaved \ {n}, target |-> None]
      BY <1>7, StoreEndEffect
    <2>2. UNCHANGED <<validated, batched, pc>> /\ builder.target # None
      BY <1>7 DEF StoreEnd, config, thread
    <2>3. Running /\ Running'
      BY <2>2 DEF BuilderInv, Running
    <2>4. NewNodes(validated + 1)' = NewNodes(validated + 1)
      BY <2>2 DEF NewNodes
    <2>5. ~ batched' => \A d \in DOMAIN disk' : pending'[d] = {}
      BY <2>1, <2>2, GrownPending DEF BuilderInv
    <2>6. builder'.unsaved \subseteq builder.unsaved /\ builder'.target = None
      BY <2>1
    <2> QED BY <2>3, <2>4, <2>5, <2>6 DEF BuilderInv
  <1>8. CASE OnLedgerClosed
    <2>1. /\ UNCHANGED <<disk, pending, batched, state_db>> /\ Running
          /\ pc' = pc \/ pc' = "woken"
          /\ builder.unsaved = {} /\ builder'.target = builder.target
          /\ builder'.unsaved = NewNodes(validated' + 1)
      BY <1>8 DEF OnLedgerClosed, nodeStore, config, TypeOK
    <2>2. builder.target = None /\ Running'
      BY <2>1 DEF BuilderInv, Running
    <2>3. builder'.unsaved = NewNodes(validated + 1)'
      BY <2>1 DEF NewNodes
    <2> QED BY <2>1, <2>2, <2>3 DEF BuilderInv
  <1>9. ASSUME NEW r \in Readers, FetchStore(r) PROVE BuilderInv'
    <2>1. /\ writableBackend \in DOMAIN disk /\ Grown(writableBackend)
          /\ UNCHANGED <<builder, validated, batched, state_db, pc>>
      BY <1>9, FetchStoreEffect DEF thread, config
    <2> QED BY <2>1, BuilderQuiet, GrownPending DEF wdb, adb, Running
  <1>10. ASSUME NEW d \in DOMAIN disk, WriteBatch(d) PROVE BuilderInv'
    <2>1. /\ Grown(d)
          /\ UNCHANGED <<builder, validated, batched, state_db, pc>>
      BY <1>10, WriteGrown DEF WriteBatch, thread, config, server
    <2> QED BY <2>1, BuilderQuiet, GrownPending DEF wdb, adb, Running
  <1>11. CASE Ending
    <2>1. /\ MemoryLost /\ DOMAIN disk' = DOMAIN disk
          /\ \A d \in DOMAIN disk : pending'[d] = {}
      BY <1>11, EndEffect
    <2>2. /\ builder' = [unsaved |-> NewNodes(validated + 1), target |-> None]
          /\ UNCHANGED validated
      BY <2>1 DEF MemoryLost
    <2>3. NewNodes(validated + 1)' = NewNodes(validated + 1)
      BY <2>2 DEF NewNodes
    <2>4. builder'.unsaved = NewNodes(validated + 1)' /\ builder'.target = None
      BY <2>2, <2>3
    <2> QED BY <2>1, <2>4 DEF BuilderInv
  <1>12. CASE DbPaths \/ MakeDatabase
    <2>1. UNCHANGED <<builder, validated, batched, state_db>>
      BY <1>12 DEF DbPaths, MakeDatabase, config, server
    <2>2. (Running' <=> Running)
      BY <1>12, DbPathsEffect, MakeEffect DEF Running
    <2>3. ~ batched /\ (\A d \in DOMAIN disk : pending[d] = {}) =>
            \A d \in DOMAIN disk' : pending'[d] = {}
      BY <1>12, DbPathsEffect, MakeEffect
    <2> QED BY <2>1, <2>2, <2>3, BuilderQuiet DEF wdb, adb
  <1>13. CASE StartRun
    <2>1. /\ pc = "setState" /\ pc' = "top"
          /\ UNCHANGED <<disk, pending, builder, validated, batched>>
      BY <1>13 DEF StartRun, nodeStore, config, server
    <2>2. ~ Running /\ Running'
      BY <2>1 DEF Running
    <2>3. NewNodes(validated + 1)' = NewNodes(validated + 1)
      BY <2>1 DEF NewNodes
    <2> QED BY <2>1, <2>2, <2>3 DEF BuilderInv
  <1>14. CASE UNCHANGED vars
    <2>1. Aside
      BY <1>14 DEF vars, Aside, server
    <2> QED BY <2>1, <1>1
  <1> QED BY <1>1, <1>2, <1>3, <1>4, <1>5, <1>6, <1>7, <1>8, <1>9, <1>10, <1>11,
             <1>12, <1>13, <1>14, NextCases, FetchCases, BeginOnlyReader, SavingAside
          DEF CopyNode, Ending

-----------------------------------------------------------------------------
(* The nodes of the kept ledgers. *)

LEMMA LedgersQuiet ==
  ASSUME LedgersInv, UNCHANGED validated, Safe' => Safe,
         validated \in Nat, state_db.lastRotated \in Nat, state_db'.lastRotated \in Nat,
         state_db.lastRotated <= state_db'.lastRotated,
         wdb' # None => wdb # None,
         wdb' # None => Stored \subseteq Stored',
         wdb' # None => builder.unsaved \subseteq builder'.unsaved \cup Stored'
  PROVE  LedgersInv'
  <1> SUFFICES ASSUME Safe', wdb' # None
               PROVE  /\ \A s \in 1 .. validated' :
                           s >= state_db'.lastRotated => StateMap[s] \subseteq Stored'
                      /\ NewNodes(validated + 1)' \subseteq builder'.unsaved \cup Stored'
    BY DEF LedgersInv
  <1>1. NewNodes(validated + 1)' = NewNodes(validated + 1)
    BY DEF NewNodes
  <1>2. NewNodes(validated + 1) \subseteq builder.unsaved \cup Stored
    BY DEF LedgersInv
  <1>3. ASSUME NEW s \in 1 .. validated', s >= state_db'.lastRotated
        PROVE  StateMap[s] \subseteq Stored'
    <2>1. s \in 1 .. validated /\ s >= state_db.lastRotated
      BY <1>3
    <2> QED BY <2>1 DEF LedgersInv
  <1> QED BY <1>1, <1>2, <1>3

LEMMA GrownStored ==
  ASSUME StoreInv, wdb # None, wdb' = wdb, adb' = adb,
         NEW d \in DOMAIN disk, Grown(d)
  PROVE  Stored \subseteq Stored'
  <1>1. {wdb, adb} \subseteq DOMAIN disk
    BY DEF StoreInv, NamesInv
  <1> QED BY <1>1 DEF Grown, Stored, In

LEMMA SameStored ==
  ASSUME StoreInv, wdb # None, wdb' = wdb, adb' = adb,
         \A d \in {wdb, adb} : disk'[d] = disk[d] /\ pending'[d] = pending[d]
  PROVE  Stored' = Stored
  BY DEF Stored, In

LEMMA LedgersStep == ASSUME StoreInv, [Next]_vars PROVE LedgersInv'
  <1> USE DEF StoreInv
  <1>n. validated \in Nat /\ state_db.lastRotated \in Nat
    BY NatType
  <1>1. CASE Top \/ WakeWithoutLedger \/ ClearPrior \/ ClearSql
             \/ Cleared \/ Copied \/ NothingToVisit \/ Freshened \/ Rotate
             \/ OnStop \/ StoreBegin \/ Aside
             \/ (\E seq \in CanDeletes : SetCanDelete(seq))
    <2>1. /\ UNCHANGED <<validated, batched, crashes, disk, pending>>
          /\ builder'.unsaved = builder.unsaved
          /\ wdb' = wdb /\ adb' = adb /\ state_db'.lastRotated = state_db.lastRotated
      <3>1. CASE StoreBegin
        BY <3>1 DEF StoreBegin, TypeOK, config, wdb, adb
      <3>2. CASE \E seq \in CanDeletes : SetCanDelete(seq)
        BY <3>2 DEF SetCanDelete, TypeOK, config, server, nodeStore, wdb, adb
      <3>3. CASE Top \/ WakeWithoutLedger \/ ClearPrior \/ ClearSql
             \/ Cleared \/ Copied \/ NothingToVisit \/ Freshened \/ Rotate
             \/ OnStop \/ Aside
        BY <3>3 DEF Top, WakeWithoutLedger, ClearPrior, ClearSql, Cleared,
         Copied, NothingToVisit, Freshened, Rotate, OnStop, Aside,
         server, nodeStore, config, wdb, adb
      <3> QED BY <1>1, <3>1, <3>2, <3>3
    <2>2. Stored' = Stored /\ (Safe' <=> Safe)
      BY <2>1 DEF Stored, In, Safe
    <2> QED BY <1>n, <2>1, <2>2, LedgersQuiet
  <1>2. CASE TakeLedger
    <2>1. /\ UNCHANGED <<validated, batched, crashes, disk, pending, builder>>
          /\ wdb' = wdb /\ adb' = adb
      BY <1>2 DEF TakeLedger, TypeOK, server, nodeStore, config, wdb, adb
    <2>2. state_db'.lastRotated \in {newLedger, state_db.lastRotated}
      BY <1>2 DEF TakeLedger, TypeOK
    <2>3. newLedger = validated /\ state_db.lastRotated <= validated
      BY <1>2 DEF TakeLedger, SqlInv
    <2>4. Stored' = Stored /\ (Safe' <=> Safe)
      BY <2>1 DEF Stored, In, Safe
    <2>5. state_db'.lastRotated \in Nat /\ state_db.lastRotated <= state_db'.lastRotated
      BY <1>n, <2>2, <2>3
    <2> QED BY <1>n, <2>1, <2>4, <2>5, LedgersQuiet
  <1>3. ASSUME NEW here \in {"copy", "freshen"}, NEW done \in {"copied", "fresh"},
               Visit(here, done)
        PROVE  LedgersInv'
    <2>1. /\ writableBackend \in DOMAIN disk /\ Grown(writableBackend)
          /\ UNCHANGED <<builder, validated, batched, crashes, state_db>>
      BY <1>3, VisitEffect DEF server, config
    <2>2. wdb # None => Stored \subseteq Stored'
      BY <2>1, GrownStored DEF wdb, adb
    <2> QED BY <1>n, <2>1, <2>2, LedgersQuiet DEF Safe, wdb
  <1>4. CASE NewBackend
    <2>1. UNCHANGED <<builder, validated, batched, crashes, state_db>>
      BY <1>4 DEF NewBackend, server, config
    <2>2. \A d \in DOMAIN disk : disk'[d] = disk[d] /\ pending'[d] = pending[d]
      BY <1>4, NewBackendEffect
    <2>3. wdb # None => Stored' = Stored
      BY <2>1, <2>2, SameStored DEF NamesInv, wdb, adb
    <2> QED BY <1>n, <2>1, <2>3, LedgersQuiet DEF Safe, wdb
  <1>5. CASE Save
    <2>1. /\ pc = "save"
          /\ UNCHANGED <<disk, pending, builder, validated, batched, crashes>>
          /\ adb' = writableBackend /\ state_db'.lastRotated = validatedLedger
      BY <1>5 DEF Save, SavedAfterRotation, TypeOK, nodeStore, config, adb
    <2> SUFFICES ASSUME Safe'
                 PROVE  /\ \A s \in 1 .. validated' :
                           s >= state_db'.lastRotated => StateMap[s] \subseteq Stored'
                        /\ NewNodes(validated + 1)' \subseteq builder'.unsaved \cup Stored'
      BY DEF LedgersInv
    <2>2. Safe
      BY <2>1 DEF Safe
    <2>3. In(writableBackend) \subseteq Stored'
      BY <2>1 DEF In, Stored
    <2>4. \A s \in 1 .. validated : s >= validatedLedger =>
                                      StateMap[s] \subseteq In(writableBackend)
      BY <2>1, <2>2 DEF CopyInv, CopyData, CopyDone, Since
    <2>5. NewNodes(validated + 1) \subseteq builder.unsaved \cup In(writableBackend)
      BY <2>1, <2>2 DEF CopyInv, CopyTarget, InRotation, Rotating
    <2>6. NewNodes(validated + 1)' = NewNodes(validated + 1)
      BY <2>1 DEF NewNodes
    <2> QED BY <2>1, <2>3, <2>4, <2>5, <2>6
  <1>6. CASE DeleteOld
    <2>1. /\ UNCHANGED <<builder, validated, batched, crashes, state_db>>
          /\ backends.old \notin {wdb, adb}
          /\ \A d \in DOMAIN disk \ {backends.old} :
               disk'[d] = disk[d] /\ pending'[d] = pending[d]
      BY <1>6, DeleteEffect DEF DeleteOld, server, config
    <2>2. wdb # None => Stored' = Stored
      BY <2>1, SameStored DEF NamesInv, wdb, adb
    <2> QED BY <1>n, <2>1, <2>2, LedgersQuiet DEF Safe, wdb
  <1>7. CASE StoreEnd
    <2>1. PICK n \in builder.unsaved :
            /\ builder.target \in DOMAIN disk /\ Grown(builder.target)
            /\ n \in disk'[builder.target] \cup pending'[builder.target]
            /\ builder' = [unsaved |-> builder.unsaved \ {n}, target |-> None]
      BY <1>7, StoreEndEffect
    <2>2. UNCHANGED <<validated, batched, crashes, state_db>>
          /\ builder.target \in {wdb, adb}
      BY <1>7 DEF StoreEnd, config, BuilderInv
    <2>3. wdb # None => Stored \subseteq Stored'
      BY <2>1, <2>2, GrownStored DEF wdb, adb
    <2>4. n \in Stored'
      BY <2>1, <2>2 DEF Stored, In, wdb, adb
    <2>5. builder.unsaved \subseteq builder'.unsaved \cup Stored'
      BY <2>1, <2>4
    <2> QED BY <1>n, <2>2, <2>3, <2>5, LedgersQuiet DEF Safe, wdb
  <1>8. CASE OnLedgerClosed
    <2>1. /\ UNCHANGED <<disk, pending, batched, crashes, state_db>>
          /\ builder.unsaved = {} /\ validated < LastSeq /\ validated' = validated + 1
          /\ builder'.unsaved = NewNodes(validated' + 1)
      BY <1>8 DEF OnLedgerClosed, nodeStore, config, TypeOK
    <2> SUFFICES ASSUME Safe', wdb' # None
                 PROVE  /\ \A s \in 1 .. validated' :
                           s >= state_db'.lastRotated => StateMap[s] \subseteq Stored'
                        /\ NewNodes(validated + 1)' \subseteq builder'.unsaved \cup Stored'
      BY DEF LedgersInv
    <2>2. Stored' = Stored /\ Safe /\ wdb # None
      BY <2>1 DEF Stored, In, Safe, wdb, adb
    <2>3. builder'.unsaved = NewNodes(validated + 1)'
      BY <2>1 DEF NewNodes
    <2>4. /\ \A s \in 1 .. validated :
               s >= state_db.lastRotated => StateMap[s] \subseteq Stored
          /\ NewNodes(validated + 1) \subseteq Stored
          /\ state_db.lastRotated <= validated
      BY <2>1, <2>2 DEF LedgersInv, SqlInv
    <2>5. StateMap[validated + 1] \subseteq Stored
      <3>1. validated + 1 \in Nat /\ validated + 1 >= 1 /\ validated + 1 <= LastSeq
        BY <1>n, <2>1, SeqType
      <3>2. CASE validated = 0
        BY <2>4, <3>1, <3>2, NewNodesOf
      <3>3. CASE validated # 0
        <4>1. StateMap[validated + 1] \subseteq
                StateMap[validated + 1 - 1] \cup NewNodes(validated + 1)
          BY <1>n, <3>1, <3>3, NewNodesOf
        <4>2. validated + 1 - 1 = validated /\ validated \in 1 .. validated
          BY <1>n, <3>3
        <4> QED BY <1>n, <2>4, <4>1, <4>2
      <3> QED BY <3>2, <3>3
    <2>6. ASSUME NEW s \in 1 .. validated', s >= state_db'.lastRotated
          PROVE  StateMap[s] \subseteq Stored
      <3>1. s \in 1 .. validated \/ s = validated + 1
        BY <1>n, <2>1
      <3> QED BY <2>1, <2>4, <2>5, <2>6, <3>1
    <2> QED BY <2>2, <2>3, <2>6
  <1>9. ASSUME NEW r \in Readers, FetchStore(r) PROVE LedgersInv'
    <2>1. /\ writableBackend \in DOMAIN disk /\ Grown(writableBackend)
          /\ UNCHANGED <<builder, validated, batched, crashes, state_db>>
      BY <1>9, FetchStoreEffect DEF config
    <2>2. wdb # None => Stored \subseteq Stored'
      BY <2>1, GrownStored DEF wdb, adb
    <2> QED BY <1>n, <2>1, <2>2, LedgersQuiet DEF Safe, wdb
  <1>10. ASSUME NEW d \in DOMAIN disk, WriteBatch(d) PROVE LedgersInv'
    <2>1. /\ Grown(d)
          /\ UNCHANGED <<builder, validated, batched, crashes, state_db>>
      BY <1>10, WriteGrown DEF WriteBatch, config, server
    <2>2. wdb # None => Stored \subseteq Stored'
      BY <2>1, GrownStored DEF wdb, adb
    <2> QED BY <1>n, <2>1, <2>2, LedgersQuiet DEF Safe, wdb
  <1>11. CASE Ending
    <2>1. /\ UNCHANGED <<validated, batched, state_db>> /\ crashes' = crashes + 1
          /\ builder' = [unsaved |-> NewNodes(validated + 1), target |-> None]
          /\ ~ batched => \A d \in DOMAIN disk :
               disk'[d] \cup pending'[d] = disk[d] \cup pending[d]
      BY <1>11, EndEffect DEF MemoryLost, config
    <2>2. crashes' # 0
      <3>1. crashes \in Nat
        BY StoreAssumption DEF TypeOK
      <3> QED BY <2>1, <3>1
    <2>3. CASE batched
      BY <2>1, <2>2, <2>3 DEF LedgersInv, Safe
    <2>4. CASE ~ batched
      <3>1. wdb # None => Stored' = Stored
        BY <2>1, <2>4 DEF NamesInv, Stored, In, wdb, adb
      <3>2. builder.unsaved \subseteq builder'.unsaved
        BY <2>1 DEF BuilderInv
      <3> QED BY <1>n, <2>1, <2>4, <3>1, <3>2, LedgersQuiet DEF Safe, wdb
    <2> QED BY <2>3, <2>4
  <1>12. CASE DbPaths
    <2>1. UNCHANGED <<builder, validated, batched, crashes, state_db>>
      BY <1>12 DEF DbPaths, config, server
    <2>2. /\ wdb # None => {wdb, adb} \subseteq DOMAIN disk'
          /\ \A d \in DOMAIN disk' : disk'[d] = disk[d] /\ pending'[d] = pending[d]
      BY <1>12, DbPathsEffect
    <2>3. wdb # None => Stored' = Stored
      BY <2>1, <2>2, SameStored DEF wdb, adb
    <2> QED BY <1>n, <2>1, <2>3, LedgersQuiet DEF Safe, wdb
  <1>13. CASE MakeDatabase
    <2>1. UNCHANGED <<builder, validated, batched, crashes, state_db>>
      BY <1>13 DEF MakeDatabase, config, server
    <2>2. \A d \in DOMAIN disk : disk'[d] = disk[d] /\ pending'[d] = pending[d]
      BY <1>13, MakeEffect
    <2>3. wdb # None => Stored' = Stored
      BY <2>1, <2>2, SameStored DEF NamesInv, wdb, adb
    <2> QED BY <1>n, <2>1, <2>3, LedgersQuiet DEF Safe, wdb
  <1>14. CASE StartRun
    <2>1. /\ pc = "setState"
          /\ UNCHANGED <<disk, pending, builder, validated, batched, crashes>>
      BY <1>14 DEF StartRun, nodeStore, config, server
    <2>2. CASE wdb # None
      <3>1. UNCHANGED state_db
        BY <1>14, <2>2 DEF StartRun, wdb
      <3>2. Stored' = Stored
        BY <2>1, <3>1 DEF Stored, In, wdb, adb
      <3> QED BY <1>n, <2>1, <3>1, <3>2, LedgersQuiet DEF Safe, wdb
    <2>3. CASE wdb = None
      <3>1. validated = 0 /\ builder.unsaved = NewNodes(validated + 1)
        BY <2>1, <2>3 DEF SqlInv, BuilderInv, Running
      <3>2. NewNodes(validated + 1)' = NewNodes(validated + 1)
        BY <2>1 DEF NewNodes
      <3> QED BY <2>1, <3>1, <3>2 DEF LedgersInv
    <2> QED BY <2>2, <2>3
  <1>15. CASE UNCHANGED vars
    <2>1. Aside
      BY <1>15 DEF vars, Aside, server
    <2> QED BY <2>1, <1>1
  <1> QED BY <1>1, <1>2, <1>3, <1>4, <1>5, <1>6, <1>7, <1>8, <1>9, <1>10, <1>11,
             <1>12, <1>13, <1>14, <1>15, NextCases, FetchCases, BeginOnlyReader, SavingAside
          DEF CopyNode, Ending

-----------------------------------------------------------------------------
(* The copy. *)

LEMMA RotatingNames ==
  ASSUME StoreInv, pc \in Rotating \ {"swapping"}
  PROVE  /\ writableBackend \in DOMAIN disk /\ archiveBackend \in DOMAIN disk
         /\ writableBackend # archiveBackend
  <1>1. Running
    BY DEF Running, Rotating
  <1>2. CASE pc = "rotating"
    <2>1. Locked /\ wdb # None
      BY <1>1, <1>2 DEF Locked, StoreInv, NamesInv
    <2> QED BY <1>2, <2>1 DEF StoreInv, NamesInv
  <1>3. CASE pc # "rotating"
    <2>1. ~ Locked /\ wdb # None
      BY <1>1, <1>3 DEF Locked, StoreInv, NamesInv
    <2> QED BY <1>1, <2>1 DEF StoreInv, NamesInv
  <1> QED BY <1>2, <1>3

LEMMA TargetIdle ==
  ASSUME pc' \notin Rotating, pc' # "woken"
  PROVE  CopyTarget'
  BY DEF CopyTarget, InRotation, Rotating

LEMMA TargetQuiet ==
  ASSUME CopyTarget, UNCHANGED <<validated, writableBackend>>, Safe' => Safe,
         InRotation' => InRotation,
         InRotation' => builder'.target \in {None, writableBackend, builder.target},
         InRotation' => In(writableBackend) \subseteq
                          disk'[writableBackend] \cup pending'[writableBackend],
         InRotation' => builder.unsaved \subseteq builder'.unsaved \cup
                          disk'[writableBackend] \cup pending'[writableBackend],
         pc' \in Rotating \ {"swapping"} =>
           /\ pc \in Rotating \ {"swapping"} /\ archiveBackend' = archiveBackend
           /\ pending[archiveBackend] = {} => pending'[archiveBackend] = {}
  PROVE  CopyTarget'
  <1>1. NewNodes(validated + 1)' = NewNodes(validated + 1)
    BY DEF NewNodes
  <1>2. InRotation' => /\ builder'.target \in {None, writableBackend'}
                       /\ Safe' => NewNodes(validated + 1)' \subseteq builder'.unsaved
                                     \cup disk'[writableBackend'] \cup pending'[writableBackend']
    BY <1>1 DEF CopyTarget, In
  <1>3. pc' \in Rotating \ {"swapping"} => pending'[archiveBackend'] = {}
    BY DEF CopyTarget
  <1> QED BY <1>2, <1>3 DEF CopyTarget, In

LEMMA TargetStep == ASSUME StoreInv, [Next]_vars PROVE CopyTarget'
  <1> USE DEF StoreInv, CopyInv
  <1>t. healthy \in BOOLEAN /\ stop \in BOOLEAN
    BY DEF TypeOK
  <1>1. CASE Top \/ WakeWithoutLedger \/ DeleteOld \/ Ending \/ DbPaths
             \/ MakeDatabase \/ StartRun
    <2>1. pc' \in {"stopped", "waiting", "top", "down", "make", "setState"}
      BY <1>1, EndEffect, DbPathsEffect, MakeEffect
         DEF Top, TopStep, WakeWithoutLedger, DeleteOld, StartRun, MemoryLost
    <2> QED BY <2>1, TargetIdle DEF Rotating
  <1>2. CASE ClearPrior \/ ClearSql \/ Cleared \/ Copied \/ NothingToVisit
             \/ Freshened \/ Save
    <2>1. UNCHANGED <<validated, writableBackend, archiveBackend, batched, crashes,
                      builder, disk, pending>>
      BY <1>2 DEF ClearPrior, ClearSql, Cleared, Copied, NothingToVisit,
         Freshened, Save, server, nodeStore, config
    <2>2. pc \in Rotating \ {"swapping"} /\ (InRotation' => pc' \in Rotating)
      <3>1. CASE ClearPrior
        BY <1>t, <3>1, HealthEffect DEF ClearPrior, Rotating, InRotation
      <3>2. CASE ClearSql
        BY <1>t, <3>2, HealthEffect DEF ClearSql, Rotating, InRotation
      <3>3. CASE Cleared \/ Copied \/ Freshened
        BY <1>t, <3>3, SwitchEffect DEF Cleared, Copied, Freshened, Rotating, InRotation
      <3>4. CASE NothingToVisit \/ Save
        BY <3>4 DEF NothingToVisit, Save, Rotating, InRotation
      <3> QED BY <1>2, <3>1, <3>2, <3>3, <3>4
    <2> QED BY <2>1, <2>2, TargetQuiet DEF Safe, InRotation, In
  <1>3. CASE TakeLedger
    <2>1. /\ pc = "woken" /\ newLedger # None /\ pending[archiveBackend] = {}
          /\ UNCHANGED <<validated, writableBackend, archiveBackend, batched, crashes,
                      builder, disk, pending>>
      BY <1>3 DEF TakeLedger, server, nodeStore, config
    <2>2. pc' \in {"top", "stopped"} \/ (pc' = "clearPrior" /\ ~ stop)
      <3>1. CASE ShouldRotate(newLedger, lastRotated') /\ Fresh # {}
        BY <1>3, <1>t, <3>1, SwitchEffect DEF TakeLedger
      <3>2. CASE ~ (ShouldRotate(newLedger, lastRotated') /\ Fresh # {})
        BY <1>3, <3>2 DEF TakeLedger
      <3> QED BY <3>1, <3>2
    <2>3. CASE pc' \in {"top", "stopped"}
      BY <2>3, TargetIdle DEF Rotating
    <2>4. CASE pc' = "clearPrior" /\ ~ stop
      <3>1. InRotation
        BY <2>1, <2>4 DEF InRotation
      <3>2. NewNodes(validated + 1)' = NewNodes(validated + 1)
        BY <2>1 DEF NewNodes
      <3>3. Safe' => Safe
        BY <2>1 DEF Safe
      <3> QED BY <2>1, <3>1, <3>2, <3>3 DEF CopyTarget, In
    <2> QED BY <2>2, <2>3, <2>4
  <1>4. ASSUME NEW here \in {"copy", "freshen"}, NEW done \in {"copied", "fresh"},
               Visit(here, done)
        PROVE  CopyTarget'
    <2>1. /\ pc = here /\ pc' \in {here, done}
          /\ writableBackend \in DOMAIN disk /\ archiveBackend \in DOMAIN disk
          /\ writableBackend # archiveBackend
          /\ Grown(writableBackend)
          /\ UNCHANGED <<validated, writableBackend, archiveBackend, batched, crashes,
                         builder>>
      BY <1>4, VisitEffect DEF Visit, server, config
    <2>2. pc \in Rotating \ {"swapping"} /\ pc' \in Rotating
      BY <2>1 DEF Rotating
    <2>3. /\ In(writableBackend) \subseteq disk'[writableBackend] \cup pending'[writableBackend]
          /\ pending'[archiveBackend] = pending[archiveBackend]
      BY <2>1 DEF Grown, In
    <2> QED BY <2>1, <2>2, <2>3, TargetQuiet DEF Safe, InRotation
  <1>5. CASE NewBackend
    <2>1. UNCHANGED <<validated, writableBackend, archiveBackend, batched, crashes,
                      builder>> /\ pc = "newBackend"
      BY <1>5 DEF NewBackend, server, config
    <2>2. /\ pc' \in {"save", "stopped", "top"}
          /\ \A d \in DOMAIN disk : disk'[d] = disk[d] /\ pending'[d] = pending[d]
      BY <1>5, NewBackendEffect
    <2>3. pc \in Rotating \ {"swapping"} /\ (InRotation' => pc' \in Rotating)
      BY <2>1, <2>2 DEF Rotating, InRotation
    <2>4. writableBackend \in DOMAIN disk /\ archiveBackend \in DOMAIN disk
      BY <2>3, RotatingNames
    <2> QED BY <2>1, <2>2, <2>3, <2>4, TargetQuiet DEF Safe, InRotation, In
  <1>6. CASE Rotate
    <2>1. UNCHANGED <<validated, batched, crashes, builder, disk, pending>>
      BY <1>6 DEF Rotate, server, config
    <2>2. CASE pc = "rotating"
      <3>1. pc' = "swapping" /\ writableBackend' = writableBackend
        BY <1>6, <2>2 DEF Rotate, RotateBackends
      <3> QED BY <2>1, <2>2, <3>1, TargetQuiet DEF Safe, InRotation, In, Rotating
    <2>3. CASE pc = "swapping"
      BY <1>6, <2>3, TargetIdle DEF Rotate, RotateBackends, Rotating
    <2> QED BY <1>6, <2>2, <2>3 DEF Rotate, RotateBackends
  <1>7. CASE OnStop \/ Aside \/ StoreBegin
             \/ (\E seq \in CanDeletes : SetCanDelete(seq))
    <2>1. /\ UNCHANGED <<validated, writableBackend, archiveBackend, batched, crashes,
                      disk, pending>>
          /\ pc' = pc \/ (pc' = "woken" /\ stop')
      BY <1>7 DEF OnStop, Aside, StoreBegin, SetCanDelete, server, nodeStore,
         config, thread
    <2>2. /\ builder'.unsaved = builder.unsaved
          /\ builder'.target \in {writableBackend, builder.target}
      BY <1>7 DEF OnStop, Aside, StoreBegin, SetCanDelete, server, TypeOK
    <2>3. InRotation' => InRotation
      BY <1>7 DEF OnStop, Aside, StoreBegin, SetCanDelete, thread, InRotation, Rotating
    <2>4. pc' \in Rotating => pc' = pc
      BY <1>7 DEF OnStop, Aside, StoreBegin, SetCanDelete, thread, Rotating
    <2> QED BY <2>1, <2>2, <2>3, <2>4, TargetQuiet DEF Safe, In
  <1>8. CASE StoreEnd
    <2>1. PICK n \in builder.unsaved :
            /\ builder.target \in DOMAIN disk /\ Grown(builder.target)
            /\ n \in disk'[builder.target] \cup pending'[builder.target]
            /\ builder' = [unsaved |-> builder.unsaved \ {n}, target |-> None]
      BY <1>8, StoreEndEffect
    <2>2. /\ UNCHANGED <<validated, writableBackend, archiveBackend, batched, crashes,
                         pc, stop, newLedger>>
          /\ builder.target # None
      BY <1>8 DEF StoreEnd, config, thread
    <2>3. InRotation' <=> InRotation
      BY <2>2 DEF InRotation
    <2>4. InRotation => builder.target = writableBackend
      BY <2>2 DEF CopyTarget
    <2>5. InRotation =>
            /\ In(writableBackend) \subseteq disk'[writableBackend] \cup pending'[writableBackend]
            /\ builder.unsaved \subseteq builder'.unsaved \cup
                 disk'[writableBackend] \cup pending'[writableBackend]
      BY <2>1, <2>4 DEF Grown, In
    <2>6. pc \in Rotating \ {"swapping"} => pending'[archiveBackend] = pending[archiveBackend]
      BY <2>1, <2>4, RotatingNames DEF Grown, InRotation
    <2>7. builder'.target = None
      BY <2>1
    <2> QED BY <2>2, <2>3, <2>5, <2>6, <2>7, TargetQuiet DEF Safe
  <1>9. CASE OnLedgerClosed
    <2>1. /\ UNCHANGED <<disk, pending, archiveBackend, writableBackend>>
          /\ pc' = pc \/ pc' = "woken"
          /\ builder.unsaved = {} /\ builder'.target = builder.target
          /\ builder'.unsaved = NewNodes(validated' + 1)
      BY <1>9 DEF OnLedgerClosed, nodeStore, TypeOK
    <2>2. builder.target = None
      BY <2>1 DEF BuilderInv
    <2>3. builder'.unsaved = NewNodes(validated + 1)'
      BY <2>1 DEF NewNodes
    <2>4. pc' \in Rotating \ {"swapping"} => pending'[archiveBackend'] = {}
      BY <2>1 DEF CopyTarget, Rotating
    <2> QED BY <2>1, <2>2, <2>3, <2>4 DEF CopyTarget
  <1>10. ASSUME NEW r \in Readers, FetchStore(r) PROVE CopyTarget'
    <2>1. /\ writableBackend \in DOMAIN disk /\ Grown(writableBackend)
          /\ UNCHANGED <<validated, writableBackend, archiveBackend, batched, crashes,
                         pc, stop, newLedger, builder>>
      BY <1>10, FetchStoreEffect DEF config, thread
    <2>2. In(writableBackend) \subseteq disk'[writableBackend] \cup pending'[writableBackend]
      BY <2>1 DEF Grown, In
    <2>3. pc \in Rotating \ {"swapping"} => pending'[archiveBackend] = pending[archiveBackend]
      BY <2>1, RotatingNames DEF Grown
    <2>4. InRotation' <=> InRotation
      BY <2>1 DEF InRotation
    <2> QED BY <2>1, <2>2, <2>3, <2>4, TargetQuiet DEF Safe
  <1>11. ASSUME NEW d \in DOMAIN disk, WriteBatch(d) PROVE CopyTarget'
    <2>1. /\ Grown(d) /\ pending'[d] = {}
          /\ UNCHANGED <<validated, writableBackend, archiveBackend, batched, crashes,
                         pc, stop, newLedger, builder>>
      BY <1>11, WriteGrown DEF WriteBatch, config, thread, server
    <2>2. InRotation' <=> InRotation
      BY <2>1 DEF InRotation
    <2>3. InRotation => writableBackend \in DOMAIN disk
      <3>1. CASE pc = "woken"
        BY <3>1 DEF NamesInv, Running, Locked
      <3>2. CASE pc = "swapping"
        BY <3>2 DEF NamesInv, Running, Locked
      <3>3. CASE pc \in Rotating \ {"swapping"}
        BY <3>3, RotatingNames
      <3> QED BY <3>1, <3>2, <3>3 DEF InRotation
    <2>4. InRotation =>
            In(writableBackend) \subseteq disk'[writableBackend] \cup pending'[writableBackend]
      BY <2>1, <2>3 DEF Grown, In
    <2>5. pc \in Rotating \ {"swapping"} /\ pending[archiveBackend] = {} =>
            pending'[archiveBackend] = {}
      BY <2>1, RotatingNames DEF Grown
    <2> QED BY <2>1, <2>2, <2>4, <2>5, TargetQuiet DEF Safe
  <1>12. CASE UNCHANGED vars
    <2>1. Aside
      BY <1>12 DEF vars, Aside, server
    <2> QED BY <2>1, <1>7
  <1> QED BY <1>1, <1>2, <1>3, <1>4, <1>5, <1>6, <1>7, <1>8, <1>9, <1>10, <1>11,
             <1>12, NextCases, FetchCases, BeginOnlyReader, SavingAside
          DEF CopyNode, Ending

LEMMA DataIdle ==
  ASSUME pc' \notin Rotating \ {"swapping"}
  PROVE  CopyData'
  BY DEF CopyData, CopyDone, Rotating

(* A step that adds to the writable backend, at most. *)
LEMMA DataQuiet ==
  ASSUME CopyData, UNCHANGED <<validated, validatedLedger, toCopy, writableBackend, pc>>,
         Safe' => Safe, CopyDone' => CopyDone,
         pc \in Rotating => In(writableBackend) \subseteq
           disk'[writableBackend] \cup pending'[writableBackend]
  PROVE  CopyData'
  <1> SUFFICES ASSUME Safe' PROVE CopyData'
    BY DEF CopyData
  <1>1. pc \in {"clearPrior", "clearSql", "cleared", "copy"} \/ CopyDone => pc \in Rotating
    BY DEF CopyDone, Rotating
  <1> QED BY <1>1 DEF CopyData, Since, In

(* A step of the rotation that does not touch the backends. *)
LEMMA DataMove ==
  ASSUME StoreInv,
         UNCHANGED <<validated, validatedLedger, writableBackend, disk, pending,
                     batched, crashes>>,
         \/ /\ pc \in {"clearPrior", "clearSql", "cleared"}
            /\ pc' \in {"clearSql", "cleared", "top", "stopped"}
         \/ CopyDone /\ pc' \in {"freshen", "fresh", "newBackend", "save", "rotating",
                                 "top", "stopped"}
         \/ pc' \in {"top", "stopped"}
  PROVE  CopyData'
  <1> SUFFICES ASSUME Safe' PROVE CopyData'
    BY DEF CopyData
  <1>1. Safe /\ CopyData
    BY DEF Safe, StoreInv, CopyInv
  <1>2. CASE pc' \in {"top", "stopped"}
    BY <1>2, DataIdle DEF Rotating
  <1>3. CASE pc \in {"clearPrior", "clearSql", "cleared"} /\ pc' \in {"clearSql", "cleared"}
    BY <1>1, <1>3 DEF CopyData, CopyDone, Since, In
  <1>4. CASE CopyDone /\ pc' \in {"freshen", "fresh", "newBackend", "save", "rotating"}
    BY <1>1, <1>4 DEF CopyData, CopyDone, Since, In
  <1> QED BY <1>2, <1>3, <1>4

LEMMA DataStep == ASSUME StoreInv, [Next]_vars PROVE CopyData'
  <1> USE DEF StoreInv, CopyInv
  <1>t. healthy \in BOOLEAN /\ stop \in BOOLEAN
    BY DEF TypeOK
  <1>n. validated \in Nat /\ validatedLedger \in Nat /\ validatedLedger <= validated
    BY NatType DEF SqlInv
  <1>1. CASE Top \/ WakeWithoutLedger \/ DeleteOld \/ Ending \/ DbPaths
             \/ MakeDatabase \/ StartRun \/ Rotate
    <2>1. pc' \in {"stopped", "waiting", "top", "down", "make", "setState",
                   "swapping", "delete"}
      BY <1>1, EndEffect, DbPathsEffect, MakeEffect
         DEF Top, TopStep, WakeWithoutLedger, DeleteOld, StartRun, MemoryLost,
             Rotate, RotateBackends
    <2> QED BY <2>1, DataIdle DEF Rotating
  <1>2. CASE ClearPrior \/ ClearSql \/ Copied \/ NothingToVisit \/ Freshened \/ Save
    <2>1. UNCHANGED <<validated, validatedLedger, writableBackend, disk, pending,
                      batched, crashes>>
      BY <1>2 DEF ClearPrior, ClearSql, Copied, NothingToVisit,
         Freshened, Save, server, nodeStore, config
    <2>2. \/ /\ pc \in {"clearPrior", "clearSql", "cleared"}
             /\ pc' \in {"clearSql", "cleared", "top", "stopped"}
          \/ CopyDone /\ pc' \in {"freshen", "fresh", "newBackend", "save", "rotating",
                                  "top", "stopped"}
          \/ pc' \in {"top", "stopped"}
      <3>1. CASE ClearPrior
        BY <1>t, <3>1, HealthEffect DEF ClearPrior
      <3>2. CASE ClearSql
        BY <1>t, <3>2, HealthEffect DEF ClearSql
      <3>3. CASE Copied \/ Freshened
        BY <1>t, <3>3, SwitchEffect DEF Copied, Freshened, CopyDone
      <3>4. CASE NothingToVisit \/ Save
        BY <3>4 DEF NothingToVisit, Save, CopyDone
      <3> QED BY <1>2, <3>1, <3>2, <3>3, <3>4
    <2> QED BY <2>1, <2>2, DataMove
  <1>3. CASE Cleared
    <2>1. /\ pc = "cleared" /\ toCopy' = StateMap[validatedLedger]
          /\ pc' \in {"copy", "stopped", "top"}
          /\ UNCHANGED <<validated, validatedLedger, writableBackend, disk, pending,
                      batched, crashes>>
      BY <1>3, <1>t, SwitchEffect DEF Cleared, server, nodeStore, config
    <2>2. Safe' => Safe
      BY <2>1 DEF Safe
    <2> QED BY <2>1, <2>2 DEF CopyData, CopyDone, Since, In
  <1>4. CASE TakeLedger
    <2>1. /\ pc = "woken" /\ newLedger = validated /\ validatedLedger' = newLedger
          /\ UNCHANGED validated
      BY <1>4 DEF TakeLedger, SqlInv, server
    <2>2. pc' \in {"top", "stopped", "clearPrior"}
      <3>1. CASE ShouldRotate(newLedger, lastRotated') /\ Fresh # {}
        BY <1>4, <1>t, <3>1, SwitchEffect DEF TakeLedger
      <3>2. CASE ~ (ShouldRotate(newLedger, lastRotated') /\ Fresh # {})
        BY <1>4, <3>2 DEF TakeLedger
      <3> QED BY <3>1, <3>2
    <2>3. \A s \in 1 .. validated' : s >= validatedLedger' => s = validatedLedger'
      BY <1>n, <2>1
    <2> QED BY <2>2, <2>3 DEF CopyData, CopyDone, Since
  <1>5. CASE CopyNode
    <2>1. /\ pc = "copy" /\ Visit("copy", "copied")
      BY <1>5 DEF CopyNode, Visit
    <2>2. /\ writableBackend \in DOMAIN disk /\ archiveBackend \in DOMAIN disk
          /\ Grown(writableBackend)
          /\ healthy' \in BOOLEAN
          /\ \/ toCopy' = {} /\ pc' = "copied"
             \/ toCopy' # {} /\ pc' = "copy"
             \/ pc' = "copied" /\ (stop \/ ~ healthy')
          /\ UNCHANGED <<config, state_db, sql, writableBackend, archiveBackend,
                 lastRotated, validatedLedger, backends, canDelete,
                 newLedger, stop, server>>
      BY <2>1, VisitEffect
    <2>3. PICK n \in toCopy :
              /\ toCopy' = toCopy \ {n}
              /\ n \in disk[archiveBackend] =>
                   n \in disk'[writableBackend] \cup pending'[writableBackend]
      BY <2>1, VisitEffect
    <2> SUFFICES ASSUME Safe' PROVE CopyData'
      BY DEF CopyData
    <2>4. UNCHANGED <<validated, validatedLedger, writableBackend, stop, state_db>>
          /\ Safe
      BY <2>2 DEF Safe, server, config
    <2>5. toCopy \subseteq StateMap[validatedLedger] /\ Since(In(writableBackend) \cup toCopy)
      BY <2>1, <2>4 DEF CopyData
    <2>6. /\ state_db.lastRotated <= validatedLedger /\ validatedLedger # 0
          /\ pending[archiveBackend] = {}
          /\ writableBackend = wdb /\ archiveBackend = adb /\ wdb # None
      BY <2>1 DEF SqlInv, CopyTarget, NamesInv, Running, Locked, Rotating
    <2>7. StateMap[validatedLedger] \subseteq Stored
      <3>1. validatedLedger \in 1 .. validated /\ validatedLedger >= state_db.lastRotated
        BY <1>n, <2>6, NatType
      <3> QED BY <2>4, <2>6, <3>1 DEF LedgersInv
    <2>8. n \in disk'[writableBackend] \cup pending'[writableBackend]
      BY <2>2, <2>3, <2>5, <2>6, <2>7 DEF Stored, In, Grown
    <2>9. In(writableBackend) \cup toCopy \subseteq
            disk'[writableBackend] \cup pending'[writableBackend] \cup toCopy'
      BY <2>2, <2>3, <2>8 DEF In, Grown
    <2>10. \A s \in 1 .. validated' : s >= validatedLedger' => StateMap[s] \subseteq
             disk'[writableBackend'] \cup pending'[writableBackend'] \cup toCopy'
      BY <2>4, <2>5, <2>9 DEF Since
    <2>11. toCopy' \subseteq StateMap[validatedLedger']
      BY <2>3, <2>4, <2>5
    <2>12. CASE toCopy' = {} /\ pc' = "copied"
      BY <2>10, <2>12 DEF CopyData, CopyDone, Since, In
    <2>13. CASE pc' = "copy"
      BY <2>10, <2>11, <2>13 DEF CopyData, CopyDone, Since, In
    <2>14. CASE pc' = "copied" /\ (stop \/ ~ healthy')
      BY <2>4, <2>14 DEF CopyData, CopyDone
    <2> QED BY <2>2, <2>12, <2>13, <2>14
  <1>6. CASE Visit("freshen", "fresh")
    <2>1. /\ pc = "freshen" /\ pc' \in {"freshen", "fresh"}
          /\ writableBackend \in DOMAIN disk /\ Grown(writableBackend)
          /\ UNCHANGED <<validated, validatedLedger, writableBackend, batched, crashes>>
      BY <1>6, VisitEffect DEF Visit, server, config
    <2>2. In(writableBackend) \subseteq disk'[writableBackend] \cup pending'[writableBackend]
      BY <2>1 DEF Grown, In
    <2>3. Safe' => Safe
      BY <2>1 DEF Safe
    <2> QED BY <2>1, <2>2, <2>3 DEF CopyData, CopyDone, Since, In
  <1>7. CASE NewBackend
    <2>1. UNCHANGED <<validated, validatedLedger, writableBackend, batched, crashes>>
          /\ pc = "newBackend"
      BY <1>7 DEF NewBackend, server, config
    <2>2. /\ pc' \in {"save", "stopped", "top"}
          /\ \A d \in DOMAIN disk : disk'[d] = disk[d] /\ pending'[d] = pending[d]
      BY <1>7, NewBackendEffect
    <2>3. writableBackend \in DOMAIN disk
      BY <2>1, RotatingNames DEF Rotating
    <2>4. Safe' => Safe
      BY <2>1 DEF Safe
    <2> QED BY <2>1, <2>2, <2>3, <2>4 DEF CopyData, CopyDone, Since, In
  <1>8. CASE OnStop \/ Aside \/ StoreBegin
             \/ (\E seq \in CanDeletes : SetCanDelete(seq))
    <2>1. /\ UNCHANGED <<validated, validatedLedger, toCopy, writableBackend, batched,
                         crashes, healthy, disk, pending>>
          /\ pc' = pc \/ pc' = "woken"
          /\ stop => stop'
      BY <1>8 DEF OnStop, Aside, StoreBegin, SetCanDelete, server, nodeStore,
         config, thread
    <2>2. CASE pc' = "woken"
      BY <2>2, DataIdle DEF Rotating
    <2>3. CASE pc' = pc
      <3>1. CopyDone' => CopyDone
        BY <2>1, <2>3 DEF CopyDone
      <3> QED BY <2>1, <2>3, <3>1, DataQuiet DEF Safe, In
    <2> QED BY <2>1, <2>2, <2>3
  <1>9. CASE StoreEnd
    <2>1. builder.target \in DOMAIN disk /\ Grown(builder.target)
      BY <1>9, StoreEndEffect
    <2>2. /\ UNCHANGED <<validated, validatedLedger, toCopy, writableBackend, batched,
                         crashes, healthy, stop, pc>>
          /\ builder.target # None
      BY <1>9 DEF StoreEnd, config, thread
    <2>3. pc \in Rotating => builder.target = writableBackend
      BY <2>2 DEF CopyTarget, InRotation
    <2>4. pc \in Rotating => In(writableBackend) \subseteq
            disk'[writableBackend] \cup pending'[writableBackend]
      BY <2>1, <2>3 DEF Grown, In
    <2>5. CopyDone' => CopyDone
      BY <2>2 DEF CopyDone
    <2> QED BY <2>2, <2>4, <2>5, DataQuiet DEF Safe
  <1>10. CASE OnLedgerClosed
    <2>1. /\ UNCHANGED <<disk, pending, batched, crashes, writableBackend,
                         validatedLedger, toCopy, healthy, stop>>
          /\ pc' = pc \/ pc' = "woken"
          /\ builder.unsaved = {} /\ validated < LastSeq /\ validated' = validated + 1
      BY <1>10 DEF OnLedgerClosed, nodeStore, config
    <2>2. CASE pc' = "woken"
      BY <2>2, DataIdle DEF Rotating
    <2>3. CASE pc' = pc /\ pc \notin Rotating
      BY <2>3, DataIdle
    <2>4. CASE pc' = pc /\ pc \in Rotating
      <3> SUFFICES ASSUME Safe' PROVE CopyData'
        BY DEF CopyData
      <3>1. Safe /\ (CopyDone' <=> CopyDone)
        BY <2>1, <2>4 DEF Safe, CopyDone
      <3>2. NewNodes(validated + 1) \subseteq In(writableBackend)
        BY <2>1, <2>4, <3>1 DEF CopyTarget, InRotation
      <3>3. validatedLedger # 0
        BY <2>4 DEF SqlInv
      <3>4. StateMap[validated + 1] \subseteq StateMap[validated] \cup NewNodes(validated + 1)
        <4>1. validated + 1 \in Nat /\ validated + 1 >= 1 /\ validated + 1 <= LastSeq
              /\ validated # 0
          BY <1>n, <2>1, <3>3, SeqType
        <4>2. StateMap[validated + 1] \subseteq
                StateMap[validated + 1 - 1] \cup NewNodes(validated + 1)
          BY <1>n, <4>1, NewNodesOf
        <4>3. validated + 1 - 1 = validated
          BY <1>n
        <4> QED BY <4>2, <4>3
      <3>5. validated \in 1 .. validated /\ validated >= validatedLedger
        BY <1>n, <3>3
      <3>6. ASSUME NEW S, Since(S), In(writableBackend) \subseteq S
            PROVE  \A s \in 1 .. validated' : s >= validatedLedger' => StateMap[s] \subseteq S
        <4>1. StateMap[validated] \subseteq S
          BY <3>5, <3>6 DEF Since
        <4>2. StateMap[validated + 1] \subseteq S
          BY <3>2, <3>4, <3>6, <4>1
        <4> TAKE s \in 1 .. validated'
        <4>3. s \in 1 .. validated \/ s = validated + 1
          BY <1>n, <2>1
        <4> QED BY <2>1, <3>6, <4>2, <4>3 DEF Since
      <3>7. CASE pc \in {"clearPrior", "clearSql", "cleared"}
        <4>1. Since(In(writableBackend) \cup StateMap[validatedLedger])
          BY <3>1, <3>7 DEF CopyData
        <4>2. \A s \in 1 .. validated' : s >= validatedLedger' =>
                StateMap[s] \subseteq In(writableBackend) \cup StateMap[validatedLedger]
          BY <3>6, <4>1
        <4> QED BY <2>1, <2>4, <3>7, <4>2 DEF CopyData, CopyDone, Since, In
      <3>8. CASE pc = "copy"
        <4>1. Since(In(writableBackend) \cup toCopy) /\ toCopy \subseteq StateMap[validatedLedger]
          BY <3>1, <3>8 DEF CopyData
        <4>2. \A s \in 1 .. validated' : s >= validatedLedger' =>
                StateMap[s] \subseteq In(writableBackend) \cup toCopy
          BY <3>6, <4>1
        <4> QED BY <2>1, <2>4, <3>8, <4>1, <4>2 DEF CopyData, CopyDone, Since, In
      <3>9. CASE CopyDone
        <4>1. Since(In(writableBackend))
          BY <3>1, <3>9 DEF CopyData
        <4>2. \A s \in 1 .. validated' : s >= validatedLedger' =>
                StateMap[s] \subseteq In(writableBackend)
          BY <3>6, <4>1
        <4>3. pc \notin {"clearPrior", "clearSql", "cleared", "copy"}
          BY <3>9 DEF CopyDone
        <4>4. pc' \notin {"clearPrior", "clearSql", "cleared"} /\ pc' # "copy"
          BY <2>4, <4>3
        <4>5. \A s \in 1 .. validated' : s >= validatedLedger' =>
                StateMap[s] \subseteq disk'[writableBackend'] \cup pending'[writableBackend']
          BY <2>1, <4>2 DEF In
        <4> QED BY <4>4, <4>5 DEF CopyData, Since, In
      <3>10. CASE pc \notin {"clearPrior", "clearSql", "cleared", "copy"} /\ ~ CopyDone
        BY <2>4, <3>1, <3>10 DEF CopyData
      <3> QED BY <3>7, <3>8, <3>9, <3>10
    <2> QED BY <2>1, <2>2, <2>3, <2>4
  <1>11. ASSUME NEW r \in Readers, FetchStore(r) PROVE CopyData'
    <2>1. /\ writableBackend \in DOMAIN disk /\ Grown(writableBackend)
          /\ UNCHANGED <<validated, validatedLedger, toCopy, writableBackend, batched,
                         crashes, healthy, stop, pc>>
      BY <1>11, FetchStoreEffect DEF config, thread
    <2>2. In(writableBackend) \subseteq disk'[writableBackend] \cup pending'[writableBackend]
      BY <2>1 DEF Grown, In
    <2>3. CopyDone' => CopyDone
      BY <2>1 DEF CopyDone
    <2> QED BY <2>1, <2>2, <2>3, DataQuiet DEF Safe
  <1>12. ASSUME NEW d \in DOMAIN disk, WriteBatch(d) PROVE CopyData'
    <2>1. /\ Grown(d)
          /\ UNCHANGED <<validated, validatedLedger, toCopy, writableBackend, batched,
                         crashes, healthy, stop, pc>>
      BY <1>12, WriteGrown DEF WriteBatch, config, thread, server
    <2>2. CASE pc \in Rotating \ {"swapping"}
      <3>1. In(writableBackend) \subseteq disk'[writableBackend] \cup pending'[writableBackend]
        BY <2>1, <2>2, RotatingNames DEF Grown, In
      <3>2. CopyDone' => CopyDone
        BY <2>1 DEF CopyDone
      <3> QED BY <2>1, <3>1, <3>2, DataQuiet DEF Safe
    <2>3. CASE pc \notin Rotating \ {"swapping"}
      BY <2>1, <2>3, DataIdle
    <2> QED BY <2>2, <2>3
  <1>13. CASE UNCHANGED vars
    <2>1. Aside
      BY <1>13 DEF vars, Aside, server
    <2> QED BY <2>1, <1>8
  <1> QED BY <1>1, <1>2, <1>3, <1>4, <1>5, <1>6, <1>7, <1>8, <1>9, <1>10, <1>11,
             <1>12, <1>13, NextCases, FetchCases, BeginOnlyReader, SavingAside
          DEF Ending

-----------------------------------------------------------------------------
(* The fetches. *)

LEMMA KeptDef ==
  ASSUME NEW l, NEW n
  PROVE  n \in Kept(l) <=> \E s \in 1 .. validated : s >= l /\ n \in StateMap[s]
  BY DEF Kept

(* What is kept is in the two databases; in both of which run() is about   *)
(* to exchange, in the old writable one.                                   *)
LEMMA KeptStored ==
  ASSUME StoreInv, Safe, wdb # None
  PROVE  Kept(state_db.lastRotated) \subseteq Stored
  <1> SUFFICES ASSUME NEW n \in Kept(state_db.lastRotated) PROVE n \in Stored
    OBVIOUS
  <1>1. PICK s \in 1 .. validated : s >= state_db.lastRotated /\ n \in StateMap[s]
    BY KeptDef
  <1> QED BY <1>1 DEF StoreInv, LedgersInv

LEMMA LockedStored ==
  ASSUME StoreInv, Locked
  PROVE  Running /\ wdb # None /\ Stored = In(writableBackend)
  <1>1. Running /\ wdb # None
    BY DEF Locked, Running, StoreInv, NamesInv
  <1>2. /\ wdb = backends.new /\ adb = writableBackend
        /\ disk[backends.new] = {} /\ pending[backends.new] = {}
    BY DEF Locked, StoreInv, NamesInv
  <1> QED BY <1>1, <1>2 DEF Stored, In

LEMMA OpenStored ==
  ASSUME StoreInv, Running, ~ Locked
  PROVE  /\ wdb # None /\ Stored = In(writableBackend) \cup In(archiveBackend)
         /\ writableBackend \in DOMAIN disk /\ archiveBackend \in DOMAIN disk
  BY DEF StoreInv, NamesInv, Stored

LEMMA OnDisk ==
  ASSUME StoreInv, ~ batched, NEW d \in DOMAIN disk
  PROVE  In(d) = disk[d]
  BY DEF StoreInv, BuilderInv, In

LEMMA HeldBusy ==
  ASSUME TypeOK, NEW r \in Readers, reader[r].held
  PROVE  reader[r].at # "idle"
  <1>1. CASE reader[r] = NoFetch
    BY <1>1 DEF NoFetch
  <1>2. CASE reader[r] # NoFetch
    <2>1. reader[r] \in [at : {"writable", "archive", "store", "recheck"},
                    node : Nodes, held : BOOLEAN]
      BY <1>2 DEF TypeOK
    <2> QED BY <2>1
  <1> QED BY <1>1, <1>2

(* What FetchInv says of one reader. *)
FetchOf(r) ==
  /\ reader[r].at # "idle" => Running
  /\ ~ batched /\ reader[r].held =>
       /\ reader[r].node \in Stored
       /\ Locked => reader[r].node \in Kept(state_db.lastRotated)
       /\ reader[r].at = "archive" => reader[r].node \in disk[archiveBackend]
       /\ reader[r].at # "recheck"

LEMMA FetchReaders == FetchInv <=> \A r \in Readers : FetchOf(r)
  BY DEF FetchInv, FetchOf

LEMMA FetchReadersNext == FetchInv' <=> \A r \in Readers : FetchOf(r)'
  BY DEF FetchInv, FetchOf

(* A step that leaves a fetch and adds to the backends. *)
LEMMA FetchQuiet ==
  ASSUME StoreInv, NEW r \in Readers, reader'[r] = reader[r], UNCHANGED batched,
         Running => Running',
         Running /\ ~ batched => /\ Stored \subseteq Stored'
                                 /\ disk[archiveBackend] \subseteq disk'[archiveBackend],
         archiveBackend' = archiveBackend,
         Locked' => Locked,
         Locked' => Kept(state_db.lastRotated) \subseteq Kept(state_db.lastRotated)'
  PROVE  FetchOf(r)'
  <1>1. FetchOf(r)
    BY FetchReaders DEF StoreInv
  <1>2. reader[r].held => Running
    BY <1>1, HeldBusy DEF StoreInv, FetchOf
  <1>3. CASE ~ batched /\ reader[r].held
    <2>1. reader[r].node \in Stored'
      BY <1>1, <1>2, <1>3 DEF FetchOf
    <2>2. reader[r].at = "archive" => reader[r].node \in disk'[archiveBackend']
      BY <1>1, <1>2, <1>3 DEF FetchOf
    <2>3. Locked' => reader[r].node \in Kept(state_db.lastRotated)'
      BY <1>1, <1>3 DEF FetchOf
    <2> QED BY <1>1, <1>2, <1>3, <2>1, <2>2, <2>3 DEF FetchOf
  <1>4. CASE ~ (~ batched /\ reader[r].held)
    BY <1>1, <1>4 DEF FetchOf
  <1> QED BY <1>3, <1>4

LEMMA KeptSame ==
  ASSUME UNCHANGED validated, state_db'.lastRotated = state_db.lastRotated
  PROVE  Kept(state_db.lastRotated)' = Kept(state_db.lastRotated)
  BY DEF Kept

(* The archive that is being read. *)
LEMMA ArchiveOpen ==
  ASSUME StoreInv, Running
  PROVE  archiveBackend \in DOMAIN disk /\ wdb # None
  <1>1. CASE Locked
    BY <1>1 DEF StoreInv, NamesInv, Locked
  <1>2. CASE ~ Locked
    BY <1>2, OpenStored
  <1> QED BY <1>1, <1>2

LEMMA FetchGrown ==
  ASSUME StoreInv, NEW r \in Readers, reader'[r] = reader[r],
         UNCHANGED <<batched, archiveBackend, state_db, validated>>,
         Running => Running', Locked' => Locked,
         NEW d \in DOMAIN disk, Grown(d)
  PROVE  FetchOf(r)'
  <1>1. Running => archiveBackend \in DOMAIN disk /\ wdb # None
    BY ArchiveOpen
  <1>2. Running => Stored \subseteq Stored'
    BY <1>1, GrownStored DEF wdb, adb
  <1>3. Running => disk[archiveBackend] \subseteq disk'[archiveBackend]
    BY <1>1 DEF Grown
  <1>4. Kept(state_db.lastRotated)' = Kept(state_db.lastRotated)
    BY KeptSame
  <1> QED BY <1>2, <1>3, <1>4, FetchQuiet

LEMMA FetchStep == ASSUME StoreInv, [Next]_vars PROVE FetchInv'
  <1> USE DEF StoreInv
  <1> SUFFICES ASSUME NEW q \in Readers PROVE FetchOf(q)'
    BY FetchReadersNext
  <1>t. healthy \in BOOLEAN /\ stop \in BOOLEAN
    BY DEF TypeOK
  <1>q. FetchOf(q)
    BY FetchReaders
  <1>1. CASE Top \/ TakeLedger \/ WakeWithoutLedger \/ ClearPrior \/ ClearSql
             \/ Cleared \/ Copied \/ NothingToVisit \/ Freshened \/ OnStop
             \/ StoreBegin \/ UNCHANGED vars
             \/ (\E seq \in CanDeletes : SetCanDelete(seq))
    <2>1. /\ UNCHANGED <<validated, batched, disk, pending, archiveBackend, reader>>
          /\ wdb' = wdb /\ adb' = adb
      BY <1>1 DEF Top, TakeLedger, WakeWithoutLedger, ClearPrior, ClearSql, Cleared,
         Copied, NothingToVisit, Freshened, OnStop, StoreBegin, SetCanDelete, vars,
         server, nodeStore, config, TypeOK, wdb, adb
    <2>2. pc' = pc \/ (Running' /\ ~ Locked')
      <3>1. CASE Top \/ WakeWithoutLedger \/ NothingToVisit \/ OnStop \/ StoreBegin
                 \/ UNCHANGED vars \/ (\E seq \in CanDeletes : SetCanDelete(seq))
        BY <3>1 DEF Top, TopStep, WakeWithoutLedger, NothingToVisit, OnStop, StoreBegin,
           SetCanDelete, vars, thread, Running, Locked
      <3>2. CASE ClearPrior
        BY <1>t, <3>2, HealthEffect DEF ClearPrior, Running, Locked
      <3>3. CASE ClearSql
        BY <1>t, <3>3, HealthEffect DEF ClearSql, Running, Locked
      <3>4. CASE Cleared \/ Copied \/ Freshened
        BY <1>t, <3>4, SwitchEffect DEF Cleared, Copied, Freshened, Running, Locked
      <3>5. CASE TakeLedger
        <4>1. CASE ShouldRotate(newLedger, lastRotated') /\ Fresh # {}
          BY <3>5, <1>t, <4>1, SwitchEffect DEF TakeLedger, Running, Locked
        <4>2. CASE ~ (ShouldRotate(newLedger, lastRotated') /\ Fresh # {})
          BY <3>5, <4>2 DEF TakeLedger, Running, Locked
        <4> QED BY <4>1, <4>2
      <3> QED BY <1>1, <3>1, <3>2, <3>3, <3>4, <3>5
    <2>3. Stored' = Stored
      BY <2>1 DEF Stored, In
    <2>4. (Running => Running') /\ (Locked' => Locked)
      BY <2>2 DEF Running, Locked
    <2>5. Locked' => state_db'.lastRotated = state_db.lastRotated
      <3>1. CASE TakeLedger
        <4>1. ~ Locked
          BY <3>1 DEF TakeLedger, Locked
        <4> QED BY <2>4, <4>1
      <3>2. CASE \E seq \in CanDeletes : SetCanDelete(seq)
        BY <3>2 DEF SetCanDelete, TypeOK
      <3>3. CASE UNCHANGED state_db
        BY <3>3
      <3> QED BY <1>1, <3>1, <3>2, <3>3 DEF Top, WakeWithoutLedger, ClearPrior,
              ClearSql, Cleared, Copied, NothingToVisit, Freshened, OnStop,
              StoreBegin, vars
    <2>6. Locked' => Kept(state_db.lastRotated)' = Kept(state_db.lastRotated)
      BY <2>1, <2>5, KeptSame
    <2> QED BY <2>1, <2>3, <2>4, <2>6, FetchQuiet
  <1>2. ASSUME NEW here \in {"copy", "freshen"}, NEW done \in {"copied", "fresh"},
               Visit(here, done)
        PROVE  FetchOf(q)'
    <2>1. /\ pc = here /\ pc' \in {here, done}
          /\ writableBackend \in DOMAIN disk /\ Grown(writableBackend)
          /\ UNCHANGED <<validated, batched, archiveBackend, state_db, reader>>
      BY <1>2, VisitEffect DEF Visit, server, config
    <2>2. Running' /\ ~ Locked'
      BY <2>1 DEF Running, Locked
    <2> QED BY <2>1, <2>2, FetchGrown
  <1>3. CASE NewBackend
    <2>1. /\ UNCHANGED <<validated, batched, archiveBackend, state_db, reader>>
          /\ pc = "newBackend"
      BY <1>3 DEF NewBackend, server, config
    <2>2. /\ pc' \in {"save", "stopped", "top"}
          /\ \A d \in DOMAIN disk : disk'[d] = disk[d] /\ pending'[d] = pending[d]
      BY <1>3, NewBackendEffect
    <2>3. Running /\ Running' /\ ~ Locked'
      BY <2>1, <2>2 DEF Running, Locked
    <2>4. archiveBackend \in DOMAIN disk /\ wdb # None
      BY <2>3, ArchiveOpen
    <2>5. Stored' = Stored
      BY <2>1, <2>2, <2>4, SameStored DEF NamesInv, wdb, adb
    <2> QED BY <2>1, <2>2, <2>3, <2>4, <2>5, FetchQuiet
  <1>4. CASE Save
    <2>1. /\ pc = "save" /\ pc' = "rotating"
          /\ UNCHANGED <<disk, pending, archiveBackend, writableBackend, validated, batched>>
          /\ adb' = writableBackend /\ state_db'.lastRotated = validatedLedger
      BY <1>4 DEF Save, SavedAfterRotation, TypeOK, nodeStore, config, adb
    <2> DEFINE h == reader[q].held /\ reader[q].node \in Kept(validatedLedger)
    <2>2. reader'[q] = [reader[q] EXCEPT !.held = h]
      BY <1>4 DEF Save
    <2>3. /\ reader'[q].at = reader[q].at /\ reader'[q].node = reader[q].node
          /\ reader'[q].held = h
      <3>1. reader[q] \in {NoFetch} \cup
                     [at : {"writable", "archive", "store", "recheck"},
                      node : Nodes, held : BOOLEAN]
        BY DEF TypeOK
      <3>2. NoFetch \in [at : {"idle"}, node : {None}, held : BOOLEAN]
        BY DEF NoFetch
      <3> HIDE DEF h
      <3>3. CASE reader[q] = NoFetch
        BY <2>2, <3>2, <3>3
      <3>4. CASE reader[q] \in [at : {"writable", "archive", "store", "recheck"},
                      node : Nodes, held : BOOLEAN]
        BY <2>2, <3>4
      <3> QED BY <3>1, <3>3, <3>4
    <2>4. Running'
      BY <2>1 DEF Running
    <2>5. CASE ~ batched /\ h
      <3>1. Kept(state_db.lastRotated)' = Kept(validatedLedger)
        BY <2>1 DEF Kept
      <3>2. Safe
        BY <2>5 DEF Safe
      <3>3. reader[q].node \in In(writableBackend)
        <4>1. PICK s \in 1 .. validated : s >= validatedLedger /\ reader[q].node \in StateMap[s]
          BY <2>5, KeptDef
        <4>2. Since(In(writableBackend))
          BY <2>1, <3>2 DEF CopyInv, CopyData, CopyDone
        <4> QED BY <4>1, <4>2 DEF Since
      <3>4. reader[q].node \in Stored'
        BY <2>1, <3>3 DEF Stored, In
      <3> QED BY <1>q, <2>1, <2>3, <2>4, <2>5, <3>1, <3>4 DEF FetchOf
    <2>6. CASE ~ (~ batched /\ h)
      <3>1. batched' \/ ~ reader'[q].held
        BY <2>1, <2>3, <2>6
      <3> QED BY <2>4, <3>1 DEF FetchOf
    <2> QED BY <2>5, <2>6
  <1>5. CASE Rotate
    <2>1. UNCHANGED <<disk, pending, state_db, validated, batched, reader>>
      BY <1>5 DEF Rotate, server, config
    <2>2. Stored' = Stored /\ Kept(state_db.lastRotated)' = Kept(state_db.lastRotated)
      BY <2>1, KeptSame DEF Stored, In, wdb, adb
    <2>3. CASE pc = "rotating"
      <3>1. pc' = "swapping" /\ archiveBackend' = writableBackend
        BY <1>5, <2>3 DEF Rotate, RotateBackends
      <3>2. Running' /\ Locked
        BY <2>3, <3>1 DEF Running, Locked
      <3>3. ~ batched /\ reader[q].held => reader[q].node \in disk[writableBackend]
        <4> SUFFICES ASSUME ~ batched, reader[q].held
                     PROVE  reader[q].node \in disk[writableBackend]
          OBVIOUS
        <4>1. reader[q].node \in Stored
          BY <1>q DEF FetchOf
        <4>2. writableBackend \in DOMAIN disk
          BY <2>3, RotatingNames DEF Rotating
        <4> QED BY <3>2, <4>1, <4>2, LockedStored, OnDisk
      <3> QED BY <1>q, <2>1, <2>2, <3>1, <3>2, <3>3 DEF FetchOf
    <2>4. CASE pc = "swapping"
      <3>1. pc' = "delete" /\ archiveBackend' = archiveBackend
        BY <1>5, <2>4 DEF Rotate, RotateBackends
      <3>2. Running' /\ ~ Locked'
        BY <3>1 DEF Running, Locked
      <3> QED BY <2>1, <2>2, <3>1, <3>2, FetchQuiet
    <2> QED BY <1>5, <2>3, <2>4 DEF Rotate, RotateBackends
  <1>6. CASE DeleteOld
    <2>1. /\ UNCHANGED <<validated, batched, archiveBackend, state_db, reader>>
          /\ pc = "delete" /\ pc' = "top" /\ backends.old \notin {wdb, adb}
          /\ \A d \in DOMAIN disk \ {backends.old} :
               disk'[d] = disk[d] /\ pending'[d] = pending[d]
      BY <1>6, DeleteEffect DEF DeleteOld, server, config
    <2>2. Running /\ ~ Locked /\ Running' /\ ~ Locked'
      BY <2>1 DEF Running, Locked
    <2>3. wdb # None /\ {wdb, adb} \subseteq DOMAIN disk /\ archiveBackend = adb
      BY <2>2 DEF NamesInv
    <2>4. Stored' = Stored /\ disk'[archiveBackend] = disk[archiveBackend]
      BY <2>1, <2>3, SameStored DEF wdb, adb
    <2> QED BY <2>1, <2>2, <2>4, FetchQuiet
  <1>7. CASE StoreEnd
    <2>1. builder.target \in DOMAIN disk /\ Grown(builder.target)
      BY <1>7, StoreEndEffect
    <2>2. UNCHANGED <<validated, batched, archiveBackend, state_db, reader, pc>>
      BY <1>7 DEF StoreEnd, config, thread
    <2> QED BY <2>1, <2>2, FetchGrown DEF Running, Locked
  <1>8. CASE OnLedgerClosed
    <2>1. /\ UNCHANGED <<disk, pending, batched, archiveBackend, state_db, reader>>
          /\ pc' = pc \/ pc' = "woken"
          /\ validated' = validated + 1
      BY <1>8 DEF OnLedgerClosed, nodeStore, config
    <2>2. (Running => Running') /\ (Locked' => Locked)
      BY <2>1 DEF Running, Locked
    <2>3. Stored' = Stored
      BY <2>1 DEF Stored, In, wdb, adb
    <2>4. Kept(state_db.lastRotated) \subseteq Kept(state_db.lastRotated)'
      <3>1. 1 .. validated \subseteq 1 .. validated'
        BY <2>1, NatType
      <3> QED BY <2>1, <3>1 DEF Kept
    <2> QED BY <2>1, <2>2, <2>3, <2>4, FetchQuiet
  <1>9. ASSUME NEW r \in Readers, NEW n \in Nodes, FetchBegin(r, n) PROVE FetchOf(q)'
    <2>1. OnlyReader /\ Running /\ ~ Locked
      BY <1>9, BeginOnlyReader DEF FetchBegin
    <2>2. /\ UNCHANGED <<disk, pending, batched, archiveBackend, state_db, validated, pc>>
      BY <2>1 DEF OnlyReader, Aside, nodeStore, config, thread
    <2>3. Stored' = Stored /\ Running' /\ ~ Locked'
      BY <2>1, <2>2 DEF Stored, In, wdb, adb, Running, Locked
    <2> DEFINE h == n \in Kept(state_db.lastRotated)
    <2>4. reader' = [reader EXCEPT ![r] = [at |-> "writable", node |-> n, held |-> h]]
      BY <1>9 DEF FetchBegin
    <2>5. reader \in [Readers -> {NoFetch} \cup
                   [at : {"writable", "archive", "store", "recheck"},
                    node : Nodes, held : BOOLEAN]]
      BY DEF TypeOK
    <2>6. CASE q = r
      <3>1. reader'[q].node = n /\ reader'[q].held = h /\ reader'[q].at = "writable"
        <4> HIDE DEF h
        <4> QED BY <2>4, <2>5, <2>6
      <3>2. ~ batched /\ h => n \in Stored
        <4>1. ~ batched => Safe
          BY DEF Safe
        <4> QED BY <2>1, <4>1, KeptStored, OpenStored
      <3> HIDE DEF h
      <3> QED BY <2>2, <2>3, <3>1, <3>2 DEF FetchOf
    <2>7. CASE q # r
      <3>1. reader'[q] = reader[q]
        <4> HIDE DEF h
        <4> QED BY <2>4, <2>5, <2>7
      <3> QED BY <2>2, <2>3, <3>1, FetchQuiet
    <2> QED BY <2>6, <2>7
  <1>10. ASSUME NEW r \in Readers, OnlyReader,
                FetchWritable(r) \/ FetchArchive(r) \/ FetchGiveUp(r)
         PROVE  FetchOf(q)'
    <2>1. UNCHANGED <<disk, pending, batched, archiveBackend, state_db, validated, pc>>
      BY <1>10 DEF OnlyReader, Aside, nodeStore, config, thread
    <2>2. /\ Stored' = Stored /\ (Running' <=> Running) /\ (Locked' <=> Locked)
          /\ Kept(state_db.lastRotated)' = Kept(state_db.lastRotated)
      BY <2>1, KeptSame DEF Stored, In, wdb, adb, Running, Locked
    <2>3. reader \in [Readers -> {NoFetch} \cup
                   [at : {"writable", "archive", "store", "recheck"},
                    node : Nodes, held : BOOLEAN]]
      BY DEF TypeOK
    <2>4. \/ reader' = [reader EXCEPT ![r] = NoFetch]
          \/ \E at \in {"archive", "store", "recheck"} :
               reader' = [reader EXCEPT ![r].at = at]
      BY <1>10 DEF FetchWritable, FetchArchive, FetchGiveUp, Return, Goto
    <2>5. CASE q # r
      <3>1. reader'[q] = reader[q]
        BY <2>3, <2>4, <2>5
      <3> QED BY <2>1, <2>2, <3>1, FetchQuiet
    <2>6. CASE q = r /\ reader' = [reader EXCEPT ![r] = NoFetch]
      <3>1. reader'[q] = NoFetch
        BY <2>3, <2>6
      <3> QED BY <3>1 DEF FetchOf, NoFetch
    <2>7. ASSUME q = r, NEW at \in {"archive", "store", "recheck"},
                 reader' = [reader EXCEPT ![r].at = at], at # "idle",
                 reader' # [reader EXCEPT ![r] = NoFetch]
          PROVE  FetchOf(q)'
      <3>1. \/ /\ FetchWritable(r) /\ at = "archive" /\ reader[q].at = "writable"
               /\ reader[q].node \notin disk[writableBackend]
            \/ /\ FetchArchive(r) /\ reader[q].at = "archive"
               /\ at # "archive"
               /\ reader[q].node \in disk[archiveBackend] => at = "store"
        <4>1. reader[q].at # "idle" =>
                reader[q] \in [at : {"writable", "archive", "store", "recheck"},
                               node : Nodes, held : BOOLEAN]
          BY <2>3 DEF NoFetch
        <4>2. reader[q].at # "idle" => reader'[q].at = at
          BY <2>3, <2>7, <4>1
        <4>3. CASE FetchGiveUp(r)
          BY <2>7, <4>3 DEF FetchGiveUp, Return
        <4>4. CASE FetchWritable(r)
          <5>1. /\ reader[q].at = "writable"
                /\ reader[q].node \notin disk[writableBackend]
                /\ reader' = [reader EXCEPT ![r].at = "archive"]
            BY <2>7, <4>4 DEF FetchWritable, Return, Goto, BackendAt
          <5>2. reader'[q].at = "archive"
            BY <2>3, <2>7, <4>1, <5>1
          <5> QED BY <4>2, <4>4, <5>1, <5>2
        <4>5. CASE FetchArchive(r)
          <5> DEFINE next == IF reader[r].node \in disk[archiveBackend]
                               THEN "store" ELSE "recheck"
          <5>1. reader[q].at = "archive" /\ reader' = [reader EXCEPT ![r].at = next]
            BY <2>7, <4>5 DEF FetchArchive, Goto, BackendAt
          <5>2. next \in {"store", "recheck"}
                /\ (reader[q].node \in disk[archiveBackend] => next = "store")
            BY <2>7
          <5> HIDE DEF next
          <5>3. reader'[q].at = next
            BY <2>3, <2>7, <4>1, <5>1
          <5> QED BY <4>2, <4>5, <5>1, <5>2, <5>3
        <4> QED BY <1>10, <4>3, <4>4, <4>5
      <3>2. reader[q] \in [at : {"writable", "archive", "store", "recheck"},
                           node : Nodes, held : BOOLEAN]
        BY <2>3, <3>1 DEF NoFetch
      <3>3. /\ reader'[q].at = at /\ reader'[q].node = reader[q].node
            /\ reader'[q].held = reader[q].held
        BY <2>3, <2>7, <3>2
      <3>4. Running
        BY <1>q, <3>1 DEF FetchOf
      <3>5. CASE ~ batched /\ reader[q].held
        <4>1. /\ reader[q].node \in Stored
              /\ Locked => reader[q].node \in Kept(state_db.lastRotated)
              /\ reader[q].at = "archive" => reader[q].node \in disk[archiveBackend]
          BY <1>q, <3>5 DEF FetchOf
        <4>2. at = "archive" => reader[q].node \in disk[archiveBackend]
          <5> SUFFICES ASSUME at = "archive"
                       PROVE  reader[q].node \in disk[archiveBackend]
            OBVIOUS
          <5>1. reader[q].node \notin disk[writableBackend]
            BY <3>1
          <5>2. CASE Locked
            <6>1. writableBackend \in DOMAIN disk
              BY <5>2, LockedStored DEF NamesInv
            <6> QED BY <3>5, <4>1, <5>1, <5>2, <6>1, LockedStored, OnDisk
          <5>3. CASE ~ Locked
            BY <3>4, <3>5, <4>1, <5>1, <5>3, OpenStored, OnDisk
          <5> QED BY <5>2, <5>3
        <4>3. at # "recheck"
          BY <3>1, <4>1
        <4> QED BY <2>1, <2>2, <3>3, <3>4, <4>1, <4>2, <4>3 DEF FetchOf
      <3>6. CASE ~ (~ batched /\ reader[q].held)
        BY <2>1, <2>2, <3>3, <3>4, <3>6 DEF FetchOf
      <3> QED BY <3>5, <3>6
    <2> QED BY <2>4, <2>5, <2>6, <2>7
  <1>11. ASSUME NEW r \in Readers, FetchStore(r) PROVE FetchOf(q)'
    <2>1. /\ writableBackend \in DOMAIN disk /\ Grown(writableBackend)
          /\ UNCHANGED <<batched, archiveBackend, state_db, validated, pc>>
          /\ reader' = [reader EXCEPT ![r] = NoFetch]
      BY <1>11, FetchStoreEffect DEF config, thread
    <2>2. reader'[q] = IF q = r THEN NoFetch ELSE reader[q]
      BY <2>1 DEF TypeOK
    <2>3. CASE q = r
      BY <2>2, <2>3 DEF FetchOf, NoFetch
    <2>4. CASE q # r
      BY <2>1, <2>2, <2>4, FetchGrown DEF Running, Locked
    <2> QED BY <2>3, <2>4
  <1>12. ASSUME NEW d \in DOMAIN disk, WriteBatch(d) PROVE FetchOf(q)'
    <2>1. /\ Grown(d)
          /\ UNCHANGED <<batched, archiveBackend, state_db, validated, pc, reader>>
      BY <1>12, WriteGrown DEF WriteBatch, config, thread, server
    <2> QED BY <2>1, FetchGrown DEF Running, Locked
  <1>13. CASE Ending
    <2>1. reader'[q] = NoFetch
      BY <1>13, EndEffect DEF MemoryLost
    <2> QED BY <2>1 DEF FetchOf, NoFetch
  <1>14. CASE DbPaths \/ MakeDatabase \/ StartRun
    <2>1. UNCHANGED reader /\ ~ Running
      BY <1>14, MakeEffect DEF DbPaths, MakeDatabase, StartRun, server, Running
    <2>2. reader[q].at = "idle"
      BY <1>q, <2>1 DEF FetchOf
    <2>3. ~ reader[q].held
      BY <2>2, HeldBusy
    <2> QED BY <2>1, <2>2, <2>3 DEF FetchOf
  <1>15. CASE Saving
    <2>1. UNCHANGED <<disk, pending, batched, archiveBackend, state_db, validated, pc, reader>>
      BY <1>15, SavingAside DEF Aside, nodeStore, config, thread
    <2>2. /\ Stored' = Stored /\ (Running' <=> Running) /\ (Locked' <=> Locked)
          /\ Kept(state_db.lastRotated)' = Kept(state_db.lastRotated)
      BY <2>1, KeptSame DEF Stored, In, wdb, adb, Running, Locked
    <2> QED BY <2>1, <2>2, FetchQuiet
  <1> QED BY <1>1, <1>2, <1>3, <1>4, <1>5, <1>6, <1>7, <1>8, <1>9, <1>10, <1>11,
             <1>12, <1>13, <1>14, <1>15, NextCases, FetchCases DEF CopyNode, Ending

-----------------------------------------------------------------------------
LEMMA InitInv == Init => StoreInv
  <1> SUFFICES ASSUME Init PROVE StoreInv
    OBVIOUS
  <1>0. NewNodes(1) \subseteq Nodes /\ validated + 1 = 1
    BY NewNodesOf DEF Init
  <1>1. TypeOK
    <2>1. config \in Configs
      <3>1. PICK c \in Configs : batched = c[1] /\ advisoryDelete = c[2]
        BY DEF Init
      <3>2. c = <<c[1], c[2]>>
        BY StoreAssumption
      <3> QED BY <3>1, <3>2 DEF config
    <2>2. /\ disk \in [DOMAIN disk -> SUBSET Nodes] /\ DOMAIN disk \subseteq Dirs
          /\ pending \in [DOMAIN disk -> SUBSET Nodes]
      BY DEF Init
    <2>3. /\ state_db \in [writableDb : Dirs \cup {None}, archiveDb : Dirs \cup {None},
                   lastRotated : 0 .. LastSeq, canDelete : 0 .. LastSeq]
          /\ backends \in [new : Dirs \cup {None}, old : Dirs \cup {None}]
          /\ builder \in [unsaved : SUBSET Nodes, target : Dirs \cup {None}]
      BY <1>0, SeqType DEF Init, NoBackends
    <2>4. crashes \in 0 .. MaxCrashes[batched]
      <3>1. batched \in BOOLEAN
        BY <2>1, StoreAssumption DEF config
      <3>2. MaxCrashes[batched] \in Nat
        BY <3>1, StoreAssumption
      <3> QED BY <3>2 DEF Init
    <2> QED BY <2>1, <2>2, <2>3, <2>4, SeqType DEF Init, TypeOK, None
  <1>2. wdb = None /\ adb = None /\ pc = "down" /\ ~ Running /\ ~ Locked
        /\ pc \notin Rotating
    BY DEF Init, wdb, adb, Running, Locked, Rotating
  <1>3. NamesInv
    BY <1>2 DEF NamesInv, Running
  <1>4. SqlInv
    BY <1>2 DEF SqlInv, RowsGone, Init, None
  <1>5. BuilderInv
    BY <1>0 DEF BuilderInv, Init
  <1>6. LedgersInv /\ CopyInv
    BY <1>2 DEF LedgersInv, CopyInv, CopyTarget, CopyData, CopyDone, InRotation, Rotating
  <1>7. FetchInv
    BY DEF Init, FetchInv, NoFetch
  <1> QED BY <1>1, <1>3, <1>4, <1>5, <1>6, <1>7 DEF StoreInv

(* The inductive invariant: how the saved names, the open backends, the    *)
(* progress of a rotation, what is stored and the fetches fit together at  *)
(* every step of every actor.                                              *)
THEOREM StoreCorrect == Spec => []StoreInv
  <1>1. StoreInv /\ [Next]_vars => StoreInv'
    BY TypeStep, NamesStep, SqlStep, BuilderStep, LedgersStep, TargetStep, DataStep,
       FetchStep DEF StoreInv, CopyInv
  <1> QED BY InitInv, <1>1, PTL DEF Spec

(* A start never throws "state db error", wherever the process ended. *)
THEOREM StartCorrect == Spec => []StartSucceeds
  <1>1. StoreInv => StartSucceeds
    BY DEF StoreInv, NamesInv, StartSucceeds
  <1> QED BY <1>1, StoreCorrect, PTL

(* clearSql deletes no row of a ledger since the last rotation, and a      *)
(* rotation that goes on has deleted the rows before, for saves of any     *)
(* length, checks that fail anywhere and any number of crashes.            *)
THEOREM SqlCorrect == Spec => []RowsFollow
  <1>1. StoreInv => RowsFollow
    BY DEF StoreInv, SqlInv, RowsGone, RowsFollow
  <1> QED BY <1>1, StoreCorrect, PTL

(* Online deletion loses no node of a ledger since the last rotation, for  *)
(* every chain of ledgers, any interval and any number of rotations, and,  *)
(* where the backend does not batch, of crashes.                           *)
THEOREM NodesCorrect == Spec => []NodesKept
  <1>1. StoreInv => NodesKept
    <2> SUFFICES ASSUME StoreInv, Running, Safe, NEW n \in Kept(state_db.lastRotated)
                 PROVE  Holds(writableBackend, n) \/ Holds(archiveBackend, n)
      BY DEF NodesKept, Safe
    <2>1. CASE Locked
      BY <2>1, LockedStored, KeptStored DEF Holds, In
    <2>2. CASE ~ Locked
      BY <2>2, OpenStored, KeptStored DEF Holds, In
    <2> QED BY <2>1, <2>2
  <1> QED BY <1>1, StoreCorrect, PTL

(* A fetch that no cache answers finds every node that was kept while it   *)
(* ran, with any number of readers and of rotations.                       *)
THEOREM FetchCorrect == Spec => []FetchFinds
  <1>1. StoreInv => FetchFinds
    BY DEF StoreInv, FetchInv, FetchFinds
  <1> QED BY <1>1, StoreCorrect, PTL
==============================================================================
