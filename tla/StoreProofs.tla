----------------------------- MODULE StoreProofs -----------------------------
(***************************************************************************)
(* Proofs about the stores that a session is ingested into.                *)
(*                                                                         *)
(* PersistManager: for any set of threads, entities and relationships, the *)
(* files on disk are what flushes and restarts may rely on.                *)
(*                                                                         *)
(* TurnIngest: for any sessions, names and texts, any length of a reply    *)
(* and any number of ingests, the stores agree with one another and with   *)
(* what is noted as processed, and a relationship is only ever added to,   *)
(* whichever attempt fails and wherever.                                   *)
(***************************************************************************)
EXTENDS PersistManager, TurnIngest, SequenceTheorems, FiniteSetTheorems, WellFoundedInduction, TLAPS

\* A caller that has staged an item, or asks for it to be persisted, has one.
HasItem ==
    \A c \in Callers :
        (pc[c] \in {"staged", "indexed"}
            \/ (pc[c] \in {"acquire", "join"} /\ op[c] = "async"))
                => item[c] \in Items

\* Where a caller can be for each operation.
OpSteps ==
    \A c \in Callers :
        /\ pc[c] \in {"writing", "teardown"} => op[c] # "async"
        /\ pc[c] = "teardown" => op[c] \in Teardowns
        /\ pc[c] = "teardown" => lock # c
        /\ pc[c] \in {"idle", "staged", "indexed"} => op[c] = "async"

\* The inductive invariant: exclusion needs to know who holds the lock, and
\* typing needs to know that an accepted request carries an item.
IInv == TypeOK /\ HasItem /\ OpSteps /\ SingleWriter /\ NoFailureForgotten

-----------------------------------------------------------------------------
\* The contents _persist_all gives a file have the type of that file.
LEMMA ContentType ==
    ASSUME TypeOK, NEW f \in FileNames
    PROVE  Content(f) \in SUBSET Items /\ Content(f) \subseteq KindOf(f)
  BY DEF TypeOK, ManagerType, StorageType, Content, FileNames, KindOf, Items

\* The files written one after the other are files.
LEMMA FilesAreFiles ==
    ASSUME NEW n \in Positions
    PROVE  Files[n + 1] \in FileNames /\ (n < 2 => n + 1 \in Positions)
  BY DEF Files, FileNames, Positions

\* Saving a file keeps the disk well typed.
LEMMA SaveFileType ==
    ASSUME TypeOK, NEW f \in FileNames, SaveFile(f)
    PROVE  /\ disk' \in [FileNames -> SUBSET Items]
           /\ \A g \in FileNames : disk'[g] \subseteq KindOf(g)
  <1> QED BY ContentType DEF TypeOK, StorageType, SaveFile

\* The places and operations the actions assign.
LEMMA Names ==
    /\ "idle" \in Steps /\ "staged" \in Steps /\ "indexed" \in Steps
    /\ "acquire" \in Steps /\ "join" \in Steps
    /\ "writing" \in Steps /\ "teardown" \in Steps
    /\ "async" \in Ops /\ "flush" \in Ops /\ Teardowns \subseteq Ops
    /\ 0 \in Positions
  BY DEF Steps, Ops, Teardowns, Positions

\* The initial state satisfies the inductive invariant.
LEMMA InitIInv == Init => IInv
  <1> SUFFICES ASSUME Init PROVE IInv
    OBVIOUS
  <1> USE CallersAssumption, ItemsAssumption DEF Init
  <1>1. TypeOK
    <2>1. Nothing \in Snapshots
      BY DEF Nothing, Snapshots
    <2>2. NoFiles \in [FileNames -> SUBSET Items] /\ \A f \in FileNames : NoFiles[f] \subseteq KindOf(f)
      BY DEF NoFiles, FileNames
    <2>5. ManagerType /\ StorageType
      BY <2>1, <2>2, Names DEF ManagerType, StorageType, WriterType, CallersType, HistoryType
    <2>6. WriterType
      BY <2>1, <2>2, Names DEF ManagerType, StorageType, WriterType, CallersType, HistoryType
    <2>7. CallersType
      BY <2>1, <2>2, Names DEF ManagerType, StorageType, WriterType, CallersType, HistoryType
    <2>8. HistoryType
      BY <2>1, <2>2, Names DEF ManagerType, StorageType, WriterType, CallersType, HistoryType
    <2> QED BY <2>5, <2>6, <2>7, <2>8 DEF TypeOK
  <1>2. HasItem /\ OpSteps /\ SingleWriter /\ NoFailureForgotten
    BY DEF HasItem, OpSteps, SingleWriter, NoFailureForgotten
  <1> QED BY <1>1, <1>2 DEF IInv

\* Every step of the manager, its callers, its writer and its process
\* preserves the type invariant.
LEMMA NextTypeOK == IInv /\ [Next]_vars => TypeOK'
  <1> SUFFICES ASSUME IInv, [Next]_vars PROVE TypeOK'
    OBVIOUS
  <1> USE CallersAssumption, ItemsAssumption
      DEF IInv, TypeOK, ManagerType, StorageType, WriterType, CallersType, HistoryType,
          manager, storage, writer, callers, history, vars
  <1>0. disk["bm25"] \subseteq Entities
    BY DEF FileNames, KindOf
  <1>1. ASSUME NEW c \in Callers, NEW x \in Items, Stage(c, x)
        PROVE TypeOK'
    BY <1>1, Names DEF Stage, Serving
  <1>2. ASSUME NEW c \in Callers, IndexFails(c)
        PROVE TypeOK'
    BY <1>2, Names DEF IndexFails, DirOf
  <1>3. ASSUME NEW c \in Callers, IndexItem(c)
        PROVE TypeOK'
    BY <1>0, <1>3, Names DEF IndexItem, HasItem, DirOf, Items
  <1>4. ASSUME NEW c \in Callers, NEW o \in Ops, Request(c, o)
        PROVE TypeOK'
    BY <1>0, <1>4, Names DEF Request, Snapshots
  <1>5. ASSUME NEW c \in Callers, Acquire(c)
        PROVE TypeOK'
    BY <1>5, Names DEF Acquire
  <1> DEFINE ReleaseType(c) ==
        /\ lock' \in Callers \cup {None}
        /\ pc' \in [Callers -> Steps]
        /\ op' \in [Callers -> Ops]
        /\ item' \in [Callers -> Items \cup {None}]
        /\ asked' \in [Callers -> Snapshots]
  <1>6. ASSUME NEW c \in Callers, Release(c)
        PROVE ReleaseType(c)
    <2>1. Nothing \in Snapshots
      BY DEF Nothing, Snapshots
    <2> QED BY <1>6, <2>1, Names DEF Release, Tearing
  <1> HIDE DEF ReleaseType
  <1>7. ASSUME NEW c \in Callers, JoinTimesOut(c)
        PROVE TypeOK'
    <2>1. ReleaseType(c)
      BY <1>7, <1>6 DEF JoinTimesOut
    <2> QED BY <1>7, <2>1 DEF JoinTimesOut, ReleaseType
  <1>8. ASSUME NEW c \in Callers, JoinRaises(c)
        PROVE TypeOK'
    <2>1. ReleaseType(c)
      BY <1>8, <1>6 DEF JoinRaises
    <2> QED BY <1>8, <2>1 DEF JoinRaises, ReleaseType
  <1>9. ASSUME NEW c \in Callers, Spawn(c)
        PROVE TypeOK'
    <2>1. ReleaseType(c) /\ item[c] \in Items
      BY <1>9, <1>6 DEF Spawn, Joined, HasItem
    <2>5. ManagerType' /\ StorageType'
      BY <1>9, <2>1, Names DEF Spawn, ReleaseType
    <2>6. WriterType'
      BY <1>9, <2>1, Names DEF Spawn, ReleaseType
    <2>7. CallersType'
      BY <1>9, <2>1, Names DEF Spawn, ReleaseType
    <2>8. HistoryType'
      BY <1>9, <2>1, Names DEF Spawn, ReleaseType
    <2> QED BY <2>5, <2>6, <2>7, <2>8 DEF TypeOK
  <1>10. ASSUME NEW c \in Callers, StartFlush(c)
         PROVE TypeOK'
    BY <1>10, Names DEF StartFlush
  <1>11. ASSUME NEW c \in Callers, EndWait(c)
         PROVE TypeOK'
    <2>1. ReleaseType(c)
      BY <1>11, <1>6 DEF EndWait
    <2> QED BY <1>11, <2>1 DEF EndWait, ReleaseType
  <1>12. ASSUME NEW c \in Callers, FlushWrites(c)
         PROVE TypeOK'
    <2>1. SaveFile(Files[fpos[c] + 1]) /\ fpos[c] \in Positions
      BY <1>12 DEF FlushWrites
    <2>2. /\ disk' \in [FileNames -> SUBSET Items]
          /\ \A g \in FileNames : disk'[g] \subseteq KindOf(g)
      BY <2>1, FilesAreFiles, SaveFileType
    <2>3. CASE fpos[c] < 2 /\ UNCHANGED <<lock, pc, op, item, asked, torn>>
               /\ fpos' = [fpos EXCEPT ![c] = @ + 1]
      BY <1>12, <2>1, <2>2, <2>3, FilesAreFiles DEF FlushWrites
    <2>4. CASE Release(c) /\ torn' = FALSE /\ fpos' = [fpos EXCEPT ![c] = 0]
      <3>1. ReleaseType(c)
        BY <2>4, <1>6
      <3>5. ManagerType' /\ StorageType'
        BY <1>12, <2>2, <2>4, <3>1, Names DEF FlushWrites, ReleaseType
      <3>6. WriterType'
        BY <1>12, <2>2, <2>4, <3>1, Names DEF FlushWrites, ReleaseType
      <3>7. CallersType'
        BY <1>12, <2>2, <2>4, <3>1, Names DEF FlushWrites, ReleaseType
      <3>8. HistoryType'
        BY <1>12, <2>2, <2>4, <3>1, Names DEF FlushWrites, ReleaseType
      <3> QED BY <3>5, <3>6, <3>7, <3>8 DEF TypeOK
    <2> QED BY <1>12, <2>3, <2>4 DEF FlushWrites
  <1>13. ASSUME NEW c \in Callers, FlushFails(c)
         PROVE TypeOK'
    <2>1. ReleaseType(c)
      BY <1>13, <1>6 DEF FlushFails
    <2>5. ManagerType' /\ StorageType'
      BY <1>13, <2>1, Names DEF FlushFails, ReleaseType
    <2>6. WriterType'
      BY <1>13, <2>1, Names DEF FlushFails, ReleaseType
    <2>7. CallersType'
      BY <1>13, <2>1, Names DEF FlushFails, ReleaseType
    <2>8. HistoryType'
      BY <1>13, <2>1, Names DEF FlushFails, ReleaseType
    <2> QED BY <2>5, <2>6, <2>7, <2>8 DEF TypeOK
  <1>14. ASSUME NEW clear \in BOOLEAN, CloseStores(clear)
         PROVE TypeOK'
    BY <1>14, Names DEF CloseStores
  <1>15. CASE ResetAll
    <2>1. NoFiles \in [FileNames -> SUBSET Items] /\ \A f \in FileNames : NoFiles[f] \subseteq KindOf(f)
      BY DEF NoFiles, FileNames
    <2> QED BY <1>15, <2>1, Names DEF ResetAll
  <1>16. DiskCache \in SUBSET Items
    BY DEF DiskCache, FileNames
  <1>17. Surviving \in SUBSET Items
    BY DEF Surviving
  <1>18. CASE Reload
    BY <1>16, <1>17, <1>18, Names DEF Reload
  <1>19. CASE WriterWrites
    <2>1. /\ disk' \in [FileNames -> SUBSET Items]
          /\ \A g \in FileNames : disk'[g] \subseteq KindOf(g)
      BY <1>19, FilesAreFiles, SaveFileType DEF WriterWrites
    <2>5. ManagerType' /\ StorageType'
      BY <1>19, <2>1, Names, FilesAreFiles DEF WriterWrites
    <2>6. WriterType'
      BY <1>19, <2>1, Names, FilesAreFiles DEF WriterWrites
    <2>7. CallersType'
      BY <1>19, <2>1, Names, FilesAreFiles DEF WriterWrites
    <2>8. HistoryType'
      BY <1>19, <2>1, Names, FilesAreFiles DEF WriterWrites
    <2> QED BY <2>5, <2>6, <2>7, <2>8 DEF TypeOK
  <1>20. CASE WriterFails
    BY <1>20, Names DEF WriterFails
  <1>21. CASE Kill
    <2>1. Nothing \in Snapshots
      BY DEF Nothing, Snapshots
    <2>5. ManagerType' /\ StorageType'
      BY <1>17, <1>21, <2>1, Names DEF Kill
    <2>6. WriterType'
      BY <1>17, <1>21, <2>1, Names DEF Kill
    <2>7. CallersType'
      BY <1>17, <1>21, <2>1, Names DEF Kill
    <2>8. HistoryType'
      BY <1>17, <1>21, <2>1, Names DEF Kill
    <2> QED BY <2>5, <2>6, <2>7, <2>8 DEF TypeOK
  <1>22. CASE Start
    BY <1>16, <1>22 DEF Start
  <1>23. CASE UNCHANGED vars
    BY <1>23
  <1>24. \A c \in Callers : HolderStep(c) => TypeOK'
    BY <1>7, <1>8, <1>9, <1>10, <1>11, <1>12, <1>13 DEF HolderStep
  <1>25. \A c \in Callers : PersistAsync(c) \/ FlushPersist(c) => TypeOK'
    BY <1>4, Names DEF PersistAsync, FlushPersist
  <1>26. \A o \in Teardowns : Close(o) => TypeOK'
    BY <1>4, Names DEF Close, Teardowns
  <1> QED
    <2> HIDE DEF IInv, TypeOK, vars
    <2> QED BY <1>1, <1>2, <1>3, <1>5, <1>14, <1>15, <1>18, <1>19, <1>20, <1>21,
               <1>22, <1>23, <1>24, <1>25, <1>26 DEF Next, TeardownStep

\* Every step preserves what is known of who holds the lock, what each caller
\* carries and whether a failure is owed.
LEMMA NextControl ==
    IInv /\ [Next]_vars =>
        HasItem' /\ OpSteps' /\ SingleWriter' /\ NoFailureForgotten'
  <1> SUFFICES ASSUME IInv, [Next]_vars
               PROVE  HasItem' /\ OpSteps' /\ SingleWriter' /\ NoFailureForgotten'
    OBVIOUS
  <1> DEFINE Control == HasItem /\ OpSteps /\ SingleWriter /\ NoFailureForgotten
  <1> SUFFICES Control'
    OBVIOUS
  <1> USE CallersAssumption, ItemsAssumption
      DEF IInv, TypeOK, CallersType, WriterType, HasItem, OpSteps, SingleWriter,
          NoFailureForgotten, manager, storage, writer, callers, history, vars
  <1>1. ASSUME NEW c \in Callers, NEW x \in Items, Stage(c, x)
        PROVE Control'
    BY <1>1 DEF Stage, Serving
  <1>2. ASSUME NEW c \in Callers, IndexFails(c)
        PROVE Control'
    BY <1>2 DEF IndexFails
  <1>3. ASSUME NEW c \in Callers, IndexItem(c)
        PROVE Control'
    BY <1>3 DEF IndexItem
  <1>4. ASSUME NEW c \in Callers, NEW o \in Ops, Request(c, o),
               pc[c] \in {"idle", "indexed"}, o = "async" => pc[c] = "indexed"
        PROVE Control'
    BY <1>4 DEF Request
  <1>5. ASSUME NEW c \in Callers, Acquire(c)
        PROVE Control'
    BY <1>5 DEF Acquire
  <1>7. ASSUME NEW c \in Callers, JoinTimesOut(c)
        PROVE Control'
    BY <1>7 DEF JoinTimesOut, Release, Tearing, Teardowns
  <1>8. ASSUME NEW c \in Callers, JoinRaises(c)
        PROVE Control'
    BY <1>8 DEF JoinRaises, Release, Tearing, Teardowns
  <1>9. ASSUME NEW c \in Callers, Spawn(c)
        PROVE Control'
    BY <1>9 DEF Spawn, Joined, Release, Tearing, Teardowns
  <1>10. ASSUME NEW c \in Callers, StartFlush(c)
         PROVE Control'
    BY <1>10 DEF StartFlush, Joined
  <1>11. ASSUME NEW c \in Callers, EndWait(c)
         PROVE Control'
    BY <1>11 DEF EndWait, Joined, Release, Tearing, Teardowns
  <1>12. ASSUME NEW c \in Callers, FlushWrites(c)
         PROVE Control'
    <2>1. CASE UNCHANGED <<lock, pc, op, item, asked, torn>>
      BY <1>12, <2>1 DEF FlushWrites
    <2>2. CASE Release(c)
      BY <1>12, <2>2 DEF FlushWrites, Release, Tearing, Teardowns
    <2> QED BY <1>12, <2>1, <2>2 DEF FlushWrites
  <1>13. ASSUME NEW c \in Callers, FlushFails(c)
         PROVE Control'
    BY <1>13 DEF FlushFails, Release, Tearing, Teardowns
  <1>14. ASSUME NEW clear \in BOOLEAN, CloseStores(clear)
         PROVE Control'
    BY <1>14 DEF CloseStores
  <1>15. CASE ResetAll
    BY <1>15 DEF ResetAll
  <1>18. CASE Reload
    BY <1>18 DEF Reload
  <1>19. CASE WriterWrites
    BY <1>19 DEF WriterWrites
  <1>20. CASE WriterFails
    BY <1>20 DEF WriterFails
  <1>21. CASE Kill
    BY <1>21 DEF Kill
  <1>22. CASE Start
    BY <1>22 DEF Start
  <1>23. CASE UNCHANGED vars
    BY <1>23
  <1>24. \A c \in Callers : HolderStep(c) => Control'
    BY <1>7, <1>8, <1>9, <1>10, <1>11, <1>12, <1>13 DEF HolderStep
  <1>25. \A c \in Callers : PersistAsync(c) \/ FlushPersist(c) => Control'
    BY <1>4, Names DEF PersistAsync, FlushPersist
  <1>26. \A o \in Teardowns : Close(o) => Control'
    BY <1>4, Names DEF Close, Teardowns
  <1> QED
    <2> HIDE DEF IInv, TypeOK, vars, Control
    <2> QED BY <1>1, <1>2, <1>3, <1>5, <1>14, <1>15, <1>18, <1>19, <1>20, <1>21,
               <1>22, <1>23, <1>24, <1>25, <1>26 DEF Next, TeardownStep

-----------------------------------------------------------------------------
\* The inductive invariant holds in every reachable state.
THEOREM InvariantHolds == Spec => []IInv
  <1>1. IInv /\ [Next]_vars => IInv'
    BY NextTypeOK, NextControl DEF IInv
  <1> QED BY <1>1, InitIInv, PTL DEF Spec

\* The manager's variables keep their types, whatever the threads do.
THEOREM TypeCorrect == Spec => []TypeOK
  <1>1. IInv => TypeOK
    BY DEF IInv
  <1> QED BY <1>1, InvariantHolds, PTL

\* For any number of threads, the files of an artifact directory are never
\* written by two of them at once (_persist_lock and the join under it).
THEOREM WritesAreSerial == Spec => []SingleWriter
  <1>1. IInv => SingleWriter
    BY DEF IInv
  <1> QED BY <1>1, InvariantHolds, PTL

\* Both together: ManagerSound, which the run of the model checks.
THEOREM ManagerIsSound == Spec => []ManagerSound
  <1>1. IInv => ManagerSound
    BY DEF IInv, ManagerSound
  <1> QED BY <1>1, InvariantHolds, PTL

\* For any number of threads, no failure of a daemon writer is dropped before
\* a caller is told of it (_wait_for_persist_locked).
THEOREM FailuresReachACaller == Spec => []NoFailureForgotten
  <1>1. IInv => NoFailureForgotten
    BY DEF IInv
  <1> QED BY <1>1, InvariantHolds, PTL

-----------------------------------------------------------------------------
(* Durability.  Why an accepted request reaches the disk: memory holds     *)
(* every promised item until the manager is torn down or killed, and a     *)
(* write that runs from its first file to its last copies memory.          *)

\* Only the owner tears down, with every other thread idle.
Alone ==
    \A c \in Callers :
        op[c] \in Teardowns /\ pc[c] # "idle" => c = Owner /\ OthersIdle

\* Nothing moves in a manager that is closed or gone.
Quiet ==
    /\ mgr # "open" => \A c \in Callers : pc[c] = "idle"
    /\ mgr = "down" => thread = "none" /\ ~torn /\ ~bm25Open
    /\ ~timedOut /\ thread = "alive" =>
          mgr = "open" /\ \A c \in Callers : pc[c] # "teardown"

\* What the caller is ingesting is in memory.
InFlight ==
    \A c \in Callers :
        /\ pc[c] = "staged" => item[c] \in cache
        /\ (pc[c] = "indexed" \/ (pc[c] \in {"acquire", "join"} /\ op[c] = "async")) =>
              /\ item[c] \in cache
              /\ chromaDirs # {}
              /\ item[c] \in Entities => bm25Open /\ item[c] \in bm25

\* What was promised is in memory, and a resume will load it.
Remembered ==
    /\ acked # {} => chromaDirs # {}
    /\ ~timedOut /\ mgr = "open" =>
          /\ acked \subseteq cache
          /\ acked \cap Entities \subseteq (IF bm25Open THEN bm25 ELSE disk["bm25"])

\* The promised items are in the first n files of a write under way.
Saved(n) ==
    /\ n # 0 => acked \cap Entities \subseteq disk["bm25"]
    /\ n = 2 => acked \cap Entities \subseteq disk["ent_cache"]

Progress ==
    ~timedOut =>
        /\ thread = "alive" => Saved(wpos)
        /\ \A c \in Callers : pc[c] = "writing" => Saved(fpos[c])

DInv == IInv /\ Alone /\ Quiet /\ InFlight /\ Remembered /\ Progress /\ Durable

\* Every step preserves what is known of the callers and of what they carry.
LEMMA NextMotion == DInv /\ [Next]_vars => Alone' /\ Quiet' /\ InFlight'
  <1> SUFFICES ASSUME DInv, [Next]_vars PROVE Alone' /\ Quiet' /\ InFlight'
    OBVIOUS
  <1> DEFINE Goal == Alone' /\ Quiet' /\ InFlight'
  <1> SUFFICES Goal
    OBVIOUS
  <1> USE CallersAssumption, ItemsAssumption
      DEF DInv, IInv, TypeOK, CallersType, WriterType, OpSteps, SingleWriter, Alone, Quiet,
          InFlight, OthersIdle, Teardowns, manager, storage, writer, callers, history, vars
  <1>1. ASSUME NEW c \in Callers, NEW x \in Items, Stage(c, x)
        PROVE Goal
    <2>1. Alone'
      BY <1>1 DEF Stage, Serving
    <2>2. Quiet'
      BY <1>1 DEF Stage, Serving
    <2>3. InFlight'
      BY <1>1 DEF Stage, Serving
    <2> QED BY <2>1, <2>2, <2>3
  <1>2. ASSUME NEW c \in Callers, IndexFails(c)
        PROVE Goal
    BY <1>2 DEF IndexFails, DirOf
  <1>3. ASSUME NEW c \in Callers, IndexItem(c)
        PROVE Goal
    BY <1>3 DEF IndexItem, DirOf, HasItem, Items
  <1>4. ASSUME NEW c \in Callers, PersistAsync(c)
        PROVE Goal
    BY <1>4 DEF PersistAsync, Request
  <1>5. ASSUME NEW c \in Callers, FlushPersist(c)
        PROVE Goal
    BY <1>5 DEF FlushPersist, Request, Serving
  <1>6. ASSUME NEW o \in Teardowns, Close(o)
        PROVE Goal
    BY <1>6 DEF Close, Request
  <1>7. ASSUME NEW c \in Callers, Acquire(c)
        PROVE Goal
    BY <1>7 DEF Acquire
  <1>8. ASSUME NEW c \in Callers, JoinTimesOut(c)
        PROVE Goal
    BY <1>8 DEF JoinTimesOut, Release, Tearing
  <1>9. ASSUME NEW c \in Callers, JoinRaises(c)
        PROVE Goal
    BY <1>9 DEF JoinRaises, Release, Tearing
  <1>10. ASSUME NEW c \in Callers, Spawn(c)
        PROVE Goal
    BY <1>10 DEF Spawn, Joined, Release, Tearing
  <1>11. ASSUME NEW c \in Callers, StartFlush(c)
        PROVE Goal
    BY <1>11 DEF StartFlush, Joined
  <1>12. ASSUME NEW c \in Callers, EndWait(c)
        PROVE Goal
    BY <1>12 DEF EndWait, Joined, Release, Tearing
  <1>13. ASSUME NEW c \in Callers, FlushWrites(c)
        PROVE Goal
    BY <1>13 DEF FlushWrites, Release, Tearing
  <1>14. ASSUME NEW c \in Callers, FlushFails(c)
        PROVE Goal
    BY <1>14 DEF FlushFails, Release, Tearing
  <1>15. ASSUME NEW clear \in BOOLEAN, CloseStores(clear)
        PROVE Goal
    BY <1>15 DEF CloseStores
  <1>16. ASSUME ResetAll
        PROVE Goal
    BY <1>16 DEF ResetAll
  <1>17. ASSUME Reload
        PROVE Goal
    BY <1>17 DEF Reload
  <1>18. ASSUME WriterWrites
        PROVE Goal
    BY <1>18 DEF WriterWrites
  <1>19. ASSUME WriterFails
        PROVE Goal
    BY <1>19 DEF WriterFails
  <1>20. ASSUME Kill
        PROVE Goal
    BY <1>20 DEF Kill
  <1>21. ASSUME Start
        PROVE Goal
    BY <1>21 DEF Start
  <1>22. ASSUME UNCHANGED vars
        PROVE Goal
    BY <1>22
  <1> QED
    <2> HIDE DEF DInv, vars, Goal
    <2> QED BY <1>1, <1>2, <1>3, <1>4, <1>5, <1>6, <1>7, <1>8, <1>9, <1>10, <1>11,
               <1>12, <1>13, <1>14, <1>15, <1>16, <1>17, <1>18, <1>19, <1>20, <1>21, <1>22
           DEF Next, TeardownStep, HolderStep


\* Saving the next file of a write, from memory that holds every promised
\* item, extends the files that hold them by one.
LEMMA WriteSaves ==
    ASSUME NEW n \in Positions, SaveFile(Files[n + 1]), StorageType, Remembered,
           Saved(n), mgr = "open", ~timedOut,
           acked \in SUBSET Items,
           UNCHANGED <<mgr, cache, bm25, bm25Open, chromaDirs, acked, timedOut>>
    PROVE  /\ Remembered'
           /\ acked \cap Entities \subseteq disk'["bm25"]
           /\ n # 0 => acked \cap Entities \subseteq disk'["ent_cache"]
           /\ n = 2 \/ acked \subseteq OnDisk => acked' \subseteq OnDisk'
  <1> USE ItemsAssumption
      DEF StorageType, Remembered, Saved, SaveFile, Content, Files, FileNames, OnDisk,
          DiskCache, KindOf, Items
  <1>1. CASE n = 0
    BY <1>1
  <1>2. CASE n = 1
    <2>1. /\ disk' = [disk EXCEPT !["ent_cache"] = cache \cap Entities]
          /\ disk'["bm25"] = disk["bm25"] /\ disk'["rel_cache"] = disk["rel_cache"]
          /\ disk'["ent_cache"] = cache \cap Entities
      BY <1>2
    <2>2. acked \cap Entities \subseteq disk["bm25"] /\ acked \subseteq cache
      BY <1>2
    <2>3. Remembered'
      BY <2>1
    <2>4. acked \subseteq OnDisk => acked' \subseteq OnDisk'
      BY <2>1, <2>2
    <2> QED BY <1>2, <2>1, <2>2, <2>3, <2>4
  <1>3. CASE n = 2
    BY <1>3
  <1> QED BY <1>1, <1>2, <1>3 DEF Positions


\* Every step preserves what is known of the promised items.
LEMMA NextPromise == DInv /\ [Next]_vars => Remembered' /\ Progress' /\ Durable'
  <1> SUFFICES ASSUME DInv, [Next]_vars PROVE Remembered' /\ Progress' /\ Durable'
    OBVIOUS
  <1> DEFINE Goal == Remembered' /\ Progress' /\ Durable'
  <1> SUFFICES Goal
    OBVIOUS
  <1> USE CallersAssumption, ItemsAssumption
      DEF DInv, IInv, TypeOK, CallersType, WriterType, StorageType, HistoryType, OpSteps,
          SingleWriter, Remembered, Progress, Saved, Durable, OnDisk, DiskCache, Items,
          manager, storage, writer, callers, history, vars
  <1>1. ASSUME NEW c \in Callers, NEW x \in Items, Stage(c, x)
        PROVE Goal
    BY <1>1 DEF Stage, Serving
  <1>2. ASSUME NEW c \in Callers, IndexFails(c)
        PROVE Goal
    BY <1>2 DEF IndexFails, DirOf
  <1>3. ASSUME NEW c \in Callers, IndexItem(c)
        PROVE Goal
    BY <1>3 DEF IndexItem, DirOf, HasItem, Items
  <1>4. ASSUME NEW c \in Callers, PersistAsync(c)
        PROVE Goal
    BY <1>4 DEF PersistAsync, Request
  <1>5. ASSUME NEW c \in Callers, FlushPersist(c)
        PROVE Goal
    BY <1>5 DEF FlushPersist, Request, Serving
  <1>6. ASSUME NEW o \in Teardowns, Close(o)
        PROVE Goal
    BY <1>6 DEF Close, Request
  <1>7. ASSUME NEW c \in Callers, Acquire(c)
        PROVE Goal
    BY <1>7 DEF Acquire
  <1>8. ASSUME NEW c \in Callers, JoinTimesOut(c)
        PROVE Goal
    BY <1>8 DEF JoinTimesOut, Release, Tearing
  <1>9. ASSUME NEW c \in Callers, JoinRaises(c)
        PROVE Goal
    BY <1>9 DEF JoinRaises, Release, Tearing
  <1>10. ASSUME NEW c \in Callers, Spawn(c)
        PROVE Goal
    <2>1. item[c] \in cache /\ chromaDirs # {}
          /\ (item[c] \in Entities => bm25Open /\ item[c] \in bm25)
      BY <1>10 DEF Spawn, Joined, InFlight
    <2>2. Remembered'
      BY <1>10, <2>1 DEF Spawn, Release
    <2>3. Durable' /\ wpos' = 0
      BY <1>10 DEF Spawn
    <2>4. \A d \in Callers : pc'[d] # "writing"
      BY <1>10 DEF Spawn, Joined, Release, Tearing
    <2>5. Progress'
      BY <2>3, <2>4
    <2> QED BY <2>2, <2>3, <2>5
  <1>11. ASSUME NEW c \in Callers, StartFlush(c)
        PROVE Goal
    BY <1>11 DEF StartFlush, Joined
  <1>12. ASSUME NEW c \in Callers, EndWait(c)
        PROVE Goal
    BY <1>12 DEF EndWait, Joined, Release, Tearing
  <1>13. ASSUME NEW c \in Callers, FlushWrites(c)
        PROVE Goal
    <2>1. /\ SaveFile(Files[fpos[c] + 1]) /\ fpos[c] \in Positions
          /\ mgr = "open" /\ thread = "none"
          /\ UNCHANGED <<mgr, cache, bm25, bm25Open, chromaDirs, acked, timedOut, thread>>
      BY <1>13 DEF FlushWrites, Quiet
    <2>2. CASE timedOut
      BY <1>13, <2>1, <2>2 DEF FlushWrites
    <2>3. CASE ~timedOut
      <3>1. /\ Remembered'
            /\ acked \cap Entities \subseteq disk'["bm25"]
            /\ fpos[c] # 0 => acked \cap Entities \subseteq disk'["ent_cache"]
            /\ fpos[c] = 2 \/ acked \subseteq OnDisk => acked' \subseteq OnDisk'
        <4>1. Saved(fpos[c])
          BY <1>13, <2>3 DEF FlushWrites
        <4> HIDE DEF Saved, Remembered, OnDisk
        <4> QED BY <2>1, <2>3, <4>1, WriteSaves
      <3>2. CASE fpos[c] < 2
        <4>1. fpos' = [fpos EXCEPT ![c] = @ + 1] /\ UNCHANGED <<pc, torn, lock>>
          BY <1>13, <3>2 DEF FlushWrites
        <4>2. \A d \in Callers : pc'[d] = "writing" => d = c
          BY <1>13, <4>1 DEF FlushWrites
        <4>3. fpos'[c] = fpos[c] + 1
          BY <4>1
        <4>4. Progress'
          BY <2>1, <2>3, <3>1, <3>2, <4>1, <4>2, <4>3 DEF Positions
        <4>5. Durable'
          BY <1>13, <2>1, <2>3, <3>1, <4>1 DEF FlushWrites
        <4> QED BY <3>1, <4>4, <4>5
      <3>3. CASE fpos[c] = 2
        BY <1>13, <2>1, <2>3, <3>1, <3>3 DEF FlushWrites, Release, Tearing
      <3> QED BY <2>1, <3>2, <3>3 DEF Positions
    <2> QED BY <2>2, <2>3
  <1>14. ASSUME NEW c \in Callers, FlushFails(c)
        PROVE Goal
    BY <1>14 DEF FlushFails, Release, Tearing
  <1>15. ASSUME NEW clear \in BOOLEAN, CloseStores(clear)
        PROVE Goal
    BY <1>15 DEF CloseStores
  <1>16. ASSUME ResetAll
        PROVE Goal
    BY <1>16 DEF ResetAll
  <1>17. ASSUME Reload
        PROVE Goal
    <2>1. Surviving \subseteq acked /\ (~timedOut => Surviving \subseteq OnDisk)
      BY DEF Surviving
    <2>2. Remembered'
      BY <1>17, <2>1 DEF Reload
    <2>3. Progress' /\ Durable'
      BY <1>17, <2>1 DEF Reload, Quiet
    <2> QED BY <2>2, <2>3
  <1>18. ASSUME WriterWrites
        PROVE Goal
    <2>1. /\ SaveFile(Files[wpos + 1]) /\ wpos \in Positions /\ thread = "alive"
          /\ UNCHANGED <<mgr, cache, bm25, bm25Open, chromaDirs, acked, timedOut, pc, fpos>>
          /\ ~timedOut => mgr = "open"
      BY <1>18 DEF WriterWrites, Quiet
    <2>2. CASE timedOut
      BY <1>18, <2>1, <2>2 DEF WriterWrites
    <2>3. CASE ~timedOut
      <3>1. /\ Remembered'
            /\ acked \cap Entities \subseteq disk'["bm25"]
            /\ wpos # 0 => acked \cap Entities \subseteq disk'["ent_cache"]
            /\ wpos = 2 \/ acked \subseteq OnDisk => acked' \subseteq OnDisk'
        <4>1. Saved(wpos)
          BY <2>1, <2>3
        <4> HIDE DEF Saved, Remembered, OnDisk
        <4> QED BY <2>1, <2>3, <4>1, WriteSaves
      <3>2. CASE wpos < 2
        BY <1>18, <2>1, <3>1, <3>2 DEF WriterWrites, Positions
      <3>3. CASE wpos = 2
        BY <1>18, <2>1, <3>1, <3>3 DEF WriterWrites
      <3> QED BY <2>1, <3>2, <3>3 DEF Positions
    <2> QED BY <2>2, <2>3
  <1>19. ASSUME WriterFails
        PROVE Goal
    BY <1>19 DEF WriterFails
  <1>20. ASSUME Kill
        PROVE Goal
    <2>1. Surviving \subseteq acked /\ (~timedOut => Surviving \subseteq OnDisk)
      BY DEF Surviving
    <2>2. Remembered'
      BY <1>20, <2>1 DEF Kill
    <2>3. Progress' /\ Durable'
      BY <1>20, <2>1 DEF Kill
    <2> QED BY <2>2, <2>3
  <1>21. ASSUME Start
        PROVE Goal
    <2>1. Remembered'
      BY <1>21 DEF Start, Quiet
    <2>2. Progress' /\ Durable'
      BY <1>21 DEF Start, Quiet
    <2> QED BY <2>1, <2>2
  <1>22. ASSUME UNCHANGED vars
        PROVE Goal
    BY <1>22
  <1> QED
    <2> HIDE DEF DInv, vars, Goal
    <2> QED BY <1>1, <1>2, <1>3, <1>4, <1>5, <1>6, <1>7, <1>8, <1>9, <1>10, <1>11,
               <1>12, <1>13, <1>14, <1>15, <1>16, <1>17, <1>18, <1>19, <1>20, <1>21, <1>22
           DEF Next, TeardownStep, HolderStep


\* The initial state satisfies the strengthened invariant.
LEMMA InitDInv == Init => DInv
  <1> SUFFICES ASSUME Init PROVE DInv
    OBVIOUS
  <1>1. IInv
    BY InitIInv
  <1>2. Alone /\ Quiet /\ InFlight /\ Remembered /\ Progress /\ Durable
    BY DEF Init, Alone, Quiet, InFlight, Remembered, Progress, Durable
  <1> QED BY <1>1, <1>2 DEF DInv

\* The strengthened invariant holds in every reachable state.
THEOREM StrongInvariantHolds == Spec => []DInv
  <1>1. DInv /\ [Next]_vars => DInv'
    BY NextTypeOK, NextControl, NextMotion, NextPromise DEF DInv, IInv
  <1> QED BY <1>1, InitDInv, PTL DEF Spec

\* For any threads and items: when no writer runs and none failed half way or
\* was given up on, everything persist_async accepted is on disk.
THEOREM AcceptedIsDurable == Spec => []Durable
  <1>1. DInv => Durable
    BY DEF DInv
  <1> QED BY <1>1, StrongInvariantHolds, PTL

\* For any threads and items: the cold-start test of initialize() discards no
\* extraction whose persistence was promised.
THEOREM RestartsKeepPromises == Spec => RestartKeepsPromise
  <1> DEFINE Kept == mgr = "down" /\ mgr' = "open" /\ ~timedOut => acked \subseteq cache'
  <1>1. DInv /\ [Next]_vars => [Kept]_vars
    <2> SUFFICES ASSUME DInv, Next, mgr = "down", mgr' = "open", ~timedOut
                 PROVE  acked \subseteq cache'
      BY DEF vars, manager
    <2>1. Start
      BY DEF Next, Stage, IndexFails, IndexItem, PersistAsync, FlushPersist, Request,
             Serving, Acquire, HolderStep, JoinTimesOut, JoinRaises, Spawn, StartFlush,
             EndWait, FlushWrites, FlushFails, Close, TeardownStep, CloseStores, ResetAll,
             Reload, WriterWrites, WriterFails, Kill, manager
    <2>2. acked \subseteq OnDisk /\ (acked # {} => chromaDirs # {})
      BY DEF DInv, Quiet, Durable, Remembered
    <2> QED BY <2>1, <2>2 DEF Start, OnDisk
  <1> QED BY <1>1, StrongInvariantHolds, PTL DEF Spec, RestartKeepsPromise

-----------------------------------------------------------------------------
(* Flushes.  Nobody tears the manager down while a flush waits or writes,  *)
(* so memory keeps what the flush was asked for until it is on disk.       *)

Flushing(c) == op[c] = "flush" /\ pc[c] \in {"acquire", "join", "writing"}

\* Memory still has what it had when the flush was called.
FlushHeld ==
    \A c \in Callers : Flushing(c) =>
        /\ asked[c].cache \subseteq cache
        /\ asked[c].bm25 \subseteq (IF bm25Open THEN bm25 ELSE disk["bm25"])

\* What was asked for is in the files the flush has written.
FlushSaved ==
    \A c \in Callers : Flushing(c) /\ pc[c] = "writing" =>
        /\ fpos[c] # 0 => asked[c].bm25 \subseteq disk["bm25"]
        /\ fpos[c] = 2 => asked[c].cache \cap Entities \subseteq disk["ent_cache"]

FInv == FlushHeld /\ FlushSaved

\* Saving the next file puts there what was asked for.
LEMMA FlushWriteSaves ==
  ASSUME TypeOK, FInv, NEW c \in Callers, FlushWrites(c)
  PROVE  /\ bm25Open \/ disk'["bm25"] = disk["bm25"]
         /\ fpos[c] # 0 => disk'["bm25"] = disk["bm25"]
         /\ op[c] = "flush" => asked[c].bm25 \subseteq disk'["bm25"]
         /\ op[c] = "flush" /\ fpos[c] # 0 =>
               asked[c].cache \cap Entities \subseteq disk'["ent_cache"]
         /\ op[c] = "flush" /\ fpos[c] = 2 => asked[c].cache \subseteq DiskCache'
  <1> USE DEF FlushWrites, SaveFile, Content, Files, FInv, FlushHeld, FlushSaved, Flushing
  <1>1. /\ fpos[c] \in Positions /\ DOMAIN disk = FileNames
        /\ asked[c].cache \subseteq Entities \cup Relationships
    BY DEF TypeOK, CallersType, StorageType, HistoryType, Snapshots, Items
  <1>2. CASE fpos[c] = 0
    <2>1. disk' = [disk EXCEPT !["bm25"] = IF bm25Open THEN bm25 ELSE disk["bm25"]]
      BY <1>2
    <2>2. disk'["bm25"] = IF bm25Open THEN bm25 ELSE disk["bm25"]
      BY <1>1, <2>1 DEF FileNames
    <2> QED BY <1>2, <2>2
  <1>3. CASE fpos[c] = 1
    <2>1. disk' = [disk EXCEPT !["ent_cache"] = cache \cap Entities]
      BY <1>3
    <2>2. disk'["ent_cache"] = cache \cap Entities /\ disk'["bm25"] = disk["bm25"]
      BY <1>1, <2>1 DEF FileNames
    <2> QED BY <1>3, <2>2
  <1>4. CASE fpos[c] = 2
    <2>1. disk' = [disk EXCEPT !["rel_cache"] = cache \cap Relationships]
      BY <1>4
    <2>2. /\ disk'["rel_cache"] = cache \cap Relationships /\ disk'["bm25"] = disk["bm25"]
          /\ disk'["ent_cache"] = disk["ent_cache"]
      BY <1>1, <2>1 DEF FileNames
    <2>3. op[c] = "flush" => /\ asked[c].cache \subseteq cache
                             /\ asked[c].cache \cap Entities \subseteq disk["ent_cache"]
      BY <1>4
    <2>4. op[c] = "flush" => asked[c].cache \subseteq DiskCache'
      BY <1>1, <2>2, <2>3 DEF DiskCache
    <2> QED BY <1>4, <2>2, <2>3, <2>4
  <1> QED BY <1>1, <1>2, <1>3, <1>4 DEF Positions

\* Every step of the manager keeps what flushes under way rely on.
LEMMA NextFInv == DInv /\ FInv /\ [Next]_vars => FInv'
  <1> SUFFICES ASSUME DInv, FInv, [Next]_vars PROVE FInv'
    OBVIOUS
  <1> USE CallersAssumption
      DEF DInv, IInv, TypeOK, CallersType, WriterType, StorageType, HistoryType, OpSteps,
          SingleWriter, Alone, OthersIdle, Teardowns, FInv, FlushHeld, FlushSaved, Flushing,
          manager, storage, writer, callers, history, vars
  <1>1. ASSUME NEW c \in Callers, NEW x \in Items, Stage(c, x)
        PROVE FInv'
    BY <1>1 DEF Stage
  <1>2. ASSUME NEW c \in Callers, IndexFails(c)
        PROVE FInv'
    BY <1>2 DEF IndexFails
  <1>3. ASSUME NEW c \in Callers, IndexItem(c)
        PROVE FInv'
    BY <1>3 DEF IndexItem
  <1>4. ASSUME NEW c \in Callers, PersistAsync(c)
        PROVE FInv'
    BY <1>4 DEF PersistAsync, Request
  <1>5. ASSUME NEW c \in Callers, FlushPersist(c)
        PROVE FInv'
    BY <1>5 DEF FlushPersist, Request
  <1>6. ASSUME NEW o \in Teardowns, Close(o)
        PROVE FInv'
    BY <1>6 DEF Close, Request
  <1>7. ASSUME NEW c \in Callers, Acquire(c)
        PROVE FInv'
    BY <1>7 DEF Acquire
  <1>8. ASSUME NEW c \in Callers, JoinTimesOut(c)
        PROVE FInv'
    BY <1>8 DEF JoinTimesOut, Release, Tearing
  <1>9. ASSUME NEW c \in Callers, JoinRaises(c)
        PROVE FInv'
    BY <1>9 DEF JoinRaises, Release, Tearing
  <1>10. ASSUME NEW c \in Callers, Spawn(c)
        PROVE FInv'
    BY <1>10 DEF Spawn, Joined, Release, Tearing
  <1>11. ASSUME NEW c \in Callers, StartFlush(c)
        PROVE FInv'
    BY <1>11 DEF StartFlush, Joined
  <1>12. ASSUME NEW c \in Callers, EndWait(c)
        PROVE FInv'
    BY <1>12 DEF EndWait, Joined, Release, Tearing
  <1>13. ASSUME NEW c \in Callers, FlushWrites(c)
        PROVE FInv'
    <2>1. /\ pc[c] = "writing" /\ fpos[c] \in Positions
          /\ UNCHANGED <<manager, chroma, chromaDirs, writer, acked, owed, timedOut>>
          /\ \A d \in Callers : pc[d] = "writing" => d = c
      BY <1>13 DEF FlushWrites
    <2>2. /\ bm25Open \/ disk'["bm25"] = disk["bm25"]
          /\ op[c] = "flush" => asked[c].bm25 \subseteq disk'["bm25"]
          /\ op[c] = "flush" /\ fpos[c] # 0 =>
                asked[c].cache \cap Entities \subseteq disk'["ent_cache"]
      BY <1>13, FlushWriteSaves
    <2>3. CASE fpos[c] < 2 /\ fpos' = [fpos EXCEPT ![c] = @ + 1]
               /\ UNCHANGED <<lock, pc, op, item, asked, torn>>
      <3>1. FlushHeld'
        BY <2>1, <2>2, <2>3
      <3>2. FlushSaved'
        BY <2>1, <2>2, <2>3 DEF Positions
      <3> QED BY <3>1, <3>2
    <2>4. CASE Release(c)
      BY <2>1, <2>2, <2>4 DEF Release, Tearing
    <2> QED BY <1>13, <2>3, <2>4 DEF FlushWrites
  <1>14. ASSUME NEW c \in Callers, FlushFails(c)
        PROVE FInv'
    BY <1>14 DEF FlushFails, Release, Tearing
  <1>15. ASSUME NEW clear \in BOOLEAN, CloseStores(clear)
        PROVE FInv'
    BY <1>15 DEF CloseStores
  <1>16. ASSUME ResetAll
        PROVE FInv'
    BY <1>16 DEF ResetAll
  <1>17. ASSUME Reload
        PROVE FInv'
    BY <1>17 DEF Reload
  <1>18. ASSUME WriterWrites
        PROVE FInv'
    <2>1. /\ thread = "alive" /\ wpos \in Positions
          /\ UNCHANGED <<manager, chroma, chromaDirs, callers, asked>>
          /\ \A d \in Callers : pc[d] # "writing"
      BY <1>18 DEF WriterWrites
    <2>2. bm25Open \/ disk'["bm25"] = disk["bm25"]
      BY <1>18, <2>1 DEF WriterWrites, SaveFile, Content, Files, Positions, FileNames
    <2> QED BY <2>1, <2>2
  <1>19. ASSUME WriterFails
        PROVE FInv'
    BY <1>19 DEF WriterFails
  <1>20. ASSUME Kill
        PROVE FInv'
    BY <1>20 DEF Kill
  <1>21. ASSUME Start
        PROVE FInv'
    BY <1>21 DEF Start, Quiet
  <1>22. ASSUME UNCHANGED vars
        PROVE FInv'
    BY <1>22
  <1> QED
    <2> HIDE DEF DInv, vars, FInv
    <2> QED BY <1>1, <1>2, <1>3, <1>4, <1>5, <1>6, <1>7, <1>8, <1>9, <1>10, <1>11,
               <1>12, <1>13, <1>14, <1>15, <1>16, <1>17, <1>18, <1>19, <1>20, <1>21, <1>22
           DEF Next, TeardownStep, HolderStep

\* For any threads and items: a flush_persist that returns has put on disk what
\* memory held when it was called, whatever others wrote or ingested meanwhile.
THEOREM FlushesCover == Spec => FlushCovers
  <1> DEFINE Returned(c) == /\ op[c] = "flush" /\ lock = c /\ lock' = None
                            /\ pc[c] = "writing" /\ mgr' # "down" /\ ~torn'
             Covered == \A c \in Callers : Returned(c) =>
                           /\ asked[c].cache \subseteq DiskCache'
                           /\ asked[c].bm25 \subseteq disk'["bm25"]
  <1>1. Init => FInv
    BY DEF Init, FInv, FlushHeld, FlushSaved, Flushing
  <1>2. DInv /\ FInv /\ [Next]_vars => [Covered]_vars
    <2> SUFFICES ASSUME DInv, FInv, Next, NEW c \in Callers, Returned(c)
                 PROVE  /\ asked[c].cache \subseteq DiskCache'
                        /\ asked[c].bm25 \subseteq disk'["bm25"]
      OBVIOUS
    <2>1. FlushWrites(c) /\ fpos[c] = 2
      <3>1. TypeOK /\ SingleWriter
        BY DEF DInv, IInv
      <3>2. FlushWrites(c) \/ FlushFails(c)
        BY <3>1, CallersAssumption DEF SingleWriter, Next, Stage, IndexFails, IndexItem,
             PersistAsync, FlushPersist, Request, Acquire, HolderStep, JoinTimesOut,
             JoinRaises, Spawn, StartFlush, EndWait, Joined, FlushWrites, FlushFails, Close,
             TeardownStep, CloseStores, ResetAll, Reload, WriterWrites, WriterFails, Kill,
             Start, callers, Release
      <3> QED BY <3>1, <3>2, CallersAssumption
              DEF FlushWrites, FlushFails, Release, TypeOK, HistoryType
    <2> QED BY <2>1, FlushWriteSaves DEF DInv, IInv
  <1>3. DInv /\ FInv /\ [Next]_vars => FInv'
    BY NextFInv
  <1> QED BY <1>1, <1>2, <1>3, StrongInvariantHolds, PTL DEF Spec, FlushCovers

-------------------------------------------------------------------------------
(* Least and greatest numbers.                                             *)

LEMMA LeastNat ==
  ASSUME NEW S \in SUBSET Nat, S # {}
  PROVE  \E n \in S : \A m \in S : n <= m
<1>1. PICK n \in S : \A m \in S : <<m, n>> \notin OpToRel(<, Nat)
  BY NatLessThanWellFounded, WFMin
<1>2. \A m \in S : ~(m < n)
  BY <1>1 DEF OpToRel
<1> QED BY <1>2

LEMMA GreatestNat ==
  ASSUME NEW n \in Nat, NEW S \in SUBSET (0 .. n), S # {}
  PROVE  \E m \in S : \A k \in S : m >= k
<1> DEFINE Above == {m \in Nat : \A k \in S : m >= k}
<1>1. n \in Above
  OBVIOUS
<1>2. PICK m \in Above : \A k \in Above : m <= k
  BY <1>1, LeastNat
<1>3. m \in S
  <2>1. SUFFICES ASSUME m \notin S PROVE FALSE
    OBVIOUS
  <2>2. \A k \in S : k \in Nat /\ m >= k
    BY <1>2
  <2>3. \A k \in S : k <= m - 1
    BY <2>1, <2>2, <1>2
  <2>4. m # 0
    <3>1. PICK k \in S : TRUE
      OBVIOUS
    <3> QED BY <2>1, <2>2, <3>1
  <2>5. m - 1 \in Above
    BY <2>2, <2>3, <2>4, <1>2
  <2>6. m <= m - 1
    BY <1>2, <2>5
  <2> QED BY <2>6, <1>2
<1> QED BY <1>2, <1>3

LEMMA MinIsLeast ==
  ASSUME NEW S \in SUBSET Nat, S # {}
  PROVE  Min(S) \in S
  BY LeastNat DEF Min

LEMMA MaxIsGreatest ==
  ASSUME NEW n \in Nat, NEW S \in SUBSET (0 .. n), S # {}
  PROVE  Max(S) \in S
  BY GreatestNat DEF Max

-------------------------------------------------------------------------------
(* Sequences of rows.                                                      *)

\* What a reply may give is a sequence of what it may give line by line.
LEMMA ParsedIsSeq ==
  ASSUME NEW T, NEW S \in SUBSET T, NEW n \in Nat, NEW s \in BoundedSeq(S, n)
  PROVE  s \in Seq(T) /\ Len(s) \in Nat /\ Len(s) <= n
<1>1. PICK m \in 0 .. n : s \in [1 .. m -> S]
  BY DEF BoundedSeq, SeqOf
<1>2. m \in Nat /\ m <= n /\ s \in [1 .. m -> T]
  BY <1>1
<1>3. s \in Seq(T)
  BY <1>2, SeqDef
<1>4. Len(s) = m
  BY <1>2, <1>3, LenProperties
<1> QED BY <1>2, <1>3, <1>4

\* The numbers of the rows for a key.
LEMMA RowsForKey ==
  ASSUME NEW T, NEW rs \in Seq(T), NEW k \in Keys(rs)
  PROVE  /\ Len(rs) \in Nat /\ DOMAIN rs = 1 .. Len(rs)
         /\ RowsFor(rs, k) \in SUBSET (0 .. Len(rs)) /\ RowsFor(rs, k) # {}
         /\ \A i \in RowsFor(rs, k) : i \in DOMAIN rs /\ rs[i][1] = k
<1>1. Len(rs) \in Nat /\ DOMAIN rs = 1 .. Len(rs)
  BY LenProperties
<1>2. RowsFor(rs, k) # {}
  BY DEF Keys, RowsFor
<1>3. RowsFor(rs, k) \in SUBSET (1 .. Len(rs))
  BY <1>1 DEF RowsFor
<1>4. RowsFor(rs, k) \in SUBSET (0 .. Len(rs))
  BY <1>1, <1>3
<1> QED BY <1>1, <1>2, <1>4 DEF RowsFor

LEMMA LastIsARow ==
  ASSUME NEW T, NEW rs \in Seq(T), NEW k \in Keys(rs)
  PROVE  \E i \in DOMAIN rs : rs[i][1] = k /\ LastFor(rs, k) = rs[i][2]
<1>1. /\ Len(rs) \in Nat /\ RowsFor(rs, k) \in SUBSET (0 .. Len(rs))
      /\ RowsFor(rs, k) # {}
  BY RowsForKey
<1>2. Max(RowsFor(rs, k)) \in RowsFor(rs, k)
  BY <1>1, MaxIsGreatest
<1> QED BY <1>2, RowsForKey DEF LastFor

\* Rows with provenances of so many turns.
RowsOver(K, D, n) == Seq(K \X [desc : D, prov : SUBSET (1 .. n)])

\* Provenances are of so many turns, so one of the rows has most.
LEMMA WinnerIsARow ==
  ASSUME NEW n \in Nat, NEW K, NEW D,
         NEW rs \in RowsOver(K, D, n), NEW k \in Keys(rs)
  PROVE  \E i \in DOMAIN rs : rs[i][1] = k /\ Winner(rs, k) = rs[i][2]
<1> DEFINE size(i) == Cardinality(rs[i][2].prov)
           mine == RowsFor(rs, k)
           sizes == {size(i) : i \in mine}
           best == {i \in mine : \A j \in mine : size(j) <= size(i)}
<1>1. /\ mine # {} /\ mine \in SUBSET Nat
      /\ \A i \in mine : i \in DOMAIN rs /\ rs[i][1] = k
  BY RowsForKey DEF RowsOver
<1>2. ASSUME NEW i \in mine PROVE size(i) \in 0 .. n
  <2>1. rs[i] \in K \X [desc : D, prov : SUBSET (1 .. n)]
    BY <1>1, <1>2, LenProperties, ElementOfSeq DEF RowsOver
  <2>2. rs[i][2].prov \in SUBSET (1 .. n)
    BY <2>1
  <2>3. IsFiniteSet(1 .. n) /\ Cardinality(1 .. n) = n
    BY FS_Interval
  <2>4. Cardinality(rs[i][2].prov) \in Nat /\ Cardinality(rs[i][2].prov) <= n
    BY <2>2, <2>3, FS_Subset, FS_CardinalityType
  <2> QED BY <2>4
<1>3. PICK m \in sizes : \A l \in sizes : m >= l
  <2>1. sizes \in SUBSET (0 .. n) /\ sizes # {}
    BY <1>1, <1>2
  <2> QED BY <2>1, GreatestNat
<1>4. PICK i \in mine : m = size(i)
  BY <1>3
<1>5. i \in best
  <2>1. ASSUME NEW j \in mine PROVE size(j) <= size(i)
    <3>1. size(j) \in sizes
      OBVIOUS
    <3>2. size(i) >= size(j) /\ size(i) \in 0 .. n /\ size(j) \in 0 .. n
      BY <1>2, <1>3, <1>4, <3>1
    <3> HIDE DEF size
    <3> QED BY <3>2
  <2> QED BY <2>1
<1>6. Min(best) \in best
  <2>1. best # {} /\ best \in SUBSET Nat
    BY <1>1, <1>5
  <2> HIDE DEF best
  <2> QED BY <2>1, MinIsLeast
<1> QED BY <1>1, <1>6 DEF Winner
-------------------------------------------------------------------------------
(* The inductive invariant.                                                *)

\* Every row of an entity says something of it: at least what this turn said.
Described == \A i \in DOMAIN entRows : entRows[i][2].desc # {}

\* There is a row for each extracted name, by the time its edges look it up.
Aligned == step \in {"entVec", "entDocs", "relOps"} => Len(entRows) = Len(names)

\* A row of an edge has nothing its record has not.
RowsCovered ==
    \A i \in DOMAIN relRows :
        /\ relRows[i][2].desc \subseteq rels[relRows[i][1]].desc
        /\ relRows[i][2].prov \subseteq rels[relRows[i][1]].prov

RowsInv == Described /\ Aligned /\ RowsCovered
AgreeInv == StoresAgree /\ RowsInv

LEMMA SessionType ==
  ASSUME session \in Sessions
  PROVE  /\ session.turns \in Nat \ {0} /\ session.stated \in Nat
         /\ session.ents \subseteq Ents /\ session.pairs \subseteq Ents \X Ents
         /\ 1 \in Turns
<1>1. /\ session.turns \in Nat \ {0} /\ session.stated \in Nat
      /\ session.ents \subseteq Ents /\ session.pairs \subseteq session.ents \X session.ents
  BY IngestAssumption
<1> QED BY <1>1 DEF Turns

LEMMA InitAgrees == IngestInit => AgreeInv
<1> SUFFICES ASSUME IngestInit PROVE AgreeInv
  OBVIOUS
<1>1. IngestTypeOK
  <2>1. session \in Sessions
    BY DEF IngestInit
  <2>2. Absent \in EntRecords /\ Absent \in RelRecords
    BY DEF Absent, EntRecords, RelRecords
  <2>3. session.stated \in Nat /\ 1 \in Turns /\ MaxRetries \in Nat
    BY <2>1, SessionType, IngestAssumption
  <2>4. /\ ents \in [Ents -> EntRecords] /\ entVec \in [Ents -> EntRecords]
        /\ rels \in [Edges -> RelRecords] /\ relVec \in [Edges -> RelRecords]
        /\ nodes \in [Ents -> SUBSET Turns] /\ edges \in [Edges -> SUBSET Facts]
    BY <2>2 DEF IngestInit
  <2>5. /\ names \in Seq(Ents) /\ stated \in Seq(Statements) /\ Len(stated) <= session.stated
        /\ entRows \in Seq(Ents \X EntRecords) /\ relRows \in Seq(Edges \X RelRecords)
    BY <2>3 DEF IngestInit
  <2>6. retries \in 0 .. MaxRetries
    BY <2>3 DEF IngestInit
  <2> QED BY <2>1, <2>3, <2>4, <2>5, <2>6 DEF IngestInit, IngestTypeOK, IngestSteps
<1>2. DedupeSound /\ CacheCoversEdges /\ AcceptedEntitiesInGraph
  BY DEF IngestInit, DedupeSound, CacheCoversEdges, AcceptedEntitiesInGraph, Absent
<1>3. RowsInv
  BY DEF IngestInit, RowsInv, Described, Aligned, RowsCovered
<1> QED BY <1>1, <1>2, <1>3 DEF AgreeInv, StoresAgree

-------------------------------------------------------------------------------
(* Attempts and extraction.                                                *)

\* The steps that leave the stores as they are.
stores == <<cacheVars, indexes, graphVars, told>>

\* What is said of the stores is of these variables.
LEMMA StoresFrame ==
  ASSUME StoresAgree, UNCHANGED stores, IngestTypeOK'
  PROVE  StoresAgree'
  BY DEF StoresAgree, DedupeSound, CacheCoversEdges, AcceptedEntitiesInGraph, stores,
         cacheVars, indexes, graphVars

\* An attempt starts, or ends, without rows.
LEMMA NoRows ==
  ASSUME NoExtraction, step' \in {"summarize", "extract", "failed", "done"}
  PROVE  RowsInv'
  BY DEF NoExtraction, RowsInv, Described, Aligned, RowsCovered

\* Whatever fails, and whatever the stores hold by then: the attempt is over.
LEMMA FailsInv ==
  ASSUME Fails, IngestTypeOK, UNCHANGED session
  PROVE  /\ RowsInv' /\ UNCHANGED <<turn, retries, told>>
         /\ step' \in IngestSteps /\ attempt' \in {"primary", "fallback"} /\ hasSummary' \in BOOLEAN
         /\ names' \in Seq(Ents) /\ stated' \in Seq(Statements)
         /\ entRows' \in Seq(Ents \X EntRecords)' /\ relRows' \in Seq(Edges \X RelRecords)'
         /\ (Len(stated) <= session.stated)'
<1>1. /\ NoExtraction /\ step' \in {"extract", "failed"} /\ UNCHANGED <<turn, retries, told>>
      /\ attempt' \in {"primary", "fallback"} /\ hasSummary' \in BOOLEAN
  BY DEF Fails, IngestTypeOK
<1>2. session.stated \in Nat
  BY SessionType DEF IngestTypeOK
<1> QED BY <1>1, <1>2, NoRows DEF NoExtraction, IngestSteps

LEMMA FailsAgrees ==
  ASSUME AgreeInv, Fails, UNCHANGED <<session, cacheVars, indexes, graphVars>>
  PROVE  AgreeInv'
<1>1. IngestTypeOK'
  BY FailsInv DEF AgreeInv, StoresAgree, IngestTypeOK, cacheVars, indexes, graphVars, Turns,
                  EntRecords, RelRecords
<1> QED BY <1>1, FailsInv, StoresFrame DEF AgreeInv, StoresAgree, stores

\* A step that only moves on.
LEMMA MovesAgrees ==
  ASSUME AgreeInv, UNCHANGED <<session, stores, names, stated, rows>>,
         step' \in IngestSteps, step' \in {"entVec", "entDocs", "relOps"} => Aligned',
         attempt' \in {"primary", "fallback"}, turn' \in Turns, hasSummary' \in BOOLEAN,
         retries' \in 0 .. MaxRetries
  PROVE  AgreeInv'
<1> USE DEF stores, cacheVars, indexes, graphVars, rows
<1>1. IngestTypeOK'
  BY DEF AgreeInv, StoresAgree, IngestTypeOK, Turns, EntRecords, RelRecords
<1>2. RowsInv'
  BY DEF AgreeInv, RowsInv, Described, Aligned, RowsCovered
<1>3. StoresAgree'
  BY <1>1, StoresFrame DEF AgreeInv
<1> QED BY <1>2, <1>3 DEF AgreeInv

LEMMA SummarizeAgrees == ASSUME AgreeInv, Summarize PROVE AgreeInv'
<1>1. CASE Fails
  BY <1>1, FailsAgrees DEF Summarize
<1>2. CASE hasSummary' = TRUE /\ step' = "extract"
           /\ UNCHANGED <<attempt, turn, extraction, rows, retries, told>>
  BY <1>2, MovesAgrees DEF Summarize, AgreeInv, StoresAgree, IngestTypeOK, IngestSteps, stores, extraction
<1> QED BY <1>1, <1>2 DEF Summarize

LEMMA ExtractEntitiesAgrees == ASSUME AgreeInv, ExtractEntities PROVE AgreeInv'
<1> USE DEF ExtractEntities, cacheVars, indexes, graphVars, control, rows
<1>1. session \in Sessions /\ names' \in BoundedSeq(session.ents, MaxNames)
      /\ session.ents \subseteq Ents /\ MaxNames \in Nat
  BY SessionType, IngestAssumption DEF AgreeInv, StoresAgree, IngestTypeOK, ParsedEntities, Readable
<1>2. names' \in Seq(Ents)
  BY <1>1, ParsedIsSeq
<1>3. IngestTypeOK'
  BY <1>2 DEF AgreeInv, StoresAgree, IngestTypeOK, Turns, EntRecords, RelRecords, IngestSteps
<1>4. RowsInv'
  BY DEF AgreeInv, RowsInv, Described, Aligned, RowsCovered
<1> QED BY <1>3, <1>4, StoresFrame DEF AgreeInv, stores

LEMMA ExtractRelationshipsAgrees == ASSUME AgreeInv, ExtractRelationships PROVE AgreeInv'
<1> USE DEF ExtractRelationships, cacheVars, indexes, graphVars, control, rows
<1>1. session.stated \in Nat /\ session.pairs \subseteq Ents \X Ents
  BY SessionType DEF AgreeInv, StoresAgree, IngestTypeOK
<1>2. stated' \in BoundedSeq(Relatable, session.stated) /\ Relatable \in SUBSET Statements
  BY <1>1 DEF ParsedRelationships, Relatable, Statements
<1>3. stated' \in Seq(Statements) /\ Len(stated') <= session.stated
  BY <1>1, <1>2, ParsedIsSeq
<1>4. IngestTypeOK'
  BY <1>3 DEF AgreeInv, StoresAgree, IngestTypeOK, Turns, EntRecords, RelRecords, IngestSteps
<1>5. RowsInv'
  BY DEF AgreeInv, RowsInv, Described, Aligned, RowsCovered
<1> QED BY <1>4, <1>5, StoresFrame DEF AgreeInv, stores

LEMMA StepFailsAgrees == ASSUME AgreeInv, StepFails PROVE AgreeInv'
  BY FailsAgrees DEF StepFails

LEMMA VerifyFailsAgrees == ASSUME AgreeInv, VerifyFails PROVE AgreeInv'
  BY FailsAgrees DEF VerifyFails

-------------------------------------------------------------------------------
(* Entities.                                                               *)

\* The record an operation writes says something of the entity.
LEMMA RecordType ==
  ASSUME IngestTypeOK, NEW n \in Ents, NEW o \in Operations(n)
  PROVE  o.target \in Ents /\ Record(n, o) \in EntRecords /\ Record(n, o).desc # {}
<1>1. /\ session.ents \subseteq Ents
      /\ turn \in Turns /\ Prov \in SUBSET Turns
      /\ \A e \in Ents : /\ ents[e].desc \in SUBSET Turns /\ ents[e].prov \in SUBSET Turns
                         /\ entVec[e].desc \in SUBSET Turns
  BY SessionType DEF IngestTypeOK, EntRecords, Prov
<1>2. o.target \in Ents
  <2>1. CASE o = Fallback(n)
    BY <2>1 DEF Fallback
  <2>2. CASE o \in [act : {"ADD"}, target : session.ents]
    BY <1>1, <2>2
  <2>3. CASE o \in [act : {"UPDATE"}, target : {e \in Candidates(n) : ents[e] # Absent}]
    <3>1. o.target \in Candidates(n)
      BY <2>3
    <3> QED BY <3>1 DEF Candidates, ExactCandidates
  <2> QED BY <2>1, <2>2, <2>3 DEF Operations
<1>3. Shown(n, o.target) \in SUBSET Turns
  BY <1>1, <1>2 DEF Shown
<1> QED BY <1>1, <1>2, <1>3 DEF Record, EntRecords

LEMMA ApplyEntityOpsAgrees == ASSUME AgreeInv, ApplyEntityOps PROVE AgreeInv'
<1> USE DEF ApplyEntityOps, cacheVars, indexes, graphVars, control, extraction
<1>1. IngestTypeOK /\ names \in Seq(Ents)
  BY DEF AgreeInv, StoresAgree, IngestTypeOK
<1>2. Len(names) \in Nat /\ DOMAIN names = 1 .. Len(names)
      /\ \A i \in 1 .. Len(names) : names[i] \in Ents
  BY <1>1, LenProperties, ElementOfSeq
<1>3. PICK ops \in Batches :
         entRows' = [i \in DOMAIN names |-> <<ops[i].target, Record(names[i], ops[i])>>]
  OBVIOUS
<1>4. \A i \in DOMAIN names : ops[i] \in Operations(names[i])
  BY DEF Batches
<1>5. ASSUME NEW i \in 1 .. Len(names)
      PROVE  entRows'[i] \in Ents \X EntRecords /\ entRows'[i][2].desc # {}
  <2>1. ops[i].target \in Ents /\ Record(names[i], ops[i]) \in EntRecords
        /\ Record(names[i], ops[i]).desc # {}
    BY <1>1, <1>2, <1>4, RecordType
  <2> QED BY <1>2, <1>3, <2>1
<1>6. entRows' \in [1 .. Len(names) -> Ents \X EntRecords]
  BY <1>2, <1>3, <1>5
<1>7. entRows' \in Seq(Ents \X EntRecords) /\ Len(entRows') = Len(names)
      /\ DOMAIN entRows' = 1 .. Len(names)
  BY <1>2, <1>6, SeqDef, LenProperties
<1>8. ents' \in [Ents -> EntRecords]
  <2>1. ASSUME NEW e \in Keys(entRows') PROVE LastFor(entRows', e) \in EntRecords
    <3>1. PICK i \in DOMAIN entRows' : LastFor(entRows', e) = entRows'[i][2]
      BY <1>7, LastIsARow
    <3> QED BY <1>5, <1>7, <3>1
  <2> QED BY <1>1, <2>1 DEF IngestTypeOK
<1>9. IngestTypeOK'
  BY <1>1, <1>7, <1>8 DEF IngestTypeOK, Turns, EntRecords, RelRecords, IngestSteps
<1>10. RowsInv'
  BY <1>5, <1>7 DEF AgreeInv, RowsInv, Described, Aligned, RowsCovered
<1>11. StoresAgree'
  BY <1>9 DEF AgreeInv, StoresAgree, DedupeSound, CacheCoversEdges, AcceptedEntitiesInGraph
<1> QED BY <1>10, <1>11 DEF AgreeInv

\* The vector store keeps one of the rows.
LEMMA WinnersType ==
  ASSUME IngestTypeOK
  PROVE  /\ \A e \in Keys(entRows) : Winner(entRows, e) \in EntRecords
         /\ \A x \in Keys(relRows) :
               \E i \in DOMAIN relRows : /\ relRows[i] \in Edges \X RelRecords
                                         /\ relRows[i][1] = x
                                         /\ Winner(relRows, x) = relRows[i][2]
<1>1. session.turns \in Nat
  BY SessionType DEF IngestTypeOK
<1>2. /\ entRows \in RowsOver(Ents, SUBSET Turns, session.turns)
      /\ relRows \in RowsOver(Edges, SUBSET Facts, session.turns)
  BY DEF IngestTypeOK, EntRecords, RelRecords, Turns, RowsOver
<1>3. ASSUME NEW e \in Keys(entRows) PROVE Winner(entRows, e) \in EntRecords
  <2>1. PICK i \in DOMAIN entRows : Winner(entRows, e) = entRows[i][2]
    BY <1>1, <1>2, WinnerIsARow
  <2>2. entRows[i] \in Ents \X EntRecords
    BY LenProperties, ElementOfSeq DEF IngestTypeOK
  <2> QED BY <2>1, <2>2
<1>4. ASSUME NEW x \in Keys(relRows)
      PROVE  \E i \in DOMAIN relRows : /\ relRows[i] \in Edges \X RelRecords
                                       /\ relRows[i][1] = x
                                       /\ Winner(relRows, x) = relRows[i][2]
  <2>1. PICK i \in DOMAIN relRows : relRows[i][1] = x /\ Winner(relRows, x) = relRows[i][2]
    BY <1>1, <1>2, WinnerIsARow
  <2>2. relRows[i] \in Edges \X RelRecords
    BY LenProperties, ElementOfSeq DEF IngestTypeOK
  <2> QED BY <2>1, <2>2
<1> QED BY <1>3, <1>4

LEMMA AddEntityVectorsAgrees == ASSUME AgreeInv, AddEntityVectors PROVE AgreeInv'
<1> USE DEF AddEntityVectors, cacheVars, graphVars, control, extraction, rows
<1>1. entVec' \in [Ents -> EntRecords]
  BY WinnersType DEF AgreeInv, StoresAgree, IngestTypeOK
<1>2. IngestTypeOK'
  BY <1>1 DEF AgreeInv, StoresAgree, IngestTypeOK, Turns, EntRecords, RelRecords, IngestSteps
<1>3. StoresAgree' /\ RowsInv'
  BY <1>2 DEF AgreeInv, StoresAgree, DedupeSound, CacheCoversEdges, AcceptedEntitiesInGraph,
              RowsInv, Described, Aligned, RowsCovered
<1> QED BY <1>3 DEF AgreeInv

LEMMA AddEntityDocsAgrees == ASSUME AgreeInv, AddEntityDocs PROVE AgreeInv'
<1> USE DEF AddEntityDocs, cacheVars, graphVars, control, extraction, rows
<1>1. entDocs' \subseteq Ents
  BY LenProperties, ElementOfSeq DEF AgreeInv, StoresAgree, IngestTypeOK, Keys
<1>2. IngestTypeOK' /\ RowsInv' /\ UNCHANGED told
  <2>1. CASE Fails
    BY <1>1, <2>1, FailsInv DEF AgreeInv, StoresAgree, IngestTypeOK, Turns, EntRecords, RelRecords
  <2>2. CASE step' = "relOps" /\ UNCHANGED <<control, extraction, rows, retries, told>>
    BY <1>1, <2>2 DEF AgreeInv, StoresAgree, IngestTypeOK, Turns, EntRecords, RelRecords, IngestSteps,
                      RowsInv, Described, Aligned, RowsCovered
  <2> QED BY <2>1, <2>2
<1>3. StoresAgree'
  BY <1>2 DEF AgreeInv, StoresAgree, DedupeSound, CacheCoversEdges, AcceptedEntitiesInGraph
<1> QED BY <1>2, <1>3 DEF AgreeInv

-------------------------------------------------------------------------------
(* Relationships.                                                          *)

\* A name that was extracted has an entity behind it.
LEMMA ResolvedType ==
  ASSUME IngestTypeOK, Len(entRows) = Len(names), NEW n, Extracted(n)
  PROVE  Resolved(n) \in Ents
<1> DEFINE places == {i \in DOMAIN names : names[i] = n}
<1>1. DOMAIN names = 1 .. Len(names) /\ Len(names) \in Nat
  BY LenProperties DEF IngestTypeOK
<1>2. places # {} /\ places \in SUBSET (0 .. Len(names))
  BY <1>1 DEF Extracted
<1>3. Max(places) \in places
  <2> HIDE DEF places
  <2> QED BY <1>1, <1>2, MaxIsGreatest
<1>4. Max(places) \in 1 .. Len(entRows)
  BY <1>1, <1>3
<1>5. entRows[Max(places)] \in Ents \X EntRecords
  BY <1>4, ElementOfSeq DEF IngestTypeOK
<1> QED BY <1>5 DEF Resolved

\* A text is added to the record of an edge, and noted.
LEMMA MergedType ==
  ASSUME IngestTypeOK, NEW x \in Edges, NEW t \in Facts
  PROVE  /\ Merged(x, t) \in RelRecords
         /\ t \in Merged(x, t).desc
         /\ rels[x].desc \subseteq Merged(x, t).desc
         /\ rels[x].prov \subseteq Merged(x, t).prov
<1>1. rels[x] \in RelRecords /\ Prov \in SUBSET Turns
  BY DEF IngestTypeOK, Prov
<1> QED BY <1>1 DEF Merged, RelRecords

\* The cache only grows.
CacheGrows == \A x \in Edges : /\ rels[x].desc \subseteq rels'[x].desc
                               /\ rels[x].prov \subseteq rels'[x].prov

LEMMA UpsertRelationshipAgrees == ASSUME AgreeInv, UpsertRelationship PROVE AgreeInv' /\ CacheGrows
<1> USE DEF UpsertRelationship, indexes, graphVars, control
<1>1. IngestTypeOK /\ step = "relOps" /\ Len(entRows) = Len(names)
  BY DEF AgreeInv, StoresAgree, RowsInv, Aligned
<1>2. /\ Head(stated) \in Statements /\ stated' \in Seq(Statements)
      /\ (Len(stated) <= session.stated)'
  <2>1. Head(stated) \in Statements /\ Tail(stated) \in Seq(Statements)
        /\ Len(Tail(stated)) = Len(stated) - 1
    BY <1>1, HeadTailProperties DEF IngestTypeOK
  <2>2. Len(stated) \in Nat /\ Len(stated) <= session.stated /\ session.stated \in Nat
    BY <1>1, LenProperties, SessionType DEF IngestTypeOK
  <2> QED BY <2>1, <2>2
<1> DEFINE s == Head(stated)
           x == EdgeOf(s)
           news == Extracted(s[1][1]) /\ Extracted(s[1][2]) /\ <<x, s[2]>> \notin full
<1>3. CASE ~news
  <2>1. UNCHANGED <<rels, full, relRows>>
    BY <1>3
  <2>2. IngestTypeOK'
    BY <1>1, <1>2, <2>1 DEF IngestTypeOK, Turns, EntRecords, RelRecords
  <2>3. RowsInv'
    BY <2>1 DEF AgreeInv, RowsInv, Described, Aligned, RowsCovered
  <2>4. StoresAgree'
    BY <2>1, <2>2, StoresFrame DEF AgreeInv, stores, cacheVars
  <2> QED BY <2>1, <2>3, <2>4 DEF AgreeInv, CacheGrows
<1>4. CASE news
  <2>1. x \in Edges /\ s[2] \in Facts
    <3>1. Resolved(s[1][1]) \in Ents /\ Resolved(s[1][2]) \in Ents
      BY <1>1, <1>4, ResolvedType
    <3> QED BY <1>2, <3>1 DEF EdgeOf, Edges, Statements
  <2>2. PICK m : m = Merged(x, s[2])
    OBVIOUS
  <2>3. /\ m \in RelRecords /\ s[2] \in m.desc
        /\ rels[x].desc \subseteq m.desc /\ rels[x].prov \subseteq m.prov
    BY <1>1, <2>1, <2>2, MergedType
  <2>4. /\ rels' = [rels EXCEPT ![x] = m] /\ full' = full \cup {<<x, s[2]>>}
        /\ relRows' = Append(relRows, <<x, m>>)
    BY <1>4, <2>2
  <2>5. /\ rels \in [Edges -> RelRecords] /\ rels' \in [Edges -> RelRecords]
        /\ rels'[x] = m /\ \A y \in Edges : y # x => rels'[y] = rels[y]
    BY <1>1, <2>1, <2>3, <2>4 DEF IngestTypeOK
  <2>6. CacheGrows
    BY <2>3, <2>5 DEF CacheGrows
  <2>7. /\ relRows' \in Seq(Edges \X RelRecords)
        /\ Len(relRows) \in Nat /\ DOMAIN relRows' = 1 .. Len(relRows) + 1
        /\ \A i \in 1 .. Len(relRows) : relRows'[i] = relRows[i]
        /\ relRows'[Len(relRows) + 1] = <<x, m>>
        /\ \A i \in 1 .. Len(relRows) : relRows[i] \in Edges \X RelRecords
    <3>1. relRows \in Seq(Edges \X RelRecords) /\ <<x, m>> \in Edges \X RelRecords
      BY <1>1, <2>1, <2>3 DEF IngestTypeOK
    <3> HIDE DEF x
    <3> QED BY <2>4, <3>1, AppendProperties, LenProperties, ElementOfSeq
  <2>8. IngestTypeOK'
    <3>1. full' \subseteq Edges \X Facts
      BY <1>1, <2>1, <2>4 DEF IngestTypeOK
    <3> HIDE DEF x
    <3> QED BY <1>1, <1>2, <2>5, <2>7, <3>1 DEF IngestTypeOK, Turns, EntRecords, RelRecords
  <2>9. DedupeSound'
    <3>1. ASSUME NEW p \in full' PROVE p[2] \in rels'[p[1]].desc
      <4>1. CASE p \in full
        <5>1. p[1] \in Edges /\ p[2] \in rels[p[1]].desc
          BY <1>1, <4>1 DEF AgreeInv, StoresAgree, IngestTypeOK, DedupeSound
        <5> QED BY <2>6, <5>1 DEF CacheGrows
      <4>2. CASE p = <<x, s[2]>>
        BY <2>3, <2>5, <4>2
      <4> QED BY <2>4, <4>1, <4>2
    <3> QED BY <3>1 DEF DedupeSound
  <2>10. CacheCoversEdges'
    BY <2>6 DEF AgreeInv, StoresAgree, CacheCoversEdges, CacheGrows
  <2>11. AcceptedEntitiesInGraph'
    BY DEF AgreeInv, StoresAgree, AcceptedEntitiesInGraph
  <2>12. RowsCovered'
    <3>1. ASSUME NEW i \in DOMAIN relRows'
          PROVE  /\ relRows'[i][2].desc \subseteq rels'[relRows'[i][1]].desc
                 /\ relRows'[i][2].prov \subseteq rels'[relRows'[i][1]].prov
      <4>1. CASE i \in 1 .. Len(relRows)
        <5>1. /\ relRows'[i] = relRows[i] /\ relRows[i][1] \in Edges
              /\ relRows[i][2].desc \subseteq rels[relRows[i][1]].desc
              /\ relRows[i][2].prov \subseteq rels[relRows[i][1]].prov
          BY <1>1, <2>7, <4>1, LenProperties DEF IngestTypeOK, AgreeInv, RowsInv, RowsCovered
        <5> QED BY <2>6, <5>1 DEF CacheGrows
      <4>2. CASE i = Len(relRows) + 1
        BY <2>5, <2>7, <4>2
      <4> QED BY <2>7, <4>1, <4>2
    <3> QED BY <3>1 DEF RowsCovered
  <2>13. Described' /\ Aligned'
    BY DEF AgreeInv, RowsInv, Described, Aligned
  <2> QED BY <2>6, <2>8, <2>9, <2>10, <2>11, <2>12, <2>13 DEF AgreeInv, StoresAgree, RowsInv
<1> QED BY <1>3, <1>4

LEMMA EndRelationshipsAgrees == ASSUME AgreeInv, EndRelationships PROVE AgreeInv'
<1> USE DEF EndRelationships, cacheVars, indexes, graphVars, control, rows
<1>1. names' \in Seq(Ents)
  OBVIOUS
<1>2. IngestTypeOK'
  BY <1>1 DEF AgreeInv, StoresAgree, IngestTypeOK, Turns, EntRecords, RelRecords, IngestSteps
<1>3. RowsInv'
  BY DEF AgreeInv, RowsInv, Described, Aligned, RowsCovered
<1> QED BY <1>2, <1>3, StoresFrame DEF AgreeInv, stores

\* The vectors are those of rows, which the cache covers.
LEMMA AddRelationshipVectorsAgrees == ASSUME AgreeInv, AddRelationshipVectors PROVE AgreeInv'
<1> USE DEF AddRelationshipVectors, cacheVars, graphVars, control, extraction, rows
<1>1. IngestTypeOK
  BY DEF AgreeInv, StoresAgree
<1>2. ASSUME NEW x \in Edges
      PROVE  /\ relVec'[x] \in RelRecords
             /\ relVec'[x].desc \subseteq rels[x].desc /\ relVec'[x].prov \subseteq rels[x].prov
  <2>1. CASE x \in Keys(relRows)
    <3>1. PICK i \in DOMAIN relRows : /\ relRows[i] \in Edges \X RelRecords
                                      /\ relRows[i][1] = x
                                      /\ Winner(relRows, x) = relRows[i][2]
      BY <1>1, <2>1, WinnersType
    <3>2. relVec'[x] = relRows[i][2]
      BY <2>1, <3>1
    <3> QED BY <3>1, <3>2 DEF AgreeInv, RowsInv, RowsCovered
  <2>2. CASE x \notin Keys(relRows)
    BY <1>1, <2>2 DEF AgreeInv, StoresAgree, IngestTypeOK, CacheCoversEdges
  <2> QED BY <2>1, <2>2
<1>3. relVec' \in [Edges -> RelRecords]
  BY <1>2
<1>4. IngestTypeOK' /\ RowsInv' /\ UNCHANGED told
  <2>1. CASE Fails
    BY <1>3, <2>1, FailsInv DEF AgreeInv, StoresAgree, IngestTypeOK, Turns, EntRecords, RelRecords
  <2>2. CASE step' = "graph" /\ UNCHANGED <<control, extraction, rows, retries, told>>
    BY <1>3, <2>2 DEF AgreeInv, StoresAgree, IngestTypeOK, Turns, EntRecords, RelRecords, IngestSteps,
                      RowsInv, Described, Aligned, RowsCovered
  <2> QED BY <2>1, <2>2
<1>5. CacheCoversEdges'
  BY <1>2 DEF AgreeInv, StoresAgree, CacheCoversEdges
<1>6. DedupeSound' /\ AcceptedEntitiesInGraph'
  BY <1>4 DEF AgreeInv, StoresAgree, DedupeSound, AcceptedEntitiesInGraph
<1> QED BY <1>4, <1>5, <1>6 DEF AgreeInv, StoresAgree

-------------------------------------------------------------------------------
(* The graph.                                                              *)

LEMMA SyncGraphAgrees == ASSUME AgreeInv, SyncGraph PROVE AgreeInv'
<1> USE DEF SyncGraph, cacheVars, indexes, control, extraction, rows
<1>1. IngestTypeOK
  BY DEF AgreeInv, StoresAgree
<1>2. PICK es \in SUBSET Keys(entRows) : nodes' = NodesWith(es)
  OBVIOUS
<1>3. PICK xs \in SUBSET DOMAIN relRows : edges' = EdgesWith(xs, nodes')
  OBVIOUS
<1>4. ASSUME NEW e \in Ents
      PROVE  nodes'[e] \in SUBSET Turns /\ (nodes[e] # {} => nodes'[e] # {})
  <2>1. CASE e \in es
    <3>1. PICK i \in DOMAIN entRows : LastFor(entRows, e) = entRows[i][2]
      BY <1>1, <1>2, <2>1, LastIsARow DEF IngestTypeOK
    <3>2. entRows[i] \in Ents \X EntRecords /\ entRows[i][2].desc # {}
      BY <1>1, LenProperties, ElementOfSeq DEF AgreeInv, RowsInv, Described, IngestTypeOK
    <3> QED BY <1>2, <2>1, <3>1, <3>2 DEF NodesWith, EntRecords
  <2>2. CASE e \notin es
    BY <1>1, <1>2, <2>2 DEF NodesWith, IngestTypeOK
  <2> QED BY <2>1, <2>2
<1>5. ASSUME NEW x \in Edges
      PROVE  edges'[x] \in SUBSET Facts /\ edges'[x] \subseteq rels[x].desc
  <2> DEFINE mine == xs \cap RowsFor(relRows, x)
  <2>1. edges'[x] = edges[x] \/ (mine # {} /\ edges'[x] = relRows[Max(mine)][2].desc)
    BY <1>3 DEF EdgesWith
  <2>2. CASE edges'[x] = edges[x]
    BY <1>1, <2>2 DEF AgreeInv, StoresAgree, IngestTypeOK, CacheCoversEdges
  <2>3. CASE mine # {} /\ edges'[x] = relRows[Max(mine)][2].desc
    <3>1. Len(relRows) \in Nat /\ DOMAIN relRows = 1 .. Len(relRows)
      BY <1>1, LenProperties DEF IngestTypeOK
    <3>2. mine \in SUBSET (0 .. Len(relRows))
      BY <3>1 DEF RowsFor
    <3>3. Max(mine) \in mine
      <4> HIDE DEF mine
      <4> QED BY <2>3, <3>1, <3>2, MaxIsGreatest
    <3>4. Max(mine) \in DOMAIN relRows /\ relRows[Max(mine)][1] = x
      BY <3>3 DEF RowsFor
    <3>5. relRows[Max(mine)] \in Edges \X RelRecords
      BY <1>1, <3>1, <3>4, ElementOfSeq DEF IngestTypeOK
    <3> HIDE DEF mine
    <3> QED BY <2>3, <3>4, <3>5 DEF AgreeInv, RowsInv, RowsCovered, RelRecords
  <2> QED BY <2>1, <2>2, <2>3
<1>6. nodes' \in [Ents -> SUBSET Turns] /\ edges' \in [Edges -> SUBSET Facts]
  BY <1>2, <1>3, <1>4, <1>5 DEF NodesWith, EdgesWith
<1>7. IngestTypeOK'
  BY <1>1, <1>6 DEF IngestTypeOK, Turns, EntRecords, RelRecords, IngestSteps
<1>8. CacheCoversEdges'
  BY <1>5 DEF AgreeInv, StoresAgree, CacheCoversEdges
<1>9. AcceptedEntitiesInGraph'
  BY <1>1, <1>4 DEF AgreeInv, StoresAgree, AcceptedEntitiesInGraph, IngestTypeOK
<1>10. DedupeSound' /\ RowsInv'
  BY DEF AgreeInv, StoresAgree, DedupeSound, RowsInv, Described, Aligned, RowsCovered
<1> QED BY <1>7, <1>8, <1>9, <1>10 DEF AgreeInv, StoresAgree

\* What the look-up of all ids lets pass has its nodes.
LEMMA AcceptAgrees == ASSUME AgreeInv, Accept PROVE AgreeInv'
<1> USE DEF Accept, cacheVars, indexes, graphVars
<1>1. IngestTypeOK
  BY DEF AgreeInv, StoresAgree
<1>2. Keys(entRows) \subseteq Ents
  BY <1>1, LenProperties, ElementOfSeq DEF IngestTypeOK, Keys
<1>3. \A e \in Keys(entRows) : nodes[e] # {}
  BY DEF Verified, FoundEntities
<1>4. AcceptedEntitiesInGraph'
  BY <1>3 DEF AgreeInv, StoresAgree, AcceptedEntitiesInGraph
<1>5. turn' \in Turns
  <2>1. session.turns \in Nat /\ turn \in 1 .. session.turns
    BY <1>1, SessionType DEF IngestTypeOK, Turns
  <2> QED BY <2>1 DEF Turns
<1>6. RowsInv'
  BY NoRows
<1>7. IngestTypeOK'
  <2>1. session.stated \in Nat
    BY <1>1, SessionType DEF IngestTypeOK
  <2>2. /\ names' \in Seq(Ents) /\ stated' \in Seq(Statements) /\ (Len(stated) <= session.stated)'
        /\ entRows' \in Seq(Ents \X EntRecords) /\ relRows' \in Seq(Edges \X RelRecords)
    BY <2>1 DEF NoExtraction
  <2>3. told' \subseteq Ents /\ step' \in IngestSteps
    BY <1>1, <1>2 DEF IngestTypeOK, IngestSteps
  <2> QED BY <1>1, <1>5, <2>2, <2>3 DEF IngestTypeOK, Turns, EntRecords, RelRecords
<1>8. DedupeSound' /\ CacheCoversEdges'
  BY DEF AgreeInv, StoresAgree, DedupeSound, CacheCoversEdges
<1> QED BY <1>4, <1>6, <1>7, <1>8 DEF AgreeInv, StoresAgree

LEMMA IngestAgainAgrees == ASSUME AgreeInv, IngestAgain PROVE AgreeInv'
<1> USE DEF IngestAgain, cacheVars, indexes, extraction, rows
<1>1. IngestTypeOK
  BY DEF AgreeInv, StoresAgree
<1>2. 1 \in Turns /\ MaxRetries \in Nat
  BY <1>1, SessionType, IngestAssumption DEF IngestTypeOK
<1>3. retries' \in 0 .. MaxRetries
  BY <1>1, <1>2 DEF IngestTypeOK
<1>4. IngestTypeOK'
  BY <1>1, <1>2, <1>3 DEF IngestTypeOK, Turns, EntRecords, RelRecords, IngestSteps
<1>5. CacheCoversEdges' /\ AcceptedEntitiesInGraph' /\ DedupeSound'
  BY DEF AgreeInv, StoresAgree, CacheCoversEdges, AcceptedEntitiesInGraph, DedupeSound
<1>6. RowsInv'
  BY DEF AgreeInv, RowsInv, Described, Aligned, RowsCovered
<1> QED BY <1>4, <1>5, <1>6 DEF AgreeInv, StoresAgree

-------------------------------------------------------------------------------
(* The theorems.                                                           *)

LEMMA IngestNextAgrees == AgreeInv /\ [IngestNext]_ingestVars => AgreeInv' /\ CacheGrows
<1> SUFFICES ASSUME AgreeInv, [IngestNext]_ingestVars PROVE AgreeInv' /\ CacheGrows
  OBVIOUS
<1>1. CASE UpsertRelationship
  BY <1>1, UpsertRelationshipAgrees
<1>2. AgreeInv' \/ UpsertRelationship
  <2>1. CASE UNCHANGED ingestVars
    BY <2>1, MovesAgrees DEF ingestVars, AgreeInv, StoresAgree, IngestTypeOK, RowsInv, Aligned, stores, rows,
                           control, extraction
  <2> QED BY <2>1, SummarizeAgrees, ExtractEntitiesAgrees, ExtractRelationshipsAgrees,
             StepFailsAgrees, ApplyEntityOpsAgrees, AddEntityVectorsAgrees, AddEntityDocsAgrees,
             EndRelationshipsAgrees, AddRelationshipVectorsAgrees, SyncGraphAgrees, AcceptAgrees,
             VerifyFailsAgrees, IngestAgainAgrees DEF IngestNext
<1>3. UNCHANGED rels \/ UpsertRelationship
  BY DEF IngestNext, ingestVars, cacheVars, Summarize, ExtractEntities, ExtractRelationships, StepFails,
         ApplyEntityOps, AddEntityVectors, AddEntityDocs, EndRelationships,
         AddRelationshipVectors, SyncGraph, Accept, VerifyFails, IngestAgain
<1> QED BY <1>1, <1>2, <1>3 DEF CacheGrows

\* The strengthened invariant holds throughout.
THEOREM AgreementHolds == IngestSpec => []AgreeInv
<1>1. AgreeInv /\ [IngestNext]_ingestVars => AgreeInv'
  BY IngestNextAgrees
<1> QED BY InitAgrees, <1>1, PTL DEF IngestSpec

\* summarize_and_ingest_turn: whichever attempt fails and wherever, what is noted
\* as processed is in the record of its edge, the cache covers vectors and
\* graph, and every entity an accepted turn mentioned has its node.
THEOREM StoresAlwaysAgree == IngestSpec => []StoresAgree
<1>1. AgreeInv => StoresAgree
  BY DEF AgreeInv
<1> QED BY AgreementHolds, <1>1, PTL

\* upsert_from_extraction: no step takes a text or a turn from a relationship.
THEOREM RelationshipsOnlyGrow == IngestSpec => RelationshipsAccumulate
<1>1. AgreeInv /\ [IngestNext]_ingestVars =>
        [\A x \in Edges : /\ rels[x].desc \subseteq rels'[x].desc
                          /\ rels[x].prov \subseteq rels'[x].prov]_ingestVars
  BY IngestNextAgrees DEF CacheGrows
<1> QED BY AgreementHolds, <1>1, PTL DEF IngestSpec, RelationshipsAccumulate
==============================================================================
