---------------------------- MODULE LocomoRunProofs ----------------------------
(***************************************************************************)
(* Proofs about LocomoRun, for any samples, sessions and settings.         *)
(***************************************************************************)
EXTENDS LocomoRun, FiniteSetTheorems, TLAPS

\* What typing needs to know of the step a process is at.
Placed ==
    /\ pc \in {"idle", "start", "refresh"} =>
          resume = 0 /\ session = 1 /\ copied = {} /\ partial = FALSE
    /\ pc # "idle" => settings \in Settings
    /\ pc \in {"flush", "save"} => session <= NSessions[sample]
    /\ pc \in {"ingest", "flush", "save"} => "ingest" \in stages
    /\ pc = "restore" /\ "ingest" \in stages =>
          resume = 0 \/ resume \in Taken(sample)
    /\ snapshots = [s \in Samples |-> snapshots[s]]

TInv == TypeOK /\ Placed

-------------------------------------------------------------------------------
\* The samples start at 1, and a sample has at least one session.
LEMMA Numbers ==
    /\ NSamples \in Nat /\ 1 \in Samples
    /\ \A s \in Samples : /\ s \in Nat /\ NSessions[s] \in Nat /\ NSessions[s] > 0
                          /\ 0 \in 0 .. NSessions[s] /\ 1 \in 1 .. NSessions[s] + 1
  BY LocomoAssumption DEF Samples

\* What the sessions up to k contribute grows by one piece per session.
LEMMA PrefixSteps ==
    ASSUME NEW s, NEW c, NEW k \in Nat
    PROVE  /\ Prefix(s, 0, c) = {}
           /\ Prefix(s, k + 1, c) = Prefix(s, k, c) \cup {<<s, k + 1, c>>}
  BY DEF Prefix

\* Pieces of the sessions of a sample are pieces.
LEMMA PrefixPieces ==
    ASSUME NEW s \in Samples, NEW c \in Settings, NEW k \in 0 .. NSessions[s]
    PROVE  /\ Prefix(s, k, c) \in SUBSET Pieces
           /\ k # 0 => <<s, k, c>> \in Pieces
  BY Numbers DEF Prefix, Pieces, Sessions

\* Snapshots that are compatible are those of the first sessions, and their
\* number is the last of them.
LEMMA CompatibleTaken ==
    ASSUME NEW s \in Samples, Compatible(s)
    PROVE  /\ Highest(s) \in 0 .. NSessions[s]
           /\ Taken(s) = 1 .. Highest(s)
  <1> DEFINE n == NSessions[s]
  <1>1. n \in Nat /\ Taken(s) \subseteq 1 .. n
    BY Numbers DEF Taken, Sessions
  <1>2. IsFiniteSet(1 .. n) /\ Cardinality(1 .. n) = n
    BY <1>1, FS_Interval
  <1>3. IsFiniteSet(Taken(s)) /\ Highest(s) \in Nat /\ Highest(s) <= n
    BY <1>1, <1>2, FS_Subset, FS_CardinalityType DEF Highest
  <1>4. Taken(s) \subseteq 1 .. Highest(s)
    BY <1>1, <1>3 DEF Compatible
  <1>5. IsFiniteSet(1 .. Highest(s)) /\ Cardinality(1 .. Highest(s)) = Highest(s)
    BY <1>3, FS_Interval
  <1>6. Taken(s) = 1 .. Highest(s)
    BY <1>4, <1>5, FS_Subset DEF Highest
  <1> QED BY <1>3, <1>6

-------------------------------------------------------------------------------
(* Types *)

\* The initial state is well typed.
LEMMA InitTInv == Init => TInv
  <1> SUFFICES ASSUME Init PROVE TInv
    OBVIOUS
  <1>1. TypeOK
    BY Numbers DEF Init, TypeOK, Steps, WorkerSteps, Contents, Absent, Sessions
  <1>2. Placed
    BY Numbers DEF Init, Placed
  <1> QED BY <1>1, <1>2 DEF TInv

\* Every step keeps the types, and what they rest on.
LEMMA NextTInv == TInv /\ [Next]_vars => TInv'
  <1> SUFFICES ASSUME TInv, [Next]_vars PROVE TInv'
    OBVIOUS
  <1> DEFINE s == sample
  <1>0. /\ s \in Samples /\ s \in Nat /\ NSessions[s] \in Nat /\ NSessions[s] > 0
        /\ 0 \in 0 .. NSessions[s] /\ 1 \in 1 .. NSessions[s] + 1
    BY Numbers DEF TInv, TypeOK
  <1> USE DEF TInv, TypeOK, Placed, vars, process, launch, files, Steps, WorkerSteps
  <1>1. CASE UNCHANGED vars
    BY <1>1 DEF Taken
  <1>2. CASE Launch
    BY <1>2, Numbers DEF Launch, Stages
  <1>3. CASE KillWorker
    BY <1>3, <1>0 DEF KillWorker, WorkerGone, Unfinished
  <1>4. CASE Kill
    BY <1>4, Numbers DEF Kill, WorkerGone, RunGone, Unfinished
  <1>5. CASE StartIngest
    <2>1. /\ Highest(s) \in 0 .. NSessions[s]
          /\ Taken(s) = 1 .. Highest(s)
      BY <1>5, <1>0, CompatibleTaken DEF StartIngest
    <2>2. Highest(s) # 0 => snapshots[s][Highest(s)] \in Snapshots
      BY <1>0, <2>1 DEF Taken, Sessions
    <2>3. mem' \in SUBSET Pieces /\ partial' \in BOOLEAN
      BY <1>5, <2>2 DEF StartIngest, Snapshots
    <2>4. resume' = 0 \/ resume' \in Taken(s)'
      BY <1>5, <2>1 DEF StartIngest, Taken
    <2> QED BY <1>5, <1>0, <2>1, <2>3, <2>4 DEF StartIngest
  <1>6. CASE StartArchive
    BY <1>6, <1>0 DEF StartArchive, Contents
  <1>7. CASE StartFails
    BY <1>7, <1>0 DEF StartFails, WorkerGone
  <1>8. CASE RestoreGraph
    <2>1. GraphFile \in SUBSET Pieces
      <3>1. CASE "ingest" \in stages
        <4>1. resume \in Sessions(s) /\ GraphFile = snapshots[s][resume].graph
          BY <1>8, <1>0, <3>1 DEF RestoreGraph, GraphFile, Sessions
        <4>2. snapshots[s][resume] # None
          BY <4>1, <1>8, <1>0, <3>1 DEF RestoreGraph, Taken, Sessions
        <4>3. snapshots[s][resume] \in Snapshots
          BY <4>1, <4>2, <1>0
        <4> QED BY <4>1, <4>3 DEF Snapshots
      <3>2. CASE "ingest" \notin stages
        <4>1. archive[s] \in Contents
          BY <1>0
        <4> QED BY <3>2, <4>1, <1>8 DEF RestoreGraph, GraphFile, Contents
      <3> QED BY <3>1, <3>2
    <2>2. graph' \in SUBSET Pieces /\ partial' \in BOOLEAN
      BY <1>8, <2>1 DEF RestoreGraph
    <2> QED BY <1>8, <2>2 DEF RestoreGraph, AfterRestore
  <1>9. CASE ClearGraph
    BY <1>9 DEF ClearGraph, AfterRestore
  <1>10. CASE ClearFails
    BY <1>10 DEF ClearFails, Raise
  <1>11. CASE IngestSession
    <2>1. Piece \in Pieces
      BY <1>11, <1>0 DEF IngestSession, Piece, Pieces, Sessions
    <2> QED BY <1>11, <1>0, <2>1 DEF IngestSession
  <1>12. CASE IngestFails
    <2>1. Piece \in Pieces
      BY <1>12, <1>0 DEF IngestFails, Piece, Pieces, Sessions
    <2> QED BY <1>12, <1>0, <2>1 DEF IngestFails, Raise
  <1>13. CASE Flush
    BY <1>13 DEF Flush
  <1>14. CASE FlushFails
    BY <1>14 DEF FlushFails, Raise
  <1>15. CASE SaveSnapshot
    <2> DEFINE new == [settings |-> settings, stores |-> working,
                       graph |-> graph, partial |-> partial]
    <2>1. new \in Snapshots /\ session \in Sessions(s)
      BY <1>15, <1>0 DEF SaveSnapshot, Snapshots, Sessions
    <2>2. \A t \in Samples : snapshots'[t] \in [Sessions(t) -> {None} \cup Snapshots]
      BY <1>15, <1>0, <2>1 DEF SaveSnapshot
    <2>3. snapshots' = [t \in Samples |-> snapshots'[t]]
      BY <1>15 DEF SaveSnapshot
    <2> QED BY <1>15, <1>0, <2>1, <2>2, <2>3 DEF SaveSnapshot
  <1>16. CASE SaveFails
    BY <1>16 DEF SaveFails, Raise
  <1>17. CASE EndIngest
    BY <1>17 DEF EndIngest
  <1>18. CASE \/ RestoreUnreadable \/ ExportGraph \/ ExportFails \/ CopyFails
              \/ EndBackup \/ Answer \/ AnswerFails
    BY <1>18, <1>0 DEF RestoreUnreadable, ExportGraph, ExportFails, CopyFails,
       EndBackup, Answer, AnswerFails, Raise, Unfinished
  <1>19. ASSUME NEW p \in Parts, CopyPart(p) PROVE TInv'
    <2>1. archive' \in [Samples -> Contents]
      BY <1>19, <1>0 DEF CopyPart, Contents, Parts
    <2>2. torn' \in SUBSET Samples
      BY <1>19 DEF CopyPart
    <2> QED BY <1>19, <2>1, <2>2 DEF CopyPart
  <1>22. ASSUME NEW p \in Parts, CopyInPart(p) PROVE TInv'
    <2> DEFINE old == IF archive[s].stores = None THEN {} ELSE archive[s].stores
    <2>1. old \in SUBSET Pieces
      BY <1>0 DEF Contents
    <2>2. PICK f \in (IF p = "stores" THEN SUBSET (working \cup old) ELSE {Torn}) :
              archive' = [archive EXCEPT ![s][p] = f]
      BY <1>22 DEF CopyInPart
    <2>3. archive' \in [Samples -> Contents]
      <3>1. CASE p = "stores"
        <4>1. f \in SUBSET Pieces
          BY <2>1, <2>2, <3>1
        <4> QED BY <2>2, <3>1, <4>1, <1>0 DEF Contents
      <3>2. CASE p = "graph"
        BY <2>2, <3>2, <1>0 DEF Contents
      <3> QED BY <3>1, <3>2 DEF Parts
    <2> QED BY <1>22, <2>3 DEF CopyInPart
  <1>20. CASE Close
    BY <1>20, <1>0 DEF Close, WorkerGone
  <1>21. CASE Refresh
    <2>1. sample' \in Samples
      BY <1>21, <1>0, Numbers DEF Refresh, RunGone, Samples
    <2> QED BY <1>21, <2>1, Numbers DEF Refresh, RunGone
  <1> QED
    BY <1>1, <1>2, <1>3, <1>4, <1>5, <1>6, <1>7, <1>8, <1>9, <1>10, <1>11,
       <1>12, <1>13, <1>14, <1>15, <1>16, <1>17, <1>18, <1>19, <1>20, <1>21, <1>22
       DEF Next, RunStep, Start, Restore, Ingest, Evaluate, Finish

\* Every reachable state has the declared types: TypeOK, for any samples,
\* sessions and settings (the worker and the orchestrator).
THEOREM TypeCorrect == Spec => []TypeOK
  <1>1. TInv => TypeOK
    BY DEF TInv
  <1> QED BY InitTInv, NextTInv, <1>1, PTL DEF Spec

-------------------------------------------------------------------------------
(* What the stores, the graph and the snapshots hold *)

\* The open stores hold the sessions of the sample up to k, and the graph
\* too, unless it was restored in part.
At(k) ==
    /\ mem = Prefix(sample, k, settings)
    /\ partial \/ graph = Prefix(sample, k, settings)

\* A sample has all of its snapshots, and the settings they were taken under.
Complete(s) == Taken(s) = Sessions(s)
Of(s) == snapshots[s][NSessions[s]].settings

\* A worker that ingests, from the snapshot it starts with to its answers.
Ingesting ==
    "ingest" \in stages =>
        /\ pc = "restore" =>
              /\ Taken(sample) = 1 .. resume
              /\ session = resume + 1
              /\ mem = Prefix(sample, resume, settings)
              /\ resume # 0 => partial = snapshots[sample][resume].partial
        /\ pc \in {"restore", "ingest", "flush", "save", "export", "backup"} =>
              \A k \in Taken(sample) : snapshots[sample][k].settings = settings
        /\ pc \in {"ingest", "flush", "save"} => Taken(sample) = 1 .. session - 1
        /\ pc = "ingest" => At(session - 1)
        /\ pc \in {"flush", "save"} => At(session)
        /\ pc = "save" => working = mem
        /\ pc \in {"export", "backup", "answer"} =>
              At(NSessions[sample]) /\ working = mem
        /\ pc \in {"export", "backup"} => Complete(sample)

\* Stores that are of the one ingest of s, and stores that are all of it.
Within(s, stores) == stores # {} => Complete(s) /\ stores \subseteq Whole(s, Of(s))
All(s, stores) == Complete(s) /\ stores = Whole(s, Of(s))

\* A worker that only evaluates copies back what it found in the archive.
Evaluating ==
    "ingest" \notin stages /\ pc \in {"restore", "export", "backup"} =>
        /\ Within(sample, working)
        /\ sample \in torn \/ All(sample, working)

\* The parts copied so far are what is to be copied.
Copying ==
    /\ copied # {} => pc \in {"backup", "answer", "close"}
    /\ pc = "backup" =>
          /\ "stores" \in copied => archive[sample].stores = working
          /\ "graph" \in copied => archive[sample].graph \notin {None, Torn}

\* What an archive holds is of the snapshots of its sample.
Archived(s) ==
    /\ archive[s].stores = None \/ Within(s, archive[s].stores)
    /\ s \in Unfinished \/ archive[s] = Absent
       \/ /\ All(s, archive[s].stores)
          /\ archive[s].graph \notin {None, Torn}

Archives == \A s \in Samples : Archived(s)

Inv == TInv /\ Ingesting /\ Evaluating /\ Copying /\ SnapshotsAreWhole /\ Archives

\* Nothing of the files changes: what they hold stands.
LEMMA FilesStand ==
    ASSUME SnapshotsAreWhole, Archives, UNCHANGED <<snapshots, archive, torn>>,
           pc # "backup" \/ UNCHANGED <<pc, copied, sample>>
    PROVE  SnapshotsAreWhole' /\ Archives'
  <1>1. Unfinished \subseteq Unfinished'
    BY DEF Unfinished
  <1> QED BY <1>1 DEF SnapshotsAreWhole, Archives, Archived, Within, All,
             Complete, Of, Taken, Whole, Prefix

\* The settings of snapshots are settings.
LEMMA OfSettings ==
    ASSUME TInv, NEW s \in Samples, Complete(s)
    PROVE  Of(s) \in Settings
  <1>1. NSessions[s] \in Sessions(s)
    BY Numbers DEF Sessions
  <1>2. snapshots[s][NSessions[s]] \in Snapshots
    BY <1>1 DEF TInv, TypeOK, Complete, Taken
  <1> QED BY <1>2 DEF Of, Snapshots

\* The initial state.
LEMMA InitInv == Init => Inv
  <1> SUFFICES ASSUME Init PROVE Inv
    OBVIOUS
  <1>1. TInv
    BY InitTInv
  <1>2. Ingesting /\ Evaluating /\ Copying
    BY DEF Init, Ingesting, Evaluating, Copying
  <1>3. \A s \in Samples : archive[s] = Absent /\ archive[s].stores = None
                           /\ Taken(s) = {}
    BY DEF Init, Absent, Taken
  <1>4. SnapshotsAreWhole /\ Archives
    <2>1. SnapshotsAreWhole
      BY <1>3 DEF SnapshotsAreWhole
    <2>2. Archives
      BY <1>3 DEF Archives, Archived
    <2> QED BY <2>1, <2>2
  <1> QED BY <1>1, <1>2, <1>4 DEF Inv

\* The worker opens its stores with exactly the sessions of the snapshots.
LEMMA StartIngestInv == Inv /\ StartIngest => Inv'
  <1> SUFFICES ASSUME Inv, StartIngest PROVE Inv'
    OBVIOUS
  <1> DEFINE s == sample
             h == Highest(s)
             snap == snapshots[s][h]
  <1>1. TInv' /\ s \in Samples /\ NSessions[s] \in Nat
    BY NextTInv, Numbers DEF Inv, TInv, TypeOK, Next, RunStep, Start
  <1>2. h \in 0 .. NSessions[s] /\ Taken(s) = 1 .. h /\ Taken(s)' = Taken(s)
    <2>1. h \in 0 .. NSessions[s] /\ Taken(s) = 1 .. h
      BY <1>1, CompatibleTaken DEF StartIngest
    <2>2. Taken(s)' = Taken(s)
      BY DEF StartIngest, Taken, launch
    <2> QED BY <2>1, <2>2
  <1>3. h # 0 => /\ h \in Taken(s) /\ snap.settings = settings
                 /\ snap.stores = Prefix(s, h, settings)
    <2> SUFFICES ASSUME h # 0
                 PROVE  /\ h \in Taken(s) /\ snap.settings = settings
                        /\ snap.stores = Prefix(s, h, settings)
      OBVIOUS
    <2>1. h \in Taken(s)
      BY <1>2
    <2>2. snap.settings = settings
      BY <2>1 DEF StartIngest, Compatible
    <2> QED BY <1>1, <2>1, <2>2 DEF Inv, SnapshotsAreWhole
  <1>4. mem' = Prefix(s, h, settings)
    <2>1. Prefix(s, 0, settings) = {}
      BY PrefixSteps
    <2> QED BY <1>2, <1>3, <2>1 DEF StartIngest
  <1>5. Ingesting' /\ Evaluating' /\ Copying'
    <2>1. /\ UNCHANGED <<stages, settings, sample, snapshots>>
          /\ copied' = {}
          /\ "ingest" \in stages /\ pc' = "restore"
          /\ resume' = h /\ session' = h + 1 /\ working' = mem'
      BY DEF StartIngest, launch, Inv, TInv, Placed
    <2>4. h # 0 => partial' = snap.partial
      <3>1. h # 0 => snap \in Snapshots
        BY <1>1, <1>3 DEF Inv, TInv, TypeOK, Taken
      <3> QED BY <3>1 DEF StartIngest, Snapshots
    <2>2. Taken(sample)' = 1 .. resume'
      BY <1>2, <2>1
    <2>3. mem' = Prefix(sample', resume', settings')
      BY <1>4, <2>1
    <2>5. \A k \in Taken(s)' : snapshots'[s][k].settings = settings
      BY <1>2, <2>1 DEF StartIngest, Compatible
    <2> QED BY <1>3, <2>1, <2>2, <2>3, <2>4, <2>5 DEF Ingesting, Evaluating, Copying
  <1> QED BY <1>1, <1>5, FilesStand DEF Inv, StartIngest

\* Once the graph is restored or cleared the worker is where its snapshots end.
LEMMA RestoreInv == Inv /\ Restore => Inv'
  <1> SUFFICES ASSUME Inv, Restore PROVE Inv'
    OBVIOUS
  <1> DEFINE s == sample
  <1>1. TInv' /\ s \in Samples
    BY NextTInv DEF Inv, TInv, TypeOK, Next, RunStep
  <1>2. /\ UNCHANGED <<stages, settings, sample, resume, session, mem, copied,
                       working, snapshots, archive, torn>>
        /\ Taken(s)' = Taken(s)
        /\ pc = "restore" /\ pc' \in {AfterRestore, "close"}
    BY DEF Restore, RestoreGraph, RestoreUnreadable, ClearGraph, ClearFails, Raise, launch,
           process, files, Taken
  <1>3. SnapshotsAreWhole' /\ Archives'
    BY <1>2, FilesStand DEF Inv
  <1>4. Evaluating' /\ Copying'
    BY <1>2 DEF Inv, Evaluating, Copying, AfterRestore, Within, All, Complete,
       Of, Taken, Whole, Prefix
  <1>5. ASSUME "ingest" \in stages, pc' = "ingest"
        PROVE  partial' \/ graph' = Prefix(s, resume, settings)
    <2>1. CASE ClearGraph
      <3>1. resume = 0
        <4> SUFFICES ASSUME resume # 0 PROVE FALSE
          OBVIOUS
        <4>1. resume \in Taken(s)
          BY <2>1, <1>5 DEF ClearGraph, Inv, TInv, Placed
        <4>2. snapshots[s][resume] \in Snapshots
          BY <4>1, <1>1 DEF Inv, TInv, TypeOK, Taken
        <4>3. snapshots[s][resume].graph # None
          BY <4>2, LocomoAssumption DEF Snapshots
        <4> QED BY <4>3, <2>1, <1>5 DEF ClearGraph, GraphFile
      <3> QED BY <2>1, <3>1, PrefixSteps DEF ClearGraph
    <2>2. CASE RestoreGraph
      <3>1. resume # 0 /\ GraphFile = snapshots[s][resume].graph
        BY <2>2, <1>5 DEF RestoreGraph, GraphFile
      <3>2. resume \in Taken(s) /\ snapshots[s][resume].settings = settings
        BY <2>2, <3>1, <1>5 DEF RestoreGraph, Inv, TInv, Placed, Ingesting
      <3>3. partial \/ GraphFile = Prefix(s, resume, settings)
        BY <1>1, <1>2, <1>5, <3>1, <3>2 DEF Inv, SnapshotsAreWhole, Ingesting
      <3> QED BY <2>2, <3>3 DEF RestoreGraph
    <2>3. CASE ClearFails \/ RestoreUnreadable
      BY <2>3, <1>5 DEF ClearFails, RestoreUnreadable, Raise
    <2> QED BY <2>1, <2>2, <2>3 DEF Restore
  <1>6. Ingesting'
    <2>1. session' - 1 = resume \/ "ingest" \notin stages
      BY <1>1, <1>2 DEF Inv, Ingesting, TInv, TypeOK
    <2> QED BY <1>2, <1>5, <2>1 DEF Inv, Ingesting, AfterRestore, At, Prefix
  <1> QED BY <1>1, <1>3, <1>4, <1>6 DEF Inv

\* A session is added to the stores and to the graph, and then saved.
LEMMA IngestInv == Inv /\ Ingest => Inv'
  <1> SUFFICES ASSUME Inv, Ingest PROVE Inv'
    OBVIOUS
  <1> DEFINE s == sample
  <1>1. /\ TInv' /\ s \in Samples /\ NSessions[s] \in Nat
        /\ session \in 1 .. NSessions[s] + 1
    BY NextTInv, Numbers DEF Inv, TInv, TypeOK, Next, RunStep
  <1>2. /\ UNCHANGED <<stages, settings, sample, archive, torn, partial, copied>>
        /\ pc \in {"ingest", "flush", "save"} /\ pc' # "backup"
        /\ "ingest" \in stages
    BY DEF Inv, TInv, Placed, Ingest, IngestSession, IngestFails, Flush,
       FlushFails, SaveSnapshot, SaveFails, EndIngest, Raise, launch, files, process
  <1>3. Evaluating' /\ Copying'
    <2>1. copied = {}
      BY <1>2 DEF Inv, Copying
    <2> QED BY <1>2, <2>1 DEF Evaluating, Copying
  <1>4. CASE IngestSession
    <2>1. Prefix(s, session, settings) = Prefix(s, session - 1, settings) \cup {Piece}
      BY <1>1, PrefixSteps DEF Piece
    <2>2. UNCHANGED <<snapshots, session>> /\ pc' = "flush" /\ Taken(s)' = Taken(s)
      BY <1>2, <1>4 DEF IngestSession, files, Taken
    <2>3. /\ mem' = Prefix(s, session, settings)
          /\ partial' \/ graph' = Prefix(s, session, settings)
      BY <1>2, <1>4, <2>1 DEF IngestSession, Inv, Ingesting, At
    <2>4. Ingesting'
      BY <1>2, <1>4, <2>2, <2>3 DEF IngestSession, Inv, Ingesting, At
    <2> QED BY <1>1, <1>2, <1>3, <2>2, <2>4, FilesStand DEF Inv
  <1>5. CASE Flush
    <2>1. /\ UNCHANGED <<snapshots, session, mem, graph>> /\ Taken(s)' = Taken(s)
          /\ pc = "flush" /\ pc' = "save" /\ working' = mem
      BY <1>2, <1>5 DEF Flush, process, Taken
    <2>2. Ingesting'
      BY <1>2, <2>1 DEF Inv, Ingesting, At
    <2> QED BY <1>1, <1>2, <1>3, <2>1, <2>2, FilesStand DEF Inv
  <1>6. CASE SaveSnapshot
    <2>1. /\ Taken(s) = 1 .. session - 1 /\ working = Prefix(s, session, settings)
          /\ partial \/ graph = Prefix(s, session, settings)
          /\ session \in Sessions(s)
      BY <1>1, <1>2, <1>6 DEF SaveSnapshot, Inv, Ingesting, At, TInv, Placed, Sessions
    <2> DEFINE new == [settings |-> settings, stores |-> working,
                       graph |-> graph, partial |-> partial]
    <2>2. /\ snapshots'[s][session] = new
          /\ \A t \in Samples : \A k \in Sessions(t) :
                <<t, k>> # <<s, session>> => snapshots'[t][k] = snapshots[t][k]
      BY <1>1, <1>6, <2>1 DEF SaveSnapshot, Inv, TInv, TypeOK, Placed
    <2>3. new # None
      <3>1. new \in Snapshots
        BY <1>2 DEF Inv, TInv, TypeOK, Placed, Snapshots
      <3> QED BY <3>1, SnapshotAssumption
    <2>4. Taken(s)' = 1 .. session
      <3>1. Taken(s)' = Taken(s) \cup {session}
        BY <1>1, <1>2, <2>1, <2>2, <2>3 DEF Taken
      <3> QED BY <1>1, <2>1, <3>1
    <2>5. Ingesting'
      <3>1. /\ UNCHANGED <<mem, graph>> /\ pc' = "ingest" /\ session' - 1 = session
            /\ Taken(s)' = 1 .. session' - 1
        BY <1>1, <1>6, <2>4 DEF SaveSnapshot
      <3>2. At(session)
        BY <1>2, <1>6 DEF SaveSnapshot, Inv, Ingesting
      <3>3. \A k \in Taken(s)' : snapshots'[s][k].settings = settings
        BY <1>1, <1>2, <1>6, <2>1, <2>2, <2>4 DEF SaveSnapshot, Inv, Ingesting, Sessions
      <3> QED BY <1>2, <3>1, <3>2, <3>3 DEF Ingesting, At
    <2>6. SnapshotsAreWhole'
      BY <1>2, <2>1, <2>2 DEF Inv, SnapshotsAreWhole, Taken
    <2>7. Archives'
      <3> SUFFICES ASSUME NEW u \in Samples PROVE Archived(u)'
        BY DEF Archives
      <3>1. Archived(u) /\ Unfinished = torn /\ Unfinished' = torn
        BY <1>2 DEF Inv, Archives, Unfinished
      <3>2. CASE u = s
        <4>1. session \notin Taken(s)
          BY <1>6 DEF SaveSnapshot, Taken
        <4>2. ~ Complete(s)
          BY <2>1, <4>1 DEF Complete
        <4> QED BY <1>2, <3>1, <3>2, <4>2 DEF Archived, Within, All
      <3>3. CASE u # s
        <4>1. snapshots'[u] = snapshots[u]
          BY <1>1, <1>6, <3>3 DEF SaveSnapshot, Inv, TInv, TypeOK, Placed
        <4>2. Complete(u)' = Complete(u) /\ Of(u)' = Of(u)
          BY <4>1 DEF Complete, Of, Taken
        <4> QED BY <1>2, <3>1, <4>2 DEF Archived, Within, All, Whole, Prefix
      <3> QED BY <3>2, <3>3
    <2> QED BY <1>1, <1>3, <2>5, <2>6, <2>7 DEF Inv
  <1>7. CASE EndIngest
    <2>1. /\ UNCHANGED <<snapshots, mem, graph>>
          /\ pc = "ingest" /\ pc' = "export" /\ working' = mem
          /\ session - 1 = NSessions[s] /\ Taken(s)' = Taken(s)
      BY <1>1, <1>2, <1>7 DEF EndIngest, process, Taken
    <2>3. Complete(s)'
      BY <1>2, <2>1 DEF Inv, Ingesting, Complete, Sessions
    <2>2. Ingesting'
      BY <1>2, <2>1, <2>3 DEF Inv, Ingesting, At
    <2> QED BY <1>1, <1>2, <1>3, <2>1, <2>2, FilesStand DEF Inv
  <1>8. CASE IngestFails \/ FlushFails \/ SaveFails
    <2>1. UNCHANGED snapshots /\ pc' = "close"
      BY <1>8 DEF IngestFails, FlushFails, SaveFails, Raise, files
    <2>2. Ingesting'
      BY <2>1 DEF Ingesting
    <2> QED BY <1>1, <1>2, <1>3, <2>1, <2>2, FilesStand DEF Inv
  <1> QED BY <1>4, <1>5, <1>6, <1>7, <1>8 DEF Ingest

\* What a worker is about to copy to the archive.
LEMMA ToCopy ==
    ASSUME Inv, pc = "backup"
    PROVE  /\ Within(sample, working)
           /\ "ingest" \in stages \/ sample \notin torn => All(sample, working)
  <1> DEFINE s == sample
  <1>1. CASE "ingest" \in stages
    <2>1. Complete(s) /\ working = Whole(s, settings)
      BY <1>1 DEF Inv, Ingesting, At, Whole
    <2>2. NSessions[s] \in Taken(s)
      BY <2>1, Numbers DEF Complete, Sessions, Inv, TInv, TypeOK
    <2>3. Of(s) = settings
      BY <1>1, <2>2 DEF Inv, Ingesting, Of
    <2> QED BY <2>1, <2>3 DEF Within, All
  <1>2. CASE "ingest" \notin stages
    BY <1>2 DEF Inv, Evaluating
  <1> QED BY <1>1, <1>2

\* What is copied to the archive is the working directory of the worker.
LEMMA EvaluateInv == Inv /\ Evaluate => Inv'
  <1> SUFFICES ASSUME Inv, Evaluate PROVE Inv'
    OBVIOUS
  <1> DEFINE s == sample
  <1>1. TInv' /\ s \in Samples
    BY NextTInv DEF Inv, TInv, TypeOK, Next, RunStep
  <1>2. /\ UNCHANGED <<stages, settings, sample, mem, graph, working, partial, snapshots>>
        /\ \/ pc = "export" /\ pc' \in {"backup", "close"}
           \/ pc = "backup" /\ pc' \in {"backup", "answer", "close"}
           \/ pc = "answer" /\ pc' = "close"
        /\ torn' = torn \/ "ingest" \in stages \/ pc' = "close"
    BY DEF Evaluate, ExportGraph, ExportFails, CopyPart, CopyInPart, CopyFails,
       EndBackup, Answer, AnswerFails, Raise, launch, process, files
  <1>3. Ingesting' /\ Evaluating'
    BY <1>2 DEF Inv, Ingesting, Evaluating, At, Within, All, Complete, Of,
       Taken, Whole, Prefix
  <1>4. SnapshotsAreWhole'
    BY <1>2 DEF Inv, SnapshotsAreWhole, Taken
  <1>5. ASSUME UNCHANGED <<archive, torn, copied>>, pc' # pc, copied = Parts \/ pc # "backup"
        PROVE  Copying' /\ Archives'
    <2>1. Copying'
      <3>1. pc' = "backup" => copied = {}
        BY <1>2, <1>5 DEF Inv, Copying
      <3> QED BY <1>2, <1>5, <3>1 DEF Inv, Copying
    <2>2. Unfinished \subseteq Unfinished'
      BY <1>5 DEF Unfinished
    <2> QED BY <1>2, <1>5, <2>1, <2>2 DEF Inv, Archives, Archived, Within, All, Complete, Of, Taken, Whole, Prefix
  <1>6. CASE ExportGraph \/ ExportFails \/ EndBackup \/ Answer \/ AnswerFails
    <2>1. /\ UNCHANGED <<archive, torn, copied>> /\ pc' # pc
          /\ copied = Parts \/ pc # "backup"
      BY <1>6 DEF ExportGraph, ExportFails, EndBackup, Answer, AnswerFails,
         Raise, files, process
    <2> QED BY <1>1, <1>3, <1>4, <1>5, <2>1 DEF Inv
  <1>7. CASE CopyFails
    <2>1. UNCHANGED <<archive, copied>> /\ pc' = "close" /\ torn' = Unfinished
      BY <1>7 DEF CopyFails, Raise, process
    <2>2. Copying'
      BY <2>1 DEF Copying
    <2>3. Unfinished' = Unfinished
      BY <2>1 DEF Unfinished
    <2>4. Archives'
      BY <1>2, <2>1, <2>3 DEF Inv, Archives, Archived, Within, All, Complete, Of, Taken, Whole, Prefix
    <2> QED BY <1>1, <1>3, <1>4, <2>2, <2>4 DEF Inv
  <1>8. ASSUME NEW p \in Parts, CopyPart(p) PROVE Inv'
    <2>1. /\ pc = "backup" /\ pc' = "backup" /\ copied' = copied \cup {p}
          /\ torn' = IF copied' = Parts /\ "ingest" \in stages
                     THEN torn \ {s} ELSE torn
          /\ \A u \in Samples \ {s} : archive'[u] = archive[u]
      BY <1>8 DEF CopyPart
    <2>2. archive[s] \in Contents /\ DOMAIN archive = Samples
      BY <1>1 DEF Inv, TInv, TypeOK
    <2>3. /\ archive'[s].stores = IF p = "stores" THEN working ELSE archive[s].stores
          /\ archive'[s].graph = IF p = "graph" THEN graph ELSE archive[s].graph
      BY <1>1, <1>8, <2>2 DEF CopyPart, Contents, Parts
    <2>4. graph \notin {None, Torn}
      BY LocomoAssumption DEF Inv, TInv, TypeOK
    <2>5. Copying'
      BY <1>2, <2>1, <2>3, <2>4 DEF Inv, Copying, Parts
    <2>6. Within(s, working) /\ ("ingest" \in stages \/ s \notin torn => All(s, working))
      BY <2>1, ToCopy
    <2>7. Archived(s)'
      <3>1. archive'[s].stores = None \/ Within(s, archive[s].stores)'
        BY <1>1, <1>2, <2>3, <2>6 DEF Inv, Archives, Archived, Within, Complete, Of, Taken, Whole, Prefix
      <3>2. ASSUME s \notin Unfinished'
            PROVE  All(s, archive[s].stores)' /\ archive'[s].graph \notin {None, Torn}
        <4>1. copied' = Parts /\ s \notin torn'
          BY <1>2, <2>1, <3>2 DEF Unfinished
        <4>2. All(s, working)
          BY <2>1, <2>6, <4>1
        <4>3. archive'[s].stores = working /\ archive'[s].graph \notin {None, Torn}
          BY <1>2, <2>1, <2>5, <4>1 DEF Copying, Parts
        <4> QED BY <1>1, <1>2, <4>2, <4>3 DEF All, Complete, Of, Taken, Whole, Prefix
      <3> QED BY <1>2, <3>1, <3>2 DEF Archived
    <2>8. \A u \in Samples \ {s} : Archived(u)'
      <3>1. \A u \in Samples \ {s} : u \notin Unfinished' => u \notin Unfinished
        BY <1>2, <2>1 DEF Unfinished
      <3> SUFFICES ASSUME NEW u \in Samples \ {s} PROVE Archived(u)'
        OBVIOUS
      <3>2. Archived(u) /\ archive'[u] = archive[u]
        BY <2>1 DEF Inv, Archives
      <3>3. Complete(u)' = Complete(u) /\ Of(u)' = Of(u)
        BY <1>2 DEF Complete, Of, Taken
      <3> QED BY <3>1, <3>2, <3>3 DEF Archived, Within, All, Whole, Prefix
    <2> QED BY <1>1, <1>2, <1>3, <1>4, <2>5, <2>7, <2>8 DEF Inv, Archives
  <1>9. ASSUME NEW p \in Parts, CopyInPart(p) PROVE Inv'
    <2> DEFINE old == IF archive[s].stores = None THEN {} ELSE archive[s].stores
    <2>1. /\ pc = "backup" /\ p \notin copied /\ UNCHANGED <<pc, copied, torn>>
          /\ \A u \in Samples \ {s} : archive'[u] = archive[u]
      BY <1>9 DEF CopyInPart, process
    <2>2. archive[s] \in Contents /\ DOMAIN archive = Samples
      BY <1>1 DEF Inv, TInv, TypeOK
    <2>3. PICK f \in (IF p = "stores" THEN SUBSET (working \cup old) ELSE {Torn}) :
              archive' = [archive EXCEPT ![s][p] = f]
      BY <1>9 DEF CopyInPart
    <2>4. /\ archive'[s].stores = IF p = "stores" THEN f ELSE archive[s].stores
          /\ p # "graph" => archive'[s].graph = archive[s].graph
      BY <1>1, <2>2, <2>3 DEF Contents, Parts
    <2>5. Copying'
      BY <1>2, <2>1, <2>4 DEF Inv, Copying, Parts
    <2>6. s \in Unfinished'
      BY <1>2, <2>1 DEF Unfinished
    <2>7. archive'[s].stores = None \/ Within(s, archive'[s].stores)
      <3>1. Within(s, working) /\ Within(s, old)
        BY <1>1, <2>1, ToCopy DEF Inv, Archives, Archived, Within
      <3>2. p = "stores" => f \subseteq working \cup old
        BY <2>3
      <3> QED BY <1>1, <2>4, <3>1, <3>2 DEF Inv, Archives, Archived, Within
    <2>8. Archived(s)'
      BY <1>1, <1>2, <2>6, <2>7 DEF Archived, Within, Complete, Of, Taken, Whole, Prefix
    <2>9. \A u \in Samples \ {s} : Archived(u)'
      <3>1. \A u \in Samples \ {s} : u \notin Unfinished' => u \notin Unfinished
        BY <1>2, <2>1 DEF Unfinished
      <3> SUFFICES ASSUME NEW u \in Samples \ {s} PROVE Archived(u)'
        OBVIOUS
      <3>2. Archived(u) /\ archive'[u] = archive[u]
        BY <2>1 DEF Inv, Archives
      <3>3. Complete(u)' = Complete(u) /\ Of(u)' = Of(u)
        BY <1>2 DEF Complete, Of, Taken
      <3> QED BY <3>1, <3>2, <3>3 DEF Archived, Within, All, Whole, Prefix
    <2> QED BY <1>1, <1>2, <1>3, <1>4, <2>5, <2>8, <2>9 DEF Inv, Archives
  <1> QED BY <1>6, <1>7, <1>8, <1>9 DEF Evaluate

\* Every step preserves the invariant.
LEMMA NextInv == Inv /\ [Next]_vars => Inv'
  <1> SUFFICES ASSUME Inv, [Next]_vars PROVE Inv'
    OBVIOUS
  <1>1. TInv'
    BY NextTInv DEF Inv
  <1>2. CASE UNCHANGED vars
    BY <1>1, <1>2, FilesStand DEF Inv, vars, launch, process, files, Ingesting,
       Evaluating, Copying, Within, All, Complete, Of, At, Taken, Whole, Prefix
  <1>3. CASE StartArchive
    <2> DEFINE s == sample
    <2>1. s \in Samples /\ copied = {}
      BY <1>3 DEF StartArchive, Inv, TInv, TypeOK, Placed
    <2>2. /\ UNCHANGED <<stages, sample, snapshots, archive, torn, copied>>
          /\ "ingest" \notin stages /\ archive[s] # Absent
          /\ pc = "start" /\ pc' = "restore"
          /\ working' = IF archive[s].stores = None THEN {} ELSE archive[s].stores
      BY <1>3 DEF StartArchive, launch
    <2>3. Archived(s) /\ Unfinished = torn
      BY <2>1, <2>2 DEF Inv, Archives, Unfinished
    <2>4. Within(s, working') /\ (s \in torn \/ All(s, working'))
      <3>1. Within(s, working')
        BY <2>2, <2>3 DEF Archived, Within
      <3>2. ASSUME s \notin torn PROVE All(s, working')
        <4>1. All(s, archive[s].stores)
          BY <2>2, <2>3, <3>2 DEF Archived
        <4>2. archive[s].stores # None
          <5>1. Complete(s) /\ archive[s].stores = Whole(s, Of(s))
            BY <4>1 DEF All
          <5>2. Of(s) \in Settings
            BY <2>1, <5>1, OfSettings DEF Inv
          <5>3. archive[s].stores \in SUBSET Pieces
            <6>1. NSessions[s] \in 0 .. NSessions[s]
              BY <2>1, Numbers
            <6> QED BY <2>1, <5>1, <5>2, <6>1, PrefixPieces DEF Whole
          <5> QED BY <5>3, LocomoAssumption
        <4> QED BY <2>2, <4>1, <4>2
      <3> QED BY <3>1, <3>2
    <2>5. Ingesting' /\ Evaluating' /\ Copying'
      <3>1. Complete(s)' = Complete(s) /\ Of(s)' = Of(s)
        BY <2>2 DEF Complete, Of, Taken
      <3> QED BY <2>1, <2>2, <2>4, <3>1 DEF Ingesting, Evaluating, Copying, Within, All, Whole, Prefix
    <2> QED BY <1>1, <2>2, <2>5, FilesStand DEF Inv
  <1>4. CASE StartFails \/ Finish \/ Launch \/ KillWorker \/ Kill
    <2>1. /\ UNCHANGED <<snapshots, archive>>
          /\ pc' \in {"idle", "start", "refresh"} /\ torn' = Unfinished
      BY <1>4 DEF StartFails, Finish, Close, Refresh, Launch, KillWorker, Kill,
         RunGone, files, Unfinished
    <2>2. Ingesting' /\ Evaluating' /\ Copying'
      BY <1>1, <2>1 DEF Ingesting, Evaluating, Copying, TInv, Placed
    <2>3. Unfinished' = Unfinished
      BY <2>1 DEF Unfinished
    <2>4. Archives' /\ SnapshotsAreWhole'
      BY <2>1, <2>3 DEF Inv, Archives, Archived, Within, All, Complete, Of,
         Taken, Whole, Prefix, SnapshotsAreWhole
    <2> QED BY <1>1, <2>2, <2>4 DEF Inv
  <1> QED
    BY <1>2, <1>3, <1>4, StartIngestInv, RestoreInv, IngestInv, EvaluateInv
       DEF Next, RunStep, Start

\* A snapshot holds exactly the sessions up to its own, under its own
\* settings, whatever was killed, failed or launched before: SnapshotsAreWhole
\* (save_snapshot, load_snapshot_files_only, clear_working_artifacts).
THEOREM SnapshotsHoldTheirSessions == Spec => []SnapshotsAreWhole
  <1>1. Inv => SnapshotsAreWhole
    BY DEF Inv
  <1> QED BY InitInv, NextInv, <1>1, PTL DEF Spec

\* With the types of all variables: SnapshotsAreSound, which the run checks.
THEOREM SnapshotsStaySound == Spec => []SnapshotsAreSound
  <1>1. Inv => SnapshotsAreSound
    BY DEF Inv, TInv, SnapshotsAreSound
  <1> QED BY InitInv, NextInv, <1>1, PTL DEF Spec

\* A worker in its session loop continues the snapshots: no session is
\* ingested twice or left out: ContinuesTheSnapshots
\* (highest_existing_snapshot, _ingest_remaining_sessions).
THEOREM ResumesContinue == Spec => []ContinuesTheSnapshots
  <1>1. Inv => ContinuesTheSnapshots
    BY DEF Inv, TInv, Placed, Ingesting, At, ContinuesTheSnapshots
  <1> QED BY InitInv, NextInv, <1>1, PTL DEF Spec

\* Answers after an ingest are given over all of the sample and nothing else:
\* AnswersOverWholeIngest (run_locomo_worker).
THEOREM AnswersAreOverAll == Spec => []AnswersOverWholeIngest
  <1>1. Inv => AnswersOverWholeIngest
    BY DEF Inv, Ingesting, At, AnswersOverWholeIngest, Whole
  <1> QED BY InitInv, NextInv, <1>1, PTL DEF Spec

\* The archive of a sample holds stores of one ingest of that sample only,
\* wherever a copy was killed; and all of it, with a readable graph, unless
\* the last copy was cut off or was of one that was: ArchivesAreOwn
\* (backup_artifacts_and_logs, restore_artifacts_from_dir).
THEOREM ArchivesHoldOneSample == Spec => []ArchivesAreOwn
  <1>1. ASSUME Inv PROVE ArchivesAreOwn
    <2> SUFFICES ASSUME NEW s \in Samples
                 PROVE  /\ archive[s].stores = None
                           \/ \E c \in Settings : archive[s].stores \subseteq Whole(s, c)
                        /\ s \in Unfinished \/ archive[s] = Absent
                           \/ /\ \E c \in Settings : archive[s].stores = Whole(s, c)
                              /\ archive[s].graph \notin {None, Torn}
      BY DEF ArchivesAreOwn
    <2>1. Archived(s) /\ TInv
      BY <1>1 DEF Inv, Archives
    <2>2. \E c \in Settings : TRUE
      BY LocomoAssumption
    <2>3. Complete(s) => Of(s) \in Settings
      BY <2>1, OfSettings
    <2> QED BY <2>1, <2>2, <2>3 DEF Archived, Within, All
  <1> QED BY InitInv, NextInv, <1>1, PTL DEF Spec
===============================================================================
