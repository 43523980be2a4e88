-------------------------- MODULE LongMemRunnerProofs ---------------------------
(***************************************************************************)
(* Proofs about LongMemRunner, for any datasets, sessions and checkpoint   *)
(* interval: what checkpoints and answers stand for, that datasets do not  *)
(* meet in the graph, and that the runner implements BatchRun.             *)
(***************************************************************************)
EXTENDS LongMemRunner, FiniteSetTheorems, TLAPS

\* The steps of a dataset from its first session to its answer.
Working == {"loop", "save", "truncated", "flush", "qa"}
Saving == {"save", "truncated"}

\* Between two datasets the process has nothing of either.
Between ==
    /\ pc \in {"idle", "setup"} => processed = {} /\ skipped = {}
    /\ pc = "idle" => cur = 1

\* What the process counts is in the graph, unless it skipped it.
Present == pc \in Working => processed \subseteq Content(cur) \cup skipped

\* The last checkpoint of an ingest, and the answer, come after every session.
Complete ==
    /\ pc = "qa" \/ (pc \in Saving \cup {"flush"} /\ plan \in {"final", "qa"}) =>
          Sessions \subseteq processed
    /\ pc = "flush" => plan # "qa"

\* The checkpoint of an answer follows the answer, and nothing else is written
\* once there is one.
Announced ==
    /\ pc \in Working => (output[cur] <=> pc \in Saving /\ plan = "qa")
    /\ pc = "qa" \/ (pc = "flush" /\ plan = "final") => ckpt[cur].stage = "ingest_complete"
    /\ pc = "truncated" => ckpt[cur] = TornCheckpoint
    /\ \A d \in Datasets : ckpt[d].stage = "torn" => ckpt[d].ids = {}

\* The graph has been cleared before a dataset is set up.
Cleared == ~unclean => GraphIsolated /\ (pc \in {"setup", "judge"} => touched = {})

IInv == /\ TypeOK /\ Between /\ OnlyIngestedCounted /\ Present /\ Complete
        /\ Announced /\ AnswersAreBacked /\ Cleared
-------------------------------------------------------------------------------
LEMMA InitIInv == Init => IInv
<1> SUFFICES ASSUME Init PROVE IInv
  OBVIOUS
<1> USE DEF Init
<1>1. TypeOK
  <2>1. NoCheckpoint \in [stage : Stages, ids : SUBSET Sessions]
    BY DEF NoCheckpoint, Stages
  <2>2. 1 \in Datasets
    BY RunnerAssumption DEF Datasets
  <2> QED BY <2>1, <2>2 DEF TypeOK, Plans, Steps
<1>2. Between /\ OnlyIngestedCounted /\ Present /\ Complete
  BY DEF Between, OnlyIngestedCounted, Present, Complete, NoCheckpoint, Working, Saving
<1>3. Announced /\ AnswersAreBacked /\ Cleared
  BY DEF Announced, AnswersAreBacked, AnsweredAfterIngest, StageAfterOutput, Cleared,
         GraphIsolated, NoCheckpoint, Working, Saving
<1> QED BY <1>1, <1>2, <1>3 DEF IInv

\* Between two datasets nothing but the dataset's number is kept.
LEMMA NextDatasetIInv ==
  ASSUME IInv, NextDataset, UNCHANGED <<ckpt, saved, output, ingested>>,
         judged' \in [Datasets -> BOOLEAN], graph' \in SUBSET (Datasets \X Sessions),
         touched' \in SUBSET Datasets, unclean' \in BOOLEAN, unclean' \/ touched' = {}
  PROVE  IInv'
<1> USE DEF IInv, TypeOK, NextDataset, Fresh
<1>1. TypeOK'
  <2>1. cur' \in Datasets /\ pc' \in Steps
    BY RunnerAssumption DEF Datasets, Steps
  <2> QED BY <2>1 DEF Plans
<1>2. Between' /\ OnlyIngestedCounted'
  BY DEF Between, OnlyIngestedCounted
<1>3. Present' /\ Complete' /\ Announced'
  BY DEF Present, Complete, Announced, Working, Saving
<1>4. AnswersAreBacked'
  BY DEF AnswersAreBacked, AnsweredAfterIngest, StageAfterOutput
<1>5. Cleared'
  BY DEF Cleared, GraphIsolated
<1> QED BY <1>1, <1>2, <1>3, <1>4, <1>5

\* Every step of the runner, of the operator and of the watchdog keeps it.
LEMMA NextIInv == IInv /\ [Next]_vars => IInv'
<1> SUFFICES ASSUME IInv, [Next]_vars PROVE IInv'
  OBVIOUS
<1> USE DEF IInv
<1>1. CASE UNCHANGED vars
  BY <1>1 DEF vars, disk, shared, process, history, TypeOK, Between, OnlyIngestedCounted,
              Present, Content, Complete, Announced, AnswersAreBacked, AnsweredAfterIngest,
              StageAfterOutput, Cleared, GraphIsolated
<1>2. CASE Setup
  <2> USE <1>2 DEF Setup, disk, shared, process, history
  <2>0. cur \in Datasets /\ ckpt[cur].ids \in SUBSET Sessions /\ saved[cur] \in SUBSET Sessions
    BY DEF TypeOK
  <2>1. TypeOK'
    BY <2>0 DEF TypeOK, Stages, Plans, Steps, TornCheckpoint
  <2>2. Between' /\ OnlyIngestedCounted'
    BY <2>0 DEF TypeOK, Between, OnlyIngestedCounted, TornCheckpoint
  <2>3. Present' /\ Complete'
    BY <2>0 DEF TypeOK, Present, Content, Complete, Working, Saving, OnlyIngestedCounted
  <2>4. Announced'
    BY <2>0 DEF TypeOK, Announced, Complete, Working, Saving, TornCheckpoint, Plans
  <2>5. AnswersAreBacked'
    BY <2>0 DEF TypeOK, AnswersAreBacked, AnsweredAfterIngest, StageAfterOutput, Announced,
           Complete, OnlyIngestedCounted, TornCheckpoint, Working, Saving
  <2>6. Cleared'
    BY <2>0 DEF TypeOK, Cleared, GraphIsolated
  <2> QED BY <2>1, <2>2, <2>3, <2>4, <2>5, <2>6
<1>3. CASE SetupFails
  <2> USE <1>3 DEF SetupFails, disk, shared, process, history
  <2>1. TypeOK'
    BY DEF TypeOK, Stages, Plans, Steps, TornCheckpoint
  <2>2. Between' /\ OnlyIngestedCounted'
    BY DEF TypeOK, Between, OnlyIngestedCounted, TornCheckpoint
  <2>3. Present' /\ Complete'
    BY DEF TypeOK, Present, Content, Complete, Working, Saving, OnlyIngestedCounted
  <2>4. Announced'
    BY DEF TypeOK, Announced, Complete, Working, Saving, TornCheckpoint, Plans
  <2>5. AnswersAreBacked'
    BY DEF TypeOK, AnswersAreBacked, AnsweredAfterIngest, StageAfterOutput, Announced,
           Complete, OnlyIngestedCounted, TornCheckpoint, Working, Saving
  <2>6. Cleared'
    BY DEF TypeOK, Cleared, GraphIsolated
  <2> QED BY <2>1, <2>2, <2>3, <2>4, <2>5, <2>6
<1>4. CASE IngestSession
  <2> USE <1>4 DEF IngestSession, disk, shared, process, history, Pending
  <2>1. TypeOK'
    BY DEF TypeOK, Stages, Plans, Steps, TornCheckpoint
  <2>2. Between' /\ OnlyIngestedCounted'
    BY DEF TypeOK, Between, OnlyIngestedCounted, TornCheckpoint
  <2>3. Present' /\ Complete'
    BY DEF TypeOK, Present, Content, Complete, Working, Saving, OnlyIngestedCounted
  <2>4. Announced'
    BY DEF TypeOK, Announced, Complete, Working, Saving, TornCheckpoint, Plans
  <2>5. AnswersAreBacked'
    BY DEF TypeOK, AnswersAreBacked, AnsweredAfterIngest, StageAfterOutput, Announced,
           Complete, OnlyIngestedCounted, TornCheckpoint, Working, Saving
  <2>6. Cleared'
    BY DEF TypeOK, Cleared, GraphIsolated
  <2> QED BY <2>1, <2>2, <2>3, <2>4, <2>5, <2>6
<1>5. CASE IngestFails
  <2> USE <1>5 DEF IngestFails, disk, shared, process, history, Pending
  <2>1. TypeOK'
    BY DEF TypeOK, Stages, Plans, Steps, TornCheckpoint
  <2>2. Between' /\ OnlyIngestedCounted'
    BY DEF TypeOK, Between, OnlyIngestedCounted, TornCheckpoint
  <2>3. Present' /\ Complete'
    BY DEF TypeOK, Present, Content, Complete, Working, Saving, OnlyIngestedCounted
  <2>4. Announced'
    BY DEF TypeOK, Announced, Complete, Working, Saving, TornCheckpoint, Plans
  <2>5. AnswersAreBacked'
    BY DEF TypeOK, AnswersAreBacked, AnsweredAfterIngest, StageAfterOutput, Announced,
           Complete, OnlyIngestedCounted, TornCheckpoint, Working, Saving
  <2>6. Cleared'
    BY DEF TypeOK, Cleared, GraphIsolated
  <2> QED BY <2>1, <2>2, <2>3, <2>4, <2>5, <2>6
<1>6. CASE IngestEnds
  <2> USE <1>6 DEF IngestEnds, disk, shared, process, history, Pending
  <2>1. TypeOK'
    BY DEF TypeOK, Stages, Plans, Steps, TornCheckpoint
  <2>2. Between' /\ OnlyIngestedCounted'
    BY DEF TypeOK, Between, OnlyIngestedCounted, TornCheckpoint
  <2>3. Present' /\ Complete'
    BY DEF TypeOK, Present, Content, Complete, Working, Saving, OnlyIngestedCounted
  <2>4. Announced'
    BY DEF TypeOK, Announced, Complete, Working, Saving, TornCheckpoint, Plans
  <2>5. AnswersAreBacked'
    BY DEF TypeOK, AnswersAreBacked, AnsweredAfterIngest, StageAfterOutput, Announced,
           Complete, OnlyIngestedCounted, TornCheckpoint, Working, Saving
  <2>6. Cleared'
    BY DEF TypeOK, Cleared, GraphIsolated
  <2> QED BY <2>1, <2>2, <2>3, <2>4, <2>5, <2>6
<1>7. CASE BeginSave
  <2> USE <1>7 DEF BeginSave, disk, shared, process, history
  <2>1. TypeOK'
    BY DEF TypeOK, Stages, Plans, Steps, TornCheckpoint
  <2>2. Between' /\ OnlyIngestedCounted'
    BY DEF TypeOK, Between, OnlyIngestedCounted, TornCheckpoint
  <2>3. Present' /\ Complete'
    BY DEF TypeOK, Present, Content, Complete, Working, Saving, OnlyIngestedCounted
  <2>4. Announced'
    BY DEF TypeOK, Announced, Complete, Working, Saving, TornCheckpoint, Plans
  <2>5. AnswersAreBacked'
    BY DEF TypeOK, AnswersAreBacked, AnsweredAfterIngest, StageAfterOutput, Announced,
           Complete, OnlyIngestedCounted, TornCheckpoint, Working, Saving
  <2>6. Cleared'
    BY DEF TypeOK, Cleared, GraphIsolated
  <2> QED BY <2>1, <2>2, <2>3, <2>4, <2>5, <2>6
<1>8. CASE EndSave
  <2> USE <1>8 DEF EndSave, disk, shared, process, history, StageOf
  <2>1. TypeOK'
    BY DEF TypeOK, Stages, Plans, Steps, TornCheckpoint
  <2>2. Between' /\ OnlyIngestedCounted'
    BY DEF TypeOK, Between, OnlyIngestedCounted, TornCheckpoint
  <2>3. Present' /\ Complete'
    BY DEF TypeOK, Present, Content, Complete, Working, Saving, OnlyIngestedCounted
  <2>4. Announced'
    BY DEF TypeOK, Announced, Complete, Working, Saving, TornCheckpoint, Plans
  <2>5. AnswersAreBacked'
    BY DEF TypeOK, AnswersAreBacked, AnsweredAfterIngest, StageAfterOutput, Announced,
           Complete, OnlyIngestedCounted, TornCheckpoint, Working, Saving
  <2>6. Cleared'
    BY DEF TypeOK, Cleared, GraphIsolated
  <2> QED BY <2>1, <2>2, <2>3, <2>4, <2>5, <2>6
<1>9. CASE Flush
  <2> USE <1>9 DEF Flush, disk, shared, process, history, AfterFlush
  <2>0. pc' \in {"loop", "qa", "save"} /\ (pc' = "qa" => plan = "final")
         /\ (pc' = "save" => plan = "failed")
    BY DEF TypeOK, Plans, Complete
  <2>1. TypeOK'
    BY <2>0 DEF TypeOK, Stages, Plans, Steps, TornCheckpoint
  <2>2. Between' /\ OnlyIngestedCounted'
    BY <2>0 DEF TypeOK, Between, OnlyIngestedCounted, TornCheckpoint
  <2>3. Present' /\ Complete'
    BY <2>0 DEF TypeOK, Present, Content, Complete, Working, Saving, OnlyIngestedCounted
  <2>4. Announced'
    BY <2>0 DEF TypeOK, Announced, Complete, Working, Saving, TornCheckpoint, Plans
  <2>5. AnswersAreBacked'
    BY <2>0 DEF TypeOK, AnswersAreBacked, AnsweredAfterIngest, StageAfterOutput, Announced,
           Complete, OnlyIngestedCounted, TornCheckpoint, Working, Saving
  <2>6. Cleared'
    BY <2>0 DEF TypeOK, Cleared, GraphIsolated
  <2> QED BY <2>1, <2>2, <2>3, <2>4, <2>5, <2>6
<1>10. CASE FlushFails
  <2> USE <1>10 DEF FlushFails, disk, shared, process, history
  <2>1. TypeOK'
    BY DEF TypeOK, Stages, Plans, Steps, TornCheckpoint
  <2>2. Between' /\ OnlyIngestedCounted'
    BY DEF TypeOK, Between, OnlyIngestedCounted, TornCheckpoint
  <2>3. Present' /\ Complete'
    BY DEF TypeOK, Present, Content, Complete, Working, Saving, OnlyIngestedCounted
  <2>4. Announced'
    BY DEF TypeOK, Announced, Complete, Working, Saving, TornCheckpoint, Plans
  <2>5. AnswersAreBacked'
    BY DEF TypeOK, AnswersAreBacked, AnsweredAfterIngest, StageAfterOutput, Announced,
           Complete, OnlyIngestedCounted, TornCheckpoint, Working, Saving
  <2>6. Cleared'
    BY DEF TypeOK, Cleared, GraphIsolated
  <2> QED BY <2>1, <2>2, <2>3, <2>4, <2>5, <2>6
<1>11. CASE PersistLands
  <2> USE <1>11 DEF PersistLands, disk, shared, process, history
  <2>1. TypeOK'
    BY DEF TypeOK, Stages, Plans, Steps, TornCheckpoint
  <2>2. Between' /\ OnlyIngestedCounted'
    BY DEF TypeOK, Between, OnlyIngestedCounted, TornCheckpoint
  <2>3. Present' /\ Complete'
    BY DEF TypeOK, Present, Content, Complete, Working, Saving, OnlyIngestedCounted
  <2>4. Announced'
    BY DEF TypeOK, Announced, Complete, Working, Saving, TornCheckpoint, Plans
  <2>5. AnswersAreBacked'
    BY DEF TypeOK, AnswersAreBacked, AnsweredAfterIngest, StageAfterOutput, Announced,
           Complete, OnlyIngestedCounted, TornCheckpoint, Working, Saving
  <2>6. Cleared'
    BY DEF TypeOK, Cleared, GraphIsolated
  <2> QED BY <2>1, <2>2, <2>3, <2>4, <2>5, <2>6
<1>12. CASE Answer
  <2> USE <1>12 DEF Answer, disk, shared, process, history
  <2>1. TypeOK'
    BY DEF TypeOK, Stages, Plans, Steps, TornCheckpoint
  <2>2. Between' /\ OnlyIngestedCounted'
    BY DEF TypeOK, Between, OnlyIngestedCounted, TornCheckpoint
  <2>3. Present' /\ Complete'
    BY DEF TypeOK, Present, Content, Complete, Working, Saving, OnlyIngestedCounted
  <2>4. Announced'
    BY DEF TypeOK, Announced, Complete, Working, Saving, TornCheckpoint, Plans
  <2>5. AnswersAreBacked'
    BY DEF TypeOK, AnswersAreBacked, AnsweredAfterIngest, StageAfterOutput, Announced,
           Complete, OnlyIngestedCounted, TornCheckpoint, Working, Saving
  <2>6. Cleared'
    BY DEF TypeOK, Cleared, GraphIsolated
  <2> QED BY <2>1, <2>2, <2>3, <2>4, <2>5, <2>6
<1>13. CASE AnswerFails
  <2> USE <1>13 DEF AnswerFails, disk, shared, process, history
  <2>1. TypeOK'
    BY DEF TypeOK, Stages, Plans, Steps, TornCheckpoint
  <2>2. Between' /\ OnlyIngestedCounted'
    BY DEF TypeOK, Between, OnlyIngestedCounted, TornCheckpoint
  <2>3. Present' /\ Complete'
    BY DEF TypeOK, Present, Content, Complete, Working, Saving, OnlyIngestedCounted
  <2>4. Announced'
    BY DEF TypeOK, Announced, Complete, Working, Saving, TornCheckpoint, Plans
  <2>5. AnswersAreBacked'
    BY DEF TypeOK, AnswersAreBacked, AnsweredAfterIngest, StageAfterOutput, Announced,
           Complete, OnlyIngestedCounted, TornCheckpoint, Working, Saving
  <2>6. Cleared'
    BY DEF TypeOK, Cleared, GraphIsolated
  <2> QED BY <2>1, <2>2, <2>3, <2>4, <2>5, <2>6
<1>14. CASE CloseManager
  <2> USE <1>14 DEF CloseManager, disk, shared, process, history
  <2>1. TypeOK'
    BY DEF TypeOK, Stages, Plans, Steps, TornCheckpoint
  <2>2. Between' /\ OnlyIngestedCounted'
    BY DEF TypeOK, Between, OnlyIngestedCounted, TornCheckpoint
  <2>3. Present' /\ Complete'
    BY DEF TypeOK, Present, Content, Complete, Working, Saving, OnlyIngestedCounted
  <2>4. Announced'
    BY DEF TypeOK, Announced, Complete, Working, Saving, TornCheckpoint, Plans
  <2>5. AnswersAreBacked'
    BY DEF TypeOK, AnswersAreBacked, AnsweredAfterIngest, StageAfterOutput, Announced,
           Complete, OnlyIngestedCounted, TornCheckpoint, Working, Saving
  <2>6. Cleared'
    BY DEF TypeOK, Cleared, GraphIsolated
  <2> QED BY <2>1, <2>2, <2>3, <2>4, <2>5, <2>6
<1>15. CASE CloseFails
  <2> USE <1>15 DEF CloseFails, disk, shared, process, history
  <2>1. TypeOK'
    BY DEF TypeOK, Stages, Plans, Steps, TornCheckpoint
  <2>2. Between' /\ OnlyIngestedCounted'
    BY DEF TypeOK, Between, OnlyIngestedCounted, TornCheckpoint
  <2>3. Present' /\ Complete'
    BY DEF TypeOK, Present, Content, Complete, Working, Saving, OnlyIngestedCounted
  <2>4. Announced'
    BY DEF TypeOK, Announced, Complete, Working, Saving, TornCheckpoint, Plans
  <2>5. AnswersAreBacked'
    BY DEF TypeOK, AnswersAreBacked, AnsweredAfterIngest, StageAfterOutput, Announced,
           Complete, OnlyIngestedCounted, TornCheckpoint, Working, Saving
  <2>6. Cleared'
    BY DEF TypeOK, Cleared, GraphIsolated
  <2> QED BY <2>1, <2>2, <2>3, <2>4, <2>5, <2>6
<1>16. CASE Kill
  <2> USE <1>16 DEF Kill, disk, shared, process, history, Fresh
  <2>0. 1 \in Datasets
    BY RunnerAssumption DEF Datasets
  <2>1. TypeOK'
    BY <2>0 DEF TypeOK, Stages, Plans, Steps, TornCheckpoint
  <2>2. Between' /\ OnlyIngestedCounted'
    BY <2>0 DEF TypeOK, Between, OnlyIngestedCounted, TornCheckpoint
  <2>3. Present' /\ Complete'
    BY <2>0 DEF TypeOK, Present, Content, Complete, Working, Saving, OnlyIngestedCounted
  <2>4. Announced'
    BY <2>0 DEF TypeOK, Announced, Complete, Working, Saving, TornCheckpoint, Plans
  <2>5. AnswersAreBacked'
    BY <2>0 DEF TypeOK, AnswersAreBacked, AnsweredAfterIngest, StageAfterOutput, Announced,
           Complete, OnlyIngestedCounted, TornCheckpoint, Working, Saving
  <2>6. Cleared'
    BY <2>0 DEF TypeOK, Cleared, GraphIsolated
  <2> QED BY <2>1, <2>2, <2>3, <2>4, <2>5, <2>6
<1>17. ASSUME NEW refreshed \in BOOLEAN, Launch(refreshed) PROVE IInv'
  <2> USE <1>17 DEF Launch, disk, shared, process, history
  <2>1. TypeOK'
    BY DEF TypeOK, Stages, Plans, Steps, TornCheckpoint
  <2>2. Between' /\ OnlyIngestedCounted'
    BY DEF TypeOK, Between, OnlyIngestedCounted, TornCheckpoint
  <2>3. Present' /\ Complete'
    BY DEF TypeOK, Present, Content, Complete, Working, Saving, OnlyIngestedCounted
  <2>4. Announced'
    BY DEF TypeOK, Announced, Complete, Working, Saving, TornCheckpoint, Plans
  <2>5. AnswersAreBacked'
    BY DEF TypeOK, AnswersAreBacked, AnsweredAfterIngest, StageAfterOutput, Announced,
           Complete, OnlyIngestedCounted, TornCheckpoint, Working, Saving
  <2>6. Cleared'
    BY DEF TypeOK, Cleared, GraphIsolated
  <2> QED BY <2>1, <2>2, <2>3, <2>4, <2>5, <2>6
<1>18. ASSUME NEW d \in Datasets, NEW stage \in {"ingest_in_progress", "error"}, Marked(d, stage)
      PROVE  IInv'
  <2> USE <1>18 DEF Marked, disk, shared, process, history
  <2>1. TypeOK'
    BY DEF TypeOK, Stages, Plans, Steps, TornCheckpoint
  <2>2. Between' /\ OnlyIngestedCounted'
    BY DEF TypeOK, Between, OnlyIngestedCounted, TornCheckpoint
  <2>3. Present' /\ Complete'
    BY DEF TypeOK, Present, Content, Complete, Working, Saving, OnlyIngestedCounted
  <2>4. Announced'
    BY DEF TypeOK, Announced, Complete, Working, Saving, TornCheckpoint, Plans
  <2>5. AnswersAreBacked'
    BY DEF TypeOK, AnswersAreBacked, AnsweredAfterIngest, StageAfterOutput, Announced,
           Complete, OnlyIngestedCounted, TornCheckpoint, Working, Saving
  <2>6. Cleared'
    BY DEF TypeOK, Cleared, GraphIsolated
  <2> QED BY <2>1, <2>2, <2>3, <2>4, <2>5, <2>6
<1>19. CASE ClearGraph
  <2>1. CASE NextDataset
    BY <1>19, <2>1, NextDatasetIInv DEF ClearGraph, TypeOK, disk, shared
  <2>2. CASE ~NextDataset
    BY <1>19, <2>2 DEF ClearGraph, AfterClear, disk, shared, TypeOK, Steps, Between,
                   OnlyIngestedCounted, Present, Complete, Announced, AnswersAreBacked,
                   AnsweredAfterIngest, StageAfterOutput, Cleared, GraphIsolated, Working, Saving
  <2> QED BY <2>1, <2>2
<1>20. CASE ClearFails
  <2>1. CASE NextDataset
    BY <1>20, <2>1, NextDatasetIInv DEF ClearFails, TypeOK, disk, shared
  <2>2. CASE ~NextDataset
    BY <1>20, <2>2 DEF ClearFails, AfterClear, disk, shared, TypeOK, Steps, Between,
                   OnlyIngestedCounted, Present, Complete, Announced, AnswersAreBacked,
                   AnsweredAfterIngest, StageAfterOutput, Cleared, GraphIsolated, Working, Saving
  <2> QED BY <2>1, <2>2
<1>21. CASE Judge
  BY <1>21, NextDatasetIInv DEF Judge, TypeOK, Cleared, disk, shared
<1>22. CASE JudgeFails
  BY <1>22, NextDatasetIInv DEF JudgeFails, TypeOK, Cleared, disk, shared
<1> QED
  BY <1>1, <1>2, <1>3, <1>4, <1>5, <1>6, <1>7, <1>8, <1>9, <1>10, <1>11, <1>12,
     <1>13, <1>14, <1>15, <1>16, <1>17, <1>18, <1>19, <1>20, <1>21, <1>22
     DEF Next, RunnerStep, WorkStep

-------------------------------------------------------------------------------
(* The theorems.                                                           *)

\* The inductive invariant holds.
THEOREM InvariantHolds == Spec => []IInv
<1> QED BY InitIInv, NextIInv, PTL DEF Spec

\* Checkpoints count sessions that were ingested, and what an answer lacks of
\* the graph its process skipped (_ingest_by_turn_pairs of runner.py).
THEOREM CountsStayTrue == Spec => []CountsAreTrue
<1>1. IInv => CountsAreTrue
  BY DEF IInv, CountsAreTrue, OnlySkippedMissing, Present, Complete, Working
<1> QED BY InvariantHolds, <1>1, PTL

\* There is no answer over part of the sessions, and no stage qa_complete
\* without an answer (_answer_questions of runner.py).
THEOREM AnswersStayBacked == Spec => []AnswersAreBacked
<1>1. IInv => AnswersAreBacked
  BY DEF IInv
<1> QED BY InvariantHolds, <1>1, PTL

\* Datasets do not meet in the graph, unless a clear raised or a process was
\* launched over what another left (_teardown_dataset of runner.py).
THEOREM GraphStaysIsolated == Spec => []GraphIsolated
<1>1. IInv => GraphIsolated
  BY DEF IInv, Cleared, GraphIsolated
<1> QED BY InvariantHolds, <1>1, PTL

-------------------------------------------------------------------------------
(* The refinement.                                                         *)

\* How many sessions a checkpoint may count.
LEMMA Counts ==
  /\ Cardinality({}) = 0
  /\ Cardinality(Sessions) = NSessions
  /\ \A S \in SUBSET Sessions : Cardinality(S) \in 0 .. NSessions
<1>1. IsFiniteSet(Sessions) /\ Cardinality(Sessions) = NSessions /\ NSessions \in Nat
  BY RunnerAssumption, FS_Interval DEF Sessions
<1>2. ASSUME NEW S \in SUBSET Sessions PROVE Cardinality(S) \in 0 .. NSessions
  BY <1>1, FS_Subset, FS_CardinalityType
<1> QED BY <1>1, <1>2, FS_EmptySet

\* A process that is done with a dataset leaves it, or ends.
LEMMA LeaveMaps ==
  ASSUME NextDataset, pc # "idle", UNCHANGED <<ckpt, output>>,
         judged' \in {judged, [judged EXCEPT ![cur] = @ \/ output[cur]]}
  PROVE  Batch!Leave
BY DEF NextDataset, Batch!Leave

LEMMA NextMaps == IInv /\ [Next]_vars => [Batch!Next]_(Batch!batch)
<1> SUFFICES ASSUME IInv, [Next]_vars PROVE [Batch!Next]_(Batch!batch)
  OBVIOUS
<1> USE DEF IInv
<1>1. ASSUME UNCHANGED <<ckpt, output, judged, cur>>, (pc # "idle") = (pc' # "idle")
      PROVE  UNCHANGED Batch!batch
  BY <1>1 DEF Batch!batch, Batch!files
<1>2. CASE UNCHANGED vars
  BY <1>1, <1>2 DEF vars, disk, process
<1>3. CASE Setup \/ SetupFails \/ IngestSession \/ IngestFails \/ IngestEnds
  BY <1>1, <1>3 DEF Setup, SetupFails, IngestSession, IngestFails, IngestEnds, disk
<1>4. CASE Flush \/ FlushFails \/ PersistLands \/ AnswerFails \/ CloseManager \/ CloseFails
  <2>1. pc = "flush" => AfterFlush # "idle"
    BY DEF TypeOK, Plans, Complete, AfterFlush
  <2> QED BY <1>1, <1>4, <2>1 DEF Flush, FlushFails, PersistLands, AnswerFails, CloseManager,
                                  CloseFails, disk, process
<1>5. CASE BeginSave
  <2>1. Batch!Tear
    BY <1>5, Counts DEF BeginSave, Batch!Tear, TypeOK, TornCheckpoint, shared
  <2> QED BY <2>1 DEF Batch!Next, Batch!Work
<1>6. CASE EndSave
  <2> DEFINE n == Cardinality(processed)
  <2>1. n \in 0 .. NSessions /\ (Sessions \subseteq processed => n = NSessions)
    BY Counts DEF TypeOK
  <2>2. ckpt[cur].ids = {} /\ Cardinality(ckpt[cur].ids) = 0
    <3>1. ckpt[cur] = TornCheckpoint
      BY <1>6 DEF EndSave, Announced
    <3> QED BY <3>1, Counts DEF TornCheckpoint
  <2>3. /\ output[cur] <=> plan = "qa"
        /\ plan \in {"final", "qa"} => n = NSessions
        /\ plan \in Plans
    BY <1>6, <2>1 DEF TypeOK, EndSave, Announced, Complete, Working, Saving
  <2>4. StageOf(plan) \in Batch!Stages
    BY <2>3 DEF StageOf, Plans, Batch!Stages
  <2>5. PICK s \in Batch!Stages, k \in 0 .. NSessions : s = StageOf(plan) /\ k = n
    BY <2>1, <2>4
  <2>6. /\ [d \in Datasets |-> ckpt'[d].stage]
              = [[d \in Datasets |-> ckpt[d].stage] EXCEPT ![cur] = s]
        /\ [d \in Datasets |-> Cardinality(ckpt'[d].ids)]
              = [[d \in Datasets |-> Cardinality(ckpt[d].ids)] EXCEPT ![cur] = k]
    BY <1>6, <2>5 DEF EndSave, TypeOK
  <2>7. \/ ~output[cur] /\ s = "ingest_in_progress" /\ k >= 0
        \/ ~output[cur] /\ s = "ingest_complete" /\ k = NSessions
        \/ output[cur] /\ s = "qa_complete" /\ k = NSessions
    BY <2>3, <2>5 DEF StageOf, Plans
  <2>8. Batch!Checkpoint(s, k)
    BY <1>6, <2>2, <2>6, <2>7 DEF EndSave, TypeOK, Batch!Checkpoint
  <2> QED BY <2>8 DEF Batch!Next, Batch!Work
<1>7. CASE Answer
  <2>1. Batch!Answer
    BY <1>7 DEF Answer, Batch!Answer, Announced, Working, Saving, TypeOK, shared
  <2> QED BY <2>1 DEF Batch!Next, Batch!Work
<1>8. CASE ClearGraph \/ ClearFails \/ Judge \/ JudgeFails
  <2>1. CASE NextDataset
    BY <1>8, <2>1, LeaveMaps DEF ClearGraph, ClearFails, Judge, JudgeFails, disk,
                                 Batch!Next, Batch!Work
  <2>2. CASE ~NextDataset
    BY <1>1, <1>8, <2>2 DEF ClearGraph, ClearFails, Judge, JudgeFails, AfterClear, disk
  <2> QED BY <2>1, <2>2
<1>9. CASE Kill
  <2>1. Batch!Die
    BY <1>9 DEF Kill, Batch!Die, Batch!files, disk
  <2> QED BY <2>1 DEF Batch!Next
<1>10. ASSUME NEW refreshed \in BOOLEAN, Launch(refreshed) PROVE [Batch!Next]_(Batch!batch)
  <2>1. Batch!Begin
    BY <1>10 DEF Launch, Batch!Begin, Batch!files, disk, Between
  <2> QED BY <2>1 DEF Batch!Next
<1>11. ASSUME NEW d \in Datasets, NEW stage \in {"ingest_in_progress", "error"}, Marked(d, stage)
       PROVE  [Batch!Next]_(Batch!batch)
  <2>1. Batch!Mark(d, stage)
    BY <1>11 DEF Marked, Batch!Mark, Batch!Stuck, Batch!TERMINAL_STAGES, TypeOK, process
  <2> QED BY <2>1 DEF Batch!Next, Batch!Datasets, Datasets
<1> QED
  BY <1>2, <1>3, <1>4, <1>5, <1>6, <1>7, <1>8, <1>9, <1>10, <1>11
     DEF Next, RunnerStep, WorkStep

\* What the watchdog sees of the runner is a batch run.
THEOREM RunnerImplementsBatchRun == Spec => RunnerIsABatchRun
<1>1. Init => Batch!BatchInit
  BY Counts DEF Init, Batch!BatchInit, Batch!Datasets, Datasets, NoCheckpoint
<1> QED BY <1>1, NextMaps, InvariantHolds, PTL DEF Spec, RunnerIsABatchRun, Batch!Spec

===============================================================================
