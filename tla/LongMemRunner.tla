---------------------------- MODULE LongMemRunner -----------------------------
(***************************************************************************)
(* The LongMem batch runner, experiment/longmem/pipeline/runner.py: the    *)
(* datasets of a run, taken one after the other, each ingested session by  *)
(* session with a resumable checkpoint, then answered and judged.          *)
(*                                                                         *)
(* One process works through the datasets.  Each dataset has its own       *)
(* indexes, checkpoint and output on disk; all of them share one graph     *)
(* database, which outlives the process.  The process may be killed at any *)
(* step, and launched again, with or without a refresh of the graph.       *)
(*                                                                         *)
(* A session stands for what its turns contribute: to the graph, to the    *)
(* in-memory indexes and, after a persist, to their files.  The optional   *)
(* split-summary rebuild and the stage "skipped_by_watchdog" of older      *)
(* checkpoints are left out.  What the watchdog sees of a run is BatchRun,  *)
(* which this module implements.                                           *)
(***************************************************************************)
EXTENDS FiniteSets, Integers

CONSTANTS
    NDatasets,   \* datasets of the run, processed in the order 1..NDatasets
    NSessions,   \* sessions of each dataset, ingested in the order 1..NSessions
    Every        \* checkpoint_every_n_sessions; 0 disables periodic checkpoints

ASSUME RunnerAssumption ==
    NDatasets \in Nat \ {0} /\ NSessions \in Nat \ {0} /\ Every \in Nat

Datasets == 1 .. NDatasets
Sessions == 1 .. NSessions

VARIABLES
    \* on disk, and in the graph database: these outlive the process
    ckpt,       \* per dataset: the checkpoint file
    saved,      \* per dataset: sessions in the index files
    output,     \* per dataset: whether the answer file exists
    judged,     \* per dataset: whether the answer has been judged
    graph,      \* sessions whose facts are all in the shared graph
    touched,    \* datasets with any fact in the shared graph
    \* of the running process
    pc,         \* what the process is doing; "idle" when there is none
    cur,        \* the dataset it is working on
    plan,       \* which checkpoint it is writing
    processed,  \* sessions of cur it counts as processed
    mem,        \* sessions in the open manager's indexes
    readOnly,   \* teardown must not persist the manager
    failed,     \* processing cur has raised
    \* history
    ingested,   \* per dataset: sessions ingested with success, ever
    skipped,    \* sessions of cur this process skipped as already processed
    unclean     \* a graph clear failed, or a launch took the graph as it was

disk == <<ckpt, saved, output, judged>>
shared == <<graph, touched>>
process == <<pc, cur, plan, processed, mem, readOnly, failed>>
history == <<ingested, skipped, unclean>>
vars == <<disk, shared, process, history>>

\* The stage a reader of the checkpoint file finds: "none" without a file,
\* "torn" when the file is cut short.  Either is loaded as no session done.
Stages == {"none", "torn", "ingest_in_progress", "ingest_complete",
           "qa_complete", "error"}
NoCheckpoint == [stage |-> "none", ids |-> {}]
TornCheckpoint == [stage |-> "torn", ids |-> {}]

\* The checkpoints the process writes, and what it does with each.
\*   periodic, final: write, then flush the indexes
\*   failed:          flush the indexes, then write, then raise
\*   qa:              write
Plans == {"periodic", "final", "failed", "qa"}
StageOf(p) == CASE p = "final" -> "ingest_complete"
                [] p = "qa"    -> "qa_complete"
                [] OTHER       -> "ingest_in_progress"

Steps == {"idle", "setup", "loop", "save", "truncated", "flush",
          "qa", "close", "clear", "judge"}

TypeOK ==
    /\ ckpt \in [Datasets -> [stage : Stages, ids : SUBSET Sessions]]
    /\ saved \in [Datasets -> SUBSET Sessions]
    /\ output \in [Datasets -> BOOLEAN]
    /\ judged \in [Datasets -> BOOLEAN]
    /\ graph \in SUBSET (Datasets \X Sessions)
    /\ touched \in SUBSET Datasets
    /\ pc \in Steps
    /\ cur \in Datasets
    /\ plan \in Plans
    /\ processed \in SUBSET Sessions
    /\ mem \in SUBSET Sessions
    /\ readOnly \in BOOLEAN
    /\ failed \in BOOLEAN
    /\ ingested \in [Datasets -> SUBSET Sessions]
    /\ skipped \in SUBSET Sessions
    /\ unclean \in BOOLEAN

\* The values of the process's variables between two datasets.
Fresh ==
    /\ plan' = "periodic" /\ processed' = {} /\ mem' = {}
    /\ readOnly' = FALSE /\ failed' = FALSE /\ skipped' = {}

Init ==
    /\ ckpt = [d \in Datasets |-> NoCheckpoint]
    /\ saved = [d \in Datasets |-> {}]
    /\ output = [d \in Datasets |-> FALSE]
    /\ judged = [d \in Datasets |-> FALSE]
    /\ graph = {} /\ touched = {}
    /\ pc = "idle" /\ cur = 1 /\ plan = "periodic"
    /\ processed = {} /\ mem = {} /\ readOnly = FALSE /\ failed = FALSE
    /\ ingested = [d \in Datasets |-> {}]
    /\ skipped = {} /\ unclean = FALSE

Content(d) == {s \in Sessions : <<d, s>> \in graph}

-----------------------------------------------------------------------------
(* process_dataset: setup and ingestion.                                   *)

\* _setup_dataset opens a manager on the dataset's index files.  A dataset
\* whose output exists is skipped; otherwise the checkpoint is loaded.
Setup ==
    /\ pc = "setup"
    /\ mem' = saved[cur]
    /\ IF output[cur]
       THEN /\ pc' = "close" /\ readOnly' = TRUE
            /\ UNCHANGED <<processed, skipped>>
       ELSE /\ pc' = "loop" /\ UNCHANGED readOnly
            /\ processed' = ckpt[cur].ids
            /\ skipped' = ckpt[cur].ids
    /\ UNCHANGED <<disk, shared, cur, plan, failed, ingested, unclean>>

\* The components or the CSV cannot be opened: the manager, if it was, holds
\* what it loaded.
SetupFails ==
    /\ pc = "setup"
    /\ mem' = saved[cur]
    /\ pc' = "close" /\ failed' = TRUE
    /\ UNCHANGED <<disk, shared, cur, plan, processed, readOnly, history>>

Pending == Sessions \ processed
IsNext(s) == \A t \in Pending : s <= t

\* Every turn of the next pending session is ingested; every few sessions a
\* checkpoint is due.
IngestSession ==
    /\ pc = "loop"
    /\ \E s \in Pending :
          /\ IsNext(s)
          /\ graph' = graph \cup {<<cur, s>>}
          /\ mem' = mem \cup {s}
          /\ ingested' = [ingested EXCEPT ![cur] = @ \cup {s}]
          /\ processed' = processed \cup {s}
    /\ touched' = touched \cup {cur}
    /\ IF Every > 0 /\ Cardinality(processed') % Every = 0
       THEN pc' = "save" /\ plan' = "periodic"
       ELSE UNCHANGED <<pc, plan>>
    /\ UNCHANGED <<disk, cur, readOnly, failed, skipped, unclean>>

\* Mutated form of IngestFails: the session is counted and the loop goes on.
IngestFailsSkipping ==
    /\ pc = "loop"
    /\ touched' \in {touched, touched \cup {cur}}
    /\ \E s \in Pending : IsNext(s) /\ processed' = processed \cup {s}
    /\ UNCHANGED <<disk, graph, pc, cur, plan, mem, readOnly, failed, history>>

\* A turn fails: some facts of the session may be in the graph by then.
IngestFails ==
    /\ pc = "loop" /\ Pending # {}
    /\ touched' \in {touched, touched \cup {cur}}
    /\ failed' = TRUE
    /\ plan' = "failed" /\ pc' = "flush"
    /\ UNCHANGED <<disk, graph, cur, processed, mem, readOnly, history>>

IngestEnds ==
    /\ pc = "loop" /\ Pending = {}
    /\ pc' = "save" /\ plan' = "final"
    /\ UNCHANGED <<disk, shared, cur, processed, mem, readOnly, failed, history>>

-----------------------------------------------------------------------------
(* Checkpoints and index files.                                            *)

\* save_checkpoint opens the file for writing, which truncates it.
BeginSave ==
    /\ pc = "save"
    /\ ckpt' = [ckpt EXCEPT ![cur] = TornCheckpoint]
    /\ pc' = "truncated"
    /\ UNCHANGED <<saved, output, judged, shared, cur, plan, processed, mem,
                   readOnly, failed, history>>

\* Mutated form of EndSave: the recorded failure is not raised again.
EndSaveNotRaising ==
    /\ pc = "truncated"
    /\ ckpt' = [ckpt EXCEPT ![cur] = [stage |-> StageOf(plan), ids |-> processed]]
    /\ pc' = CASE plan \in {"periodic", "final"} -> "flush"
              [] plan = "failed" -> "qa"
              [] plan = "qa"     -> "close"
    /\ UNCHANGED <<saved, output, judged, shared, cur, plan, processed, mem,
                   readOnly, failed, history>>

EndSave ==
    /\ pc = "truncated"
    /\ ckpt' = [ckpt EXCEPT ![cur] = [stage |-> StageOf(plan), ids |-> processed]]
    /\ pc' = IF plan \in {"periodic", "final"} THEN "flush" ELSE "close"
    /\ UNCHANGED <<saved, output, judged, shared, cur, plan, processed, mem,
                   readOnly, failed, history>>

AfterFlush == CASE plan = "periodic" -> "loop"
                [] plan = "final"    -> "qa"
                [] plan = "failed"   -> "save"

Flush ==
    /\ pc = "flush"
    /\ saved' = [saved EXCEPT ![cur] = mem]
    /\ pc' = AfterFlush
    /\ UNCHANGED <<ckpt, output, judged, shared, cur, plan, processed, mem,
                   readOnly, failed, history>>

\* Mutated form of FlushFails: checkpoint and flush are tried again.
FlushFailsRetrying ==
    /\ pc = "flush"
    /\ pc' = "save"
    /\ UNCHANGED <<disk, shared, cur, plan, processed, mem, readOnly, failed, history>>

\* flush_persist raises; the exception leaves process_dataset.
FlushFails ==
    /\ pc = "flush"
    /\ failed' = TRUE
    /\ pc' = "close"
    /\ UNCHANGED <<disk, shared, cur, plan, processed, mem, readOnly, history>>

\* A write started by persist_async during ingestion reaches the disk.
PersistLands ==
    /\ pc \in {"loop", "save", "truncated", "flush", "qa"}
    /\ saved[cur] # mem
    /\ saved' = [saved EXCEPT ![cur] = mem]
    /\ UNCHANGED <<ckpt, output, judged, shared, process, history>>

-----------------------------------------------------------------------------
(* Question answering, teardown and judging.                               *)

\* Mutated form of Answer: a failing write of the answer file is only logged.
AnswerUnchecked ==
    /\ pc = "qa"
    /\ output' \in {output, [output EXCEPT ![cur] = TRUE]}
    /\ pc' = "save" /\ plan' = "qa"
    /\ UNCHANGED <<ckpt, saved, judged, shared, cur, processed, mem, readOnly,
                   failed, history>>

\* _answer_questions: the answer file is written, then the checkpoint.
Answer ==
    /\ pc = "qa"
    /\ output' = [output EXCEPT ![cur] = TRUE]
    /\ pc' = "save" /\ plan' = "qa"
    /\ UNCHANGED <<ckpt, saved, judged, shared, cur, processed, mem, readOnly,
                   failed, history>>

AnswerFails ==
    /\ pc = "qa"
    /\ failed' = TRUE
    /\ pc' = "close"
    /\ UNCHANGED <<disk, shared, cur, plan, processed, mem, readOnly, history>>

\* _teardown_dataset: the manager is closed, with a persist unless read-only;
\* then the graph is cleared, whether or not the close raised.
CloseManager ==
    /\ pc = "close"
    /\ IF readOnly THEN UNCHANGED saved
                   ELSE saved' = [saved EXCEPT ![cur] = mem]
    /\ pc' = "clear"
    /\ UNCHANGED <<ckpt, output, judged, shared, cur, plan, processed, mem,
                   readOnly, failed, history>>

CloseFails ==
    /\ pc = "close"
    /\ failed' = TRUE
    /\ pc' = "clear"
    /\ UNCHANGED <<disk, shared, cur, plan, processed, mem, readOnly, history>>

\* process_all goes on to the next dataset, or the process ends.
NextDataset ==
    /\ Fresh
    /\ IF cur < NDatasets THEN cur' = cur + 1 /\ pc' = "setup"
                          ELSE cur' = 1 /\ pc' = "idle"

\* A dataset that raised is not judged; process_all swallows the exception.
AfterClear(raised) ==
    \/ raised /\ NextDataset
    \/ /\ ~raised
       /\ pc' = "judge"
       /\ UNCHANGED <<cur, plan, processed, mem, readOnly, failed, skipped>>

\* Mutated form of ClearGraph: a dataset that raised keeps its graph.
ClearGraphUnlessFailed ==
    /\ pc = "clear"
    /\ IF failed THEN UNCHANGED shared ELSE graph' = {} /\ touched' = {}
    /\ AfterClear(failed)
    /\ UNCHANGED <<disk, ingested, unclean>>

ClearGraph ==
    /\ pc = "clear"
    /\ graph' = {} /\ touched' = {}
    /\ AfterClear(failed)
    /\ UNCHANGED <<disk, ingested, unclean>>

\* clear_all raises: so does process_dataset, and the graph is left as it is.
ClearFails ==
    /\ pc = "clear"
    /\ unclean' = TRUE
    /\ AfterClear(TRUE)
    /\ UNCHANGED <<disk, shared, ingested>>

\* An answer already judged is not judged again.
Judge ==
    /\ pc = "judge"
    /\ judged' = [judged EXCEPT ![cur] = @ \/ output[cur]]
    /\ NextDataset
    /\ UNCHANGED <<ckpt, saved, output, shared, ingested, unclean>>

JudgeFails ==
    /\ pc = "judge" /\ ~judged[cur]
    /\ NextDataset
    /\ UNCHANGED <<disk, shared, ingested, unclean>>

-----------------------------------------------------------------------------
(* The life of the process.                                                *)

\* Killed, or interrupted by the user, who gets no teardown either.
Kill ==
    /\ pc # "idle"
    /\ pc' = "idle" /\ cur' = 1
    /\ Fresh
    /\ UNCHANGED <<disk, shared, ingested, unclean>>

\* A new process, after refresh_system cleared the graph or without it.
Launch(refreshed) ==
    /\ pc = "idle"
    /\ pc' = "setup"
    /\ IF refreshed THEN graph' = {} /\ touched' = {} ELSE UNCHANGED shared
    /\ unclean' = (unclean \/ (~refreshed /\ touched # {}))
    /\ UNCHANGED <<disk, cur, plan, processed, mem, readOnly, failed, ingested, skipped>>

\* Between two processes the watchdog marks a dataset it found unfinished.
Marked(d, stage) ==
    /\ pc = "idle"
    /\ ~output[d] /\ ckpt[d].stage \notin {"none", "qa_complete", "error"}
    /\ ckpt' = [ckpt EXCEPT ![d].stage = stage]
    /\ UNCHANGED <<saved, output, judged, shared, process, history>>

-----------------------------------------------------------------------------
WorkStep ==
    \/ Setup \/ SetupFails
    \/ IngestSession \/ IngestFails \/ IngestEnds
    \/ BeginSave \/ EndSave \/ Flush \/ FlushFails
    \/ Answer \/ AnswerFails
    \/ CloseManager \/ CloseFails \/ ClearGraph \/ ClearFails
    \/ Judge \/ JudgeFails

RunnerStep == WorkStep \/ PersistLands

Next ==
    \/ RunnerStep
    \/ Kill
    \/ \E refreshed \in BOOLEAN : Launch(refreshed)
    \/ \E d \in Datasets, stage \in {"ingest_in_progress", "error"} : Marked(d, stage)

Spec == Init /\ [][Next]_vars

\* A process that is left alone goes on working.  Nothing makes an operator
\* launch one, and nothing keeps it from being killed.
FairSpec == Spec /\ WF_vars(WorkStep)

-----------------------------------------------------------------------------
(* Properties.                                                             *)

\* A failed session must not enter the completed set: whatever was written
\* when, a checkpoint and the running process only count sessions that were
\* ingested to their last turn.
OnlyIngestedCounted ==
    /\ \A d \in Datasets : ckpt[d].ids \subseteq ingested[d]
    /\ pc \notin {"idle", "setup"} => processed \subseteq ingested[cur]

\* What the answer is computed on lacks, of the graph, only sessions this
\* process skipped because a checkpoint counted them.
OnlySkippedMissing ==
    pc = "qa" => Sessions \subseteq Content(cur) \cup skipped

\* The counted sessions and the graph: what is counted was ingested, and what
\* is not in the graph was counted.
CountsAreTrue == TypeOK /\ OnlyIngestedCounted /\ OnlySkippedMissing

\* No answer file exists for a dataset with a session that never was ingested
\* with success, through any number of failures, kills and resumes.
AnsweredAfterIngest ==
    \A d \in Datasets : output[d] => ingested[d] = Sessions

\* The stage qa_complete is never on disk without the answer file: a kill
\* between the two writes leaves an answer to be found, not one to be missed.
StageAfterOutput ==
    \A d \in Datasets : ckpt[d].stage = "qa_complete" => output[d]

\* The answer files, whatever was killed between two writes: none over part of
\* the sessions, and none that its checkpoint announces and does not have.
AnswersAreBacked == AnsweredAfterIngest /\ StageAfterOutput

\* The graph database is cleared between datasets: while one is worked on, the
\* graph holds nothing of another, as long as no clear raised and no process
\* was launched over the graph another one left.
GraphIsolated == pc # "idle" /\ ~unclean => touched \subseteq {cur}

\* A launched process that is not killed gets to its end, whichever steps of
\* its datasets fail.
RunEnds == pc # "idle" ~> pc = "idle"

\* What the watchdog sees of the runner's files is a behaviour of BatchRun:
\* answers only over a complete ingest, the stage qa_complete only over an
\* answer, counts that shrink only when a checkpoint is torn.
Batch == INSTANCE BatchRun WITH
            stage <- [d \in Datasets |-> ckpt[d].stage],
            count <- [d \in Datasets |-> Cardinality(ckpt[d].ids)],
            running <- pc # "idle"
RunnerIsABatchRun == Batch!Spec

\* A failed session must not let QA run against an incomplete graph.
AnswersOnCompleteGraph == pc = "qa" => Content(cur) = Sessions
=============================================================================
