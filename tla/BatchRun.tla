------------------------------- MODULE BatchRun --------------------------------
(***************************************************************************)
(* What the LongMem watchdog sees of a batch run: for each dataset the     *)
(* stage and the session count of its checkpoint file, whether its answer  *)
(* file exists and whether the answer was judged, and whether a batch      *)
(* process is running.  LongMemRunner implements this module; Watchdog     *)
(* supervises it.                                                          *)
(***************************************************************************)
EXTENDS Integers

CONSTANTS
    NDatasets,   \* datasets of the run, processed in the order 1..NDatasets
    NSessions    \* sessions of each dataset

ASSUME BatchAssumption == NDatasets \in Nat \ {0} /\ NSessions \in Nat \ {0}

Datasets == 1 .. NDatasets

VARIABLES
    stage,    \* per dataset: the stage its checkpoint file shows
    count,    \* per dataset: how many sessions the checkpoint counts
    output,   \* per dataset: whether the answer file exists
    judged,   \* per dataset: whether the answer has been judged
    running,  \* a batch process exists
    cur       \* the dataset it is working on; 1 when there is none

files == <<stage, count, output, judged>>
batch == <<files, running, cur>>

Stages == {"none", "torn", "ingest_in_progress", "ingest_complete",
           "qa_complete", "error"}

BatchType ==
    /\ stage \in [Datasets -> Stages]
    /\ count \in [Datasets -> 0 .. NSessions]
    /\ output \in [Datasets -> BOOLEAN]
    /\ judged \in [Datasets -> BOOLEAN]
    /\ running \in BOOLEAN
    /\ cur \in Datasets

BatchInit ==
    /\ stage = [d \in Datasets |-> "none"]
    /\ count = [d \in Datasets |-> 0]
    /\ output = [d \in Datasets |-> FALSE]
    /\ judged = [d \in Datasets |-> FALSE]
    /\ running = FALSE /\ cur = 1

\* process_all starts with the first dataset, whatever the checkpoints say.
Begin ==
    /\ ~running
    /\ running' = TRUE /\ cur' = 1
    /\ UNCHANGED files

\* A checkpoint of the ingest, or the one that follows the answer.
Checkpoint(s, n) ==
    /\ running
    /\ \/ ~output[cur] /\ s = "ingest_in_progress" /\ n >= count[cur]
       \/ ~output[cur] /\ s = "ingest_complete" /\ n = NSessions
       \/ output[cur] /\ s = "qa_complete" /\ n = NSessions
    /\ stage' = [stage EXCEPT ![cur] = s]
    /\ count' = [count EXCEPT ![cur] = n]
    /\ UNCHANGED <<output, judged, running, cur>>

\* Rewriting a checkpoint truncates it first.
Tear ==
    /\ running
    /\ stage' = [stage EXCEPT ![cur] = "torn"]
    /\ count' = [count EXCEPT ![cur] = 0]
    /\ UNCHANGED <<output, judged, running, cur>>

Answer ==
    /\ running
    /\ ~output[cur] /\ stage[cur] = "ingest_complete"
    /\ output' = [output EXCEPT ![cur] = TRUE]
    /\ UNCHANGED <<stage, count, judged, running, cur>>

\* The process is done with a dataset: judged, if it has an answer, or failed.
Leave ==
    /\ running
    /\ judged' \in {judged, [judged EXCEPT ![cur] = @ \/ output[cur]]}
    /\ IF cur < NDatasets THEN cur' = cur + 1 /\ UNCHANGED running
                          ELSE cur' = 1 /\ running' = FALSE
    /\ UNCHANGED <<stage, count, output>>

Die ==
    /\ running
    /\ running' = FALSE /\ cur' = 1
    /\ UNCHANGED files

\* The stages the watchdog leaves alone, with or without their answer file.
TERMINAL_STAGES == {"qa_complete", "error"}

\* mark_stuck_datasets_as_skipped looks at datasets with a checkpoint file, no
\* answer file and no terminal stage.
Stuck(d) == ~output[d] /\ stage[d] \notin TERMINAL_STAGES \cup {"none"}

\* It writes a stage back, and the session list it read.
Mark(d, s) ==
    /\ ~running /\ Stuck(d)
    /\ stage' = [stage EXCEPT ![d] = s]
    /\ UNCHANGED <<count, output, judged, running, cur>>

Work ==
    \/ \E s \in Stages, n \in 0 .. NSessions : Checkpoint(s, n)
    \/ Tear \/ Answer \/ Leave

Next ==
    \/ Begin \/ Work \/ Die
    \/ \E d \in Datasets, s \in {"ingest_in_progress", "error"} : Mark(d, s)

Spec == BatchInit /\ [][Next]_batch
=============================================================================
